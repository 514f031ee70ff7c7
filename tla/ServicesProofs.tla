--------------------------- MODULE ServicesProofs ---------------------------
(***************************************************************************)
(* Theorems about the settings of a home (HomeSettings), the catalog and   *)
(* the requests of Antigravity (AgyService), and the catalog and the tools *)
(* of OpenCode Zen (ZenService, ZenTools).                                 *)
(*                                                                         *)
(* A save that fails restores what it found because nothing else changes   *)
(* that meanwhile: SaveInv says for each place of a save what it has       *)
(* written and what it remembers.                                          *)
(***************************************************************************)
EXTENDS HomeSettings, AgyService, ZenService, ZenTools, FiniteSetTheorems,
        WellFoundedInduction, TLAPS

-----------------------------------------------------------------------------
(* What Antigravity is asked for.                                          *)

Stages == {"idle", "waiting", "ready", "asks", "again", "sent", "refused"}
Goals == {"none", "show", "force", "timer", "adopt", "load", "list", "any", "listed", "moved"}
Successors == {MovedModels[m] : m \in DOMAIN MovedModels}
RawActor == [stage : Stages, goal : Goals, asked : AskedModels \union {NoAccount},
             model : AskedModels \union Successors \union {NoAccount},
             tier : TierNames, by : Catalogs]
ActorType == {r \in RawActor : r.goal \in {"load", "list"} => r.asked \in AskedModels}

(* Catalogs whose list the upstream has had for their account. *)
Genuine == {c \in Catalogs : c # NoList => c.list \in hadOffers[c.of]}

(* What SentIsModel says of the record of one actor, and what one that asks *)
(* a second time remembers.                                                 *)
Turned(d) == d.by # NoList /\ d.asked \notin Admits(d.by)
Admitted(d) ==
    /\ d.goal = "list" => Turned(d)
    /\ d.stage = "sent" =>
         /\ d.goal = "listed" => d.by # NoList /\ d.model \in d.by.list /\ d.by.list \in hadOffers[d.by.of]
         /\ d.goal = "moved" => /\ d.asked \in DOMAIN MovedModels /\ d.model = MovedModels[d.asked]
                                /\ d.asked \notin Admits(d.by)

ServiceInv ==
    /\ ServiceTypeOK
    /\ actor \in [Actors -> ActorType]
    /\ \A who \in Accounts : offered[who] \in hadOffers[who]
    /\ {memory, disk, meta} \subseteq Genuine
    /\ \A a \in Actors : Admitted(actor[a])

LEMMA ListsAreModels ==
    ASSUME NEW c \in Catalogs, c # NoList
    PROVE  c.list \subseteq Ids
BY AgyServiceAssumption DEF Catalogs

LEMMA VariantsOfFamily ==
    ASSUME NEW list, Merged(list)
    PROVE  \E t \in TierNames : t \in DOMAIN Tiers /\ Tiers[t] \in list
<1>1. Variants(list) # {}
  BY FS_EmptySet DEF Merged
<1> QED BY <1>1, AgyServiceAssumption DEF Variants

LEMMA ResolvedIsModel ==
    ASSUME NEW list, Merged(list), NEW t \in TierNames
    PROVE  ResolveTier(list, t) \in list
<1> DEFINE has(i) == Fallback(t)[i] \in DOMAIN Tiers /\ Tiers[Fallback(t)[i]] \in list
           best == {i \in 1..3 : has(i) /\ \A j \in 1..(i - 1) : ~has(j)}
<1>1. PICK u \in TierNames : u \in DOMAIN Tiers /\ Tiers[u] \in list
  BY VariantsOfFamily
<1>2. PICK k \in 1..3 : Fallback(t)[k] = u
  <2>1. Fallback(t) = <<"low", "medium", "high">> \/ Fallback(t) = <<"medium", "high", "low">>
        \/ Fallback(t) = <<"high", "medium", "low">>
    BY DEF Fallback, TierNames
  <2>2. Fallback(t)[1] = u \/ Fallback(t)[2] = u \/ Fallback(t)[3] = u
    BY <2>1 DEF TierNames
  <2> QED BY <2>2
<1>3. has(k)
  BY <1>1, <1>2
<1>4. has(1) \/ has(2) \/ has(3)
  BY <1>3
<1> HIDE DEF has
<1>5. best # {}
  <2>1. CASE has(1)
    <3>1. 1 \in best BY <2>1
    <3> QED BY <3>1
  <2>2. CASE ~has(1) /\ has(2)
    <3>1. 2 \in best BY <2>2
    <3> QED BY <3>1
  <2>3. CASE ~has(1) /\ ~has(2) /\ has(3)
    <3>1. 3 \in best BY <2>3
    <3> QED BY <3>1
  <2> QED BY <2>1, <2>2, <2>3, <1>4
<1> DEFINE i == CHOOSE i \in best : TRUE
<1>6. i \in best /\ has(i)
  BY <1>5
<1> HIDE DEF best
<1>7. ResolveTier(list, t) = Tiers[Fallback(t)[i]]
  BY <1>5 DEF ResolveTier, best, has
<1> QED BY <1>6, <1>7 DEF has

LEMMA NamedIsModel ==
    ASSUME NEW c \in Catalogs, c # NoList, NEW m, m \in Admits(c), NEW t \in TierNames
    PROVE  Named(c, m, t) \in c.list
<1>1. CASE m = Family /\ Merged(c.list)
  BY <1>1, ResolvedIsModel DEF Named
<1>2. CASE ~(m = Family /\ Merged(c.list))
  BY <1>2 DEF Named, Admits, Slugs, Members, Variants
<1> QED BY <1>1, <1>2

LEMMA DecidedIsModel ==
    ASSUME NEW known \in Genuine, NEW now \in ActorType, now.asked \in AskedModels,
           NEW mayAsk \in BOOLEAN, mayAsk \/ now.goal = "list", Admitted(now)
    PROVE  Decide(known, now, mayAsk) \in ActorType /\ Admitted(Decide(known, now, mayAsk))
<1> DEFINE d == Decide(known, now, mayAsk)
           m == now.asked
           seen == IF mayAsk THEN [now EXCEPT !.by = known] ELSE now
<1>k. known \in Catalogs /\ (known # NoList => known.list \in hadOffers[known.of])
  BY DEF Genuine
<1>s. seen \in ActorType /\ seen.asked = m /\ seen.by = (IF mayAsk THEN known ELSE now.by)
  BY <1>k DEF ActorType, RawActor
<1>1. CASE known = NoList
  <2>1. d = [now EXCEPT !.stage = "sent", !.goal = "any"]
    BY <1>1 DEF Decide
  <2> HIDE DEF d
  <2>2. d \in ActorType /\ d.goal = "any"
    BY <2>1 DEF ActorType, RawActor, Stages, Goals
  <2> QED BY <2>2 DEF d, Admitted
<1>2. CASE known # NoList /\ mayAsk /\ m \in Admits(known)
  <2> DEFINE name == Named(known, m, now.tier)
  <2>1. known.list \subseteq Ids /\ now.tier \in TierNames
    BY <1>2, <1>k, ListsAreModels DEF ActorType, RawActor
  <2>2. name \in known.list
    BY <1>2, <1>k, <2>1, NamedIsModel
  <2>3. d = [seen EXCEPT !.stage = "sent", !.goal = "listed", !.model = name]
    BY <1>2 DEF Decide
  <2>4. name \in AskedModels
    BY <2>1, <2>2 DEF AskedModels
  <2> HIDE DEF d, name, seen
  <2>5. d \in ActorType /\ d.goal = "listed" /\ d.model = name /\ d.by = seen.by
    BY <1>s, <2>3, <2>4 DEF ActorType, RawActor, Stages, Goals
  <2> QED BY <1>2, <1>k, <1>s, <2>2, <2>5 DEF d, Admitted
<1>3. CASE known # NoList /\ mayAsk /\ m \notin Admits(known) /\ ~manual
  <2>1. d = [seen EXCEPT !.stage = "asks", !.goal = "list"]
    BY <1>3 DEF Decide
  <2> HIDE DEF d, seen
  <2>2. d \in ActorType /\ d.stage = "asks" /\ d.asked = m /\ d.by = seen.by
    BY <1>s, <2>1 DEF ActorType, RawActor, Stages, Goals
  <2> QED BY <1>3, <1>s, <2>2 DEF d, Admitted, Turned
<1>4. CASE known # NoList /\ ~(mayAsk /\ m \in Admits(known)) /\ ~(mayAsk /\ ~manual)
  <2>1. m \notin Admits(seen.by)
    BY <1>4, <1>s DEF Admitted, Turned
  <2>2. CASE m \in DOMAIN MovedModels
    <3>1. d = [seen EXCEPT !.stage = "sent", !.goal = "moved", !.model = MovedModels[m]]
      BY <1>4, <2>2 DEF Decide
    <3>2. MovedModels[m] \in Successors
      BY <2>2 DEF Successors
    <3> HIDE DEF d, seen
    <3>3. /\ d \in ActorType /\ d.goal = "moved" /\ d.asked = m /\ d.by = seen.by
          /\ d.model = MovedModels[m]
      BY <1>s, <3>1, <3>2 DEF ActorType, RawActor, Stages, Goals
    <3> QED BY <2>1, <2>2, <3>3 DEF d, Admitted
  <2>3. CASE m \notin DOMAIN MovedModels
    <3>1. d = Does("refused", "none", m, now.tier)
      BY <1>4, <2>3 DEF Decide
    <3> HIDE DEF d
    <3>2. d \in ActorType /\ d.goal = "none" /\ d.stage = "refused"
      BY <3>1 DEF Does, ActorType, RawActor, Stages, Goals, Catalogs
    <3> QED BY <3>2 DEF d, Admitted
  <2> QED BY <2>2, <2>3
<1> QED BY <1>1, <1>2, <1>3, <1>4

LEMMA OwnedIsCatalog ==
    ASSUME NEW c \in Genuine, NEW who
    PROVE  Owned(c, who) \in Genuine
BY DEF Owned, Genuine, Catalogs

LEMMA WhoIsAccount == Who \in Accounts \union {NoAccount}
BY DEF Who, Accounts

LEMMA BegunIsCatalog ==
    ASSUME ServiceInv, NEW force \in BOOLEAN
    PROVE  Begins(force).memory \in Genuine /\ (Begins(force).fetch => Who \in Accounts)
<1>1. memory \in Genuine /\ disk \in Genuine
  BY DEF ServiceInv
<1> QED BY <1>1, OwnedIsCatalog, WhoIsAccount DEF Begins

LEMMA CurrentIsCatalog ==
    ASSUME ServiceInv, NEW reload \in BOOLEAN
    PROVE  Current(reload) \in Genuine
<1>1. memory \in Genuine /\ disk \in Genuine
  BY DEF ServiceInv
<1> QED BY <1>1, OwnedIsCatalog DEF Current, Genuine, Catalogs

LEMMA MetaIsCatalog ==
    ASSUME ServiceInv, NEW c \in Genuine
    PROVE  Meta(c) \in Genuine
<1>1. CASE c = NoList
  BY <1>1 DEF Meta, ServiceInv
<1>2. CASE c # NoList
  <2>1. c \in [of : Accounts, list : AgyLists, fresh : BOOLEAN] /\ c.list \in hadOffers[c.of]
    BY <1>2 DEF Genuine, Catalogs
  <2> DEFINE d == [c EXCEPT !.fresh = TRUE]
  <2>2. d \in [of : Accounts, list : AgyLists, fresh : BOOLEAN] /\ d.list = c.list /\ d.of = c.of
    BY <2>1
  <2>3. Meta(c) = d
    BY <1>2 DEF Meta
  <2> HIDE DEF d
  <2> QED BY <2>1, <2>2, <2>3 DEF Genuine, Catalogs
<1> QED BY <1>1, <1>2

(* A record that an actor takes up and that is not "sent". *)
LEMMA WaitingIsActor ==
    ASSUME NEW go \in ActorType, Admitted(go), NEW s \in {"waiting", "ready"}
    PROVE  /\ [go EXCEPT !.stage = s] \in ActorType
           /\ Admitted([go EXCEPT !.stage = s])
<1> DEFINE new == [go EXCEPT !.stage = s]
<1>1. /\ new \in ActorType /\ new.stage = s
      /\ new.goal = go.goal /\ new.by = go.by /\ new.asked = go.asked
  BY DEF ActorType, RawActor, Stages
<1> HIDE DEF new
<1>2. new.stage # "sent"
  BY <1>1
<1>3. Admitted(new)
  BY <1>1, <1>2 DEF Admitted, Turned
<1> QED BY <1>1, <1>3 DEF new

(* What a listing or a refresh does to the store and to its actor. *)
StoreKept ==
    /\ memory' \in Genuine /\ round' \in Accounts \union {NoAccount}
    /\ roundForced' \in BOOLEAN /\ roundAgain' \in BOOLEAN
    /\ actor' \in [Actors -> ActorType]
    /\ \A b \in Actors : Admitted(actor'[b])

LEMMA RefreshKeeps ==
    ASSUME ServiceInv, NEW a \in Actors, NEW force \in BOOLEAN, NEW go \in ActorType, Admitted(go),
           Refresh(a, force, go)
    PROVE  StoreKept
<1>0. /\ memory \in Genuine /\ round \in Accounts \union {NoAccount}
      /\ roundForced \in BOOLEAN /\ roundAgain \in BOOLEAN /\ actor \in [Actors -> ActorType]
      /\ \A b \in Actors : Admitted(actor[b])
  BY DEF ServiceInv, ServiceTypeOK
<1>1. \E s \in {"waiting", "ready"} : actor' = [actor EXCEPT ![a] = [go EXCEPT !.stage = s]]
  BY DEF Refresh
<1>2. /\ actor' \in [Actors -> ActorType]
      /\ \A b \in Actors : Admitted(actor'[b])
  <2>1. PICK s \in {"waiting", "ready"} : actor' = [actor EXCEPT ![a] = [go EXCEPT !.stage = s]]
    BY <1>1
  <2> DEFINE new == [go EXCEPT !.stage = s]
  <2>2. new \in ActorType /\ Admitted(new)
    BY WaitingIsActor
  <2>3. actor' = [actor EXCEPT ![a] = new]
    BY <2>1
  <2> HIDE DEF new
  <2>4. \A b \in Actors : actor'[b] = IF b = a THEN new ELSE actor[b]
    BY <1>0, <2>3
  <2>5. actor' \in [Actors -> ActorType]
    BY <1>0, <2>2, <2>3
  <2> QED BY <1>0, <2>2, <2>4, <2>5
<1>3. CASE round # NoAccount
  <2>1. /\ roundAgain' = (roundAgain \/ (force /\ ~roundForced))
        /\ memory' = memory /\ round' = round /\ roundForced' = roundForced
    BY <1>3 DEF Refresh
  <2>2. roundAgain' \in BOOLEAN
    BY <1>0, <2>1, Zenon
  <2> QED BY <1>0, <1>2, <2>1, <2>2, Zenon DEF StoreKept
<1>4. CASE round = NoAccount
  <2>1. Start(force)
    BY <1>4 DEF Refresh
  <2>2. Begins(force).memory \in Genuine /\ (Begins(force).fetch => Who \in Accounts)
    BY BegunIsCatalog
  <2>3. roundForced' \in BOOLEAN /\ roundAgain' \in BOOLEAN
    BY <2>1 DEF Start, Begins
  <2>4. memory' \in Genuine /\ round' \in Accounts \union {NoAccount}
    BY <2>1, <2>2 DEF Start
  <2> QED BY <1>2, <2>3, <2>4 DEF StoreKept
<1> QED BY <1>3, <1>4

LEMMA ListedKeeps ==
    ASSUME ServiceInv, NEW a \in Actors, NEW go \in ActorType, Admitted(go), Listed(a, go)
    PROVE  StoreKept
<1>1. CASE manual
  <2>1. actor' = [actor EXCEPT ![a] = [go EXCEPT !.stage = "ready"]]
    BY <1>1 DEF Listed
  <2> DEFINE new == [go EXCEPT !.stage = "ready"]
  <2>2. new \in ActorType /\ Admitted(new)
    BY WaitingIsActor
  <2>3. actor' = [actor EXCEPT ![a] = new]
    BY <2>1
  <2> HIDE DEF new
  <2>4. /\ actor' \in [Actors -> ActorType]
        /\ \A b \in Actors : Admitted(actor'[b])
    BY <2>2, <2>3 DEF ServiceInv
  <2> QED BY <1>1, <2>4 DEF Listed, StoreKept, ServiceInv, ServiceTypeOK
<1>2. CASE ~manual
  BY <1>2, RefreshKeeps DEF Listed
<1> QED BY <1>1, <1>2

(* The invariant after a step that leaves the logins and the offers alone. *)
LEMMA StepInv ==
    ASSUME ServiceInv, UNCHANGED worldVars, {memory', disk', meta'} \subseteq Genuine,
           round' \in Accounts \union {NoAccount},
           {pausing', roundForced', roundAgain', starting'} \subseteq BOOLEAN,
           actor' \in [Actors -> ActorType], \A b \in Actors : Admitted(actor'[b])
    PROVE  ServiceInv'
<1>1. UNCHANGED <<keychain, tokenFile, offered, hadOffers, manual, logins>>
  BY DEF worldVars
<1>2. {memory', disk', meta'} \subseteq Genuine'
  BY <1>1 DEF Genuine, Catalogs
<1>3. \A b \in Actors : Admitted(actor[b])'
  BY <1>1 DEF Admitted, Turned, Admits, Slugs, Members, Merged, Variants
<1>4. ServiceTypeOK'
  <2>1. {memory', disk', meta'} \subseteq Catalogs
    BY DEF Genuine
  <2>2. \A a \in Actors : actor'[a].stage \in Stages
    BY DEF ActorType, RawActor
  <2>3. /\ {keychain, tokenFile} \subseteq {"none", "good", "stale"} /\ offered \in [Accounts -> AgyLists]
        /\ hadOffers \in [Accounts -> SUBSET AgyLists] /\ logins \in 0..MaxLogins
    BY DEF ServiceInv, ServiceTypeOK
  <2> QED BY <1>1, <2>1, <2>2, <2>3 DEF ServiceTypeOK, Catalogs, Stages
<1>5. \A who \in Accounts : offered'[who] \in hadOffers'[who]
  BY <1>1 DEF ServiceInv
<1>6. (actor \in [Actors -> ActorType])'
  BY DEF ActorType, RawActor, Catalogs
<1> QED BY <1>2, <1>3, <1>4, <1>5, <1>6 DEF ServiceInv

(* Together with what the actions leave alone, what a listing does. *)
LEMMA StoreKeptInv ==
    ASSUME ServiceInv, StoreKept, UNCHANGED <<disk, pausing, starting, worldVars, meta, closed>>
    PROVE  ServiceInv'
<1>1. disk \in Genuine /\ meta \in Genuine /\ {pausing, starting} \subseteq BOOLEAN
  BY DEF ServiceInv, ServiceTypeOK
<1> QED BY <1>1, StepInv DEF StoreKept

LEMMA ServiceInvInit == ServiceInit => ServiceInv
<1> SUFFICES ASSUME ServiceInit PROVE ServiceInv
  OBVIOUS
<1>1. Idle \in ActorType /\ Admitted(Idle) /\ Idle.stage = "idle"
  BY DEF Idle, Does, ActorType, RawActor, Stages, Goals, TierNames, Catalogs, Admitted
<1>2. actor \in [Actors -> ActorType] /\ \A a \in Actors : actor[a] = Idle
  BY <1>1 DEF ServiceInit
<1>3. hadOffers = [who \in Accounts |-> {offered[who]}] /\ offered \in [Accounts -> AgyLists]
  BY DEF ServiceInit
<1>4. ServiceTypeOK
  <2>1. logins \in 0..MaxLogins
    BY AgyServiceAssumption DEF ServiceInit
  <2>2. round \in Accounts \union {NoAccount}
    BY WhoIsAccount DEF ServiceInit
  <2>3. {pausing, roundForced, roundAgain, starting} \subseteq BOOLEAN
    BY DEF ServiceInit
  <2>4. {memory, disk, meta} \subseteq Catalogs
    BY DEF ServiceInit, Catalogs
  <2>5. {keychain, tokenFile} \subseteq {"none", "good", "stale"}
    BY DEF ServiceInit
  <2>6. hadOffers \in [Accounts -> SUBSET AgyLists]
    BY <1>3
  <2> QED BY <1>1, <1>2, <1>3, <2>1, <2>2, <2>3, <2>4, <2>5, <2>6 DEF ServiceTypeOK
<1>5. {memory, disk, meta} \subseteq Genuine
  BY DEF ServiceInit, Genuine, Catalogs
<1>6. \A who \in Accounts : offered[who] \in hadOffers[who]
  BY <1>3
<1> QED BY <1>1, <1>2, <1>4, <1>5, <1>6 DEF ServiceInv

LEMMA ServiceInvStep == ServiceInv /\ [ServiceNext]_serviceVars => ServiceInv'
<1> SUFFICES ASSUME ServiceInv, [ServiceNext]_serviceVars PROVE ServiceInv'
  OBVIOUS
<1>t. /\ memory \in Genuine /\ disk \in Genuine /\ meta \in Genuine
      /\ offered \in [Accounts -> AgyLists] /\ hadOffers \in [Accounts -> SUBSET AgyLists]
      /\ round \in Accounts \union {NoAccount}
      /\ {pausing, roundForced, roundAgain, starting} \subseteq BOOLEAN
      /\ actor \in [Actors -> ActorType] /\ \A b \in Actors : Admitted(actor[b])
      /\ \A who \in Accounts : offered[who] \in hadOffers[who]
  BY DEF ServiceInv, ServiceTypeOK
<1>d. /\ \A m \in AskedModels, u \in TierNames :
            /\ Does("ready", "load", m, u) \in ActorType /\ Admitted(Does("ready", "load", m, u))
            /\ Does("ready", "load", m, u).asked = m
      /\ \A goal \in {"show", "force", "timer", "adopt"}, s \in {"ready", "again"} :
            Does(s, goal, NoAccount, "medium") \in ActorType /\ Admitted(Does(s, goal, NoAccount, "medium"))
  BY DEF Does, ActorType, RawActor, Stages, Goals, TierNames, Catalogs, Admitted
<1>i. Idle \in ActorType /\ Admitted(Idle)
  BY DEF Idle, Does, ActorType, RawActor, Stages, Goals, TierNames, Catalogs, Admitted
<1>1. ASSUME NEW a \in Actors, Ready(a) PROVE ServiceInv'
  <2> DEFINE c == Current(FALSE)
             now == actor[a]
             adopted == IF now.goal \in {"load", "list", "show", "adopt"} THEN Meta(c) ELSE meta
             next == CASE now.goal = "load" -> Decide(adopted, now, TRUE)
                       [] now.goal = "list" -> Decide(adopted, now, FALSE)
                       [] now.goal = "force" /\ c # NoList -> Does("again", "adopt", NoAccount, "medium")
                       [] OTHER -> Idle
  <2>1. c \in Genuine
    BY CurrentIsCatalog
  <2>2. adopted \in Genuine
    <3> HIDE DEF c
    <3> QED BY <1>t, <2>1, MetaIsCatalog
  <2>3. now \in ActorType /\ Admitted(now) /\ (now.goal \in {"load", "list"} => now.asked \in AskedModels)
    BY <1>t DEF ActorType
  <2>4. next \in ActorType /\ Admitted(next)
    <3> HIDE DEF c, adopted, next, now
    <3>1. CASE now.goal = "load"
      <4>1. next = Decide(adopted, now, TRUE)
        BY <3>1 DEF next
      <4> QED BY <4>1, <3>1, <2>2, <2>3, DecidedIsModel
    <3>2. CASE now.goal = "list"
      <4>1. next = Decide(adopted, now, FALSE)
        BY <3>2 DEF next
      <4> QED BY <4>1, <3>2, <2>2, <2>3, DecidedIsModel
    <3>3. CASE now.goal \notin {"load", "list"}
      <4>1. next = Does("again", "adopt", NoAccount, "medium") \/ next = Idle
        BY <3>3 DEF next
      <4> QED BY <4>1, <1>d, <1>i
    <3> QED BY <3>1, <3>2, <3>3
  <2>5. /\ memory' = c /\ meta' = adopted /\ actor' = [actor EXCEPT ![a] = next]
        /\ UNCHANGED <<disk, pausing, round, roundForced, roundAgain, starting, worldVars, closed>>
    BY <1>1 DEF Ready
  <2> HIDE DEF c, adopted, next
  <2>6. actor' \in [Actors -> ActorType] /\ \A b \in Actors : Admitted(actor'[b])
    <3>1. \A b \in Actors : actor'[b] = IF b = a THEN next ELSE actor[b]
      BY <2>5, <1>t
    <3> QED BY <3>1, <2>4, <2>5, <1>t
  <2> QED BY <2>1, <2>2, <2>5, <2>6, <1>t, StepInv
<1>2. ASSUME NEW a \in Actors, Again(a) PROVE ServiceInv'
  <2>1. actor[a] \in ActorType /\ Admitted(actor[a]) /\ Listed(a, actor[a])
    BY <1>2, <1>t DEF Again
  <2> QED BY <1>2, <2>1, ListedKeeps, StoreKeptInv DEF Again
<1>3. ASSUME NEW a \in Actors, Finished(a) PROVE ServiceInv'
  <2>1. actor' = [actor EXCEPT ![a] = Idle]
    BY <1>3 DEF Finished
  <2>2. \A b \in Actors : actor'[b] = IF b = a THEN Idle ELSE actor[b]
    BY <1>t, <2>1
  <2>3. actor' \in [Actors -> ActorType] /\ \A b \in Actors : Admitted(actor'[b])
    BY <1>t, <1>i, <2>1, <2>2
  <2> QED BY <1>3, <2>3, <1>t, StepInv DEF Finished, storeVars
<1>4. ASSUME NEW a \in Refreshers, NEW goal \in {"force", "timer"}, ForceRefresh(a, goal) PROVE ServiceInv'
  <2>1. a \in Actors /\ Does("ready", goal, NoAccount, "medium") \in ActorType
        /\ Admitted(Does("ready", goal, NoAccount, "medium"))
    BY <1>d DEF Actors
  <2>2. /\ Refresh(a, TRUE, Does("ready", goal, NoAccount, "medium"))
        /\ UNCHANGED <<disk, pausing, starting, worldVars, meta, closed>>
    BY <1>4 DEF ForceRefresh
  <2>3. StoreKept
    BY <2>1, <2>2, RefreshKeeps
  <2> QED BY <2>2, <2>3, StoreKeptInv
<1>5. ASSUME NEW a \in Requests, Show(a) PROVE ServiceInv'
  BY <1>5, <1>d, ListedKeeps, StoreKeptInv DEF Show, Actors
<1>6. ASSUME NEW a \in Requests, NEW m \in AskedModels, NEW u \in TierNames, Forward(a, m, u)
      PROVE  ServiceInv'
  <2> DEFINE load == Does("ready", "load", m, u)
             next == Decide(meta, load, TRUE)
  <2>0. a \in Actors /\ load \in ActorType /\ Admitted(load) /\ load.asked = m
    BY <1>d DEF Actors
  <2>1. next \in ActorType /\ Admitted(next)
    <3> HIDE DEF load
    <3> QED BY <2>0, <1>t, DecidedIsModel
  <2>2. \/ Listed(a, load)
        \/ Listed(a, next)
        \/ actor' = [actor EXCEPT ![a] = next] /\ UNCHANGED <<memory, round, roundForced, roundAgain>>
    BY <1>6 DEF Forward
  <2>3. UNCHANGED <<disk, pausing, starting, worldVars, meta, closed>>
    BY <1>6 DEF Forward
  <2> HIDE DEF next, load
  <2>4. CASE Listed(a, load) \/ Listed(a, next)
    BY <2>0, <2>1, <2>3, <2>4, ListedKeeps, StoreKeptInv
  <2>5. CASE actor' = [actor EXCEPT ![a] = next] /\ UNCHANGED <<memory, round, roundForced, roundAgain>>
    <3>0. \A b \in Actors : actor'[b] = IF b = a THEN next ELSE actor[b]
      BY <2>5, <1>t
    <3>1. actor' \in [Actors -> ActorType] /\ \A b \in Actors : Admitted(actor'[b])
      BY <3>0, <2>1, <2>5, <1>t
    <3> QED BY <2>3, <2>5, <3>1, <1>t, StepInv
  <2> QED BY <2>2, <2>4, <2>5
<1>7. ASSUME NEW ok \in BOOLEAN, NEW write \in BOOLEAN, Fetched(ok, write) PROVE ServiceInv'
  <2> DEFINE got == Catalog(round, offered[round])
             memory1 == IF ok THEN got ELSE IF memory = NoList THEN Owned(disk, round) ELSE memory
             disk1 == IF ok /\ write THEN got ELSE disk
             own == IF memory1 = NoList THEN Owned(disk1, Who) ELSE Owned(memory1, Who)
             more == roundAgain /\ Who # NoAccount
  <2>1. round \in Accounts
    BY <1>7, <1>t DEF Fetched
  <2>2. got \in Genuine
    BY <2>1, <1>t DEF Catalog, Catalogs, Genuine
  <2>3. memory1 \in Genuine /\ disk1 \in Genuine
    <3> HIDE DEF got
    <3> QED BY <2>2, <1>t, OwnedIsCatalog
  <2>4. own \in Genuine
    <3> HIDE DEF memory1, disk1
    <3> QED BY <2>3, OwnedIsCatalog
  <2>5. /\ disk' = disk1 /\ pausing' = ~ok /\ memory' = (IF more THEN own ELSE memory1)
        /\ round' = (IF more THEN Who ELSE NoAccount) /\ roundForced' = more /\ roundAgain' = FALSE
        /\ starting' = (starting /\ more) /\ UNCHANGED <<worldVars, meta, closed>>
    BY <1>7 DEF Fetched
  <2>6. actor' = (IF more THEN actor
                  ELSE [b \in Actors |-> IF actor[b].stage = "waiting"
                                         THEN [actor[b] EXCEPT !.stage = "ready"] ELSE actor[b]])
    BY <1>7 DEF Fetched
  <2>7. actor' \in [Actors -> ActorType] /\ \A b \in Actors : Admitted(actor'[b])
    <3>1. \A b \in Actors : [actor[b] EXCEPT !.stage = "ready"] \in ActorType
                           /\ Admitted([actor[b] EXCEPT !.stage = "ready"])
      BY <1>t, WaitingIsActor
    <3>2. \A b \in Actors : \/ actor'[b] = actor[b]
                           \/ actor'[b] = [actor[b] EXCEPT !.stage = "ready"]
      BY <2>6, <1>t
    <3>3. actor' \in [Actors -> ActorType]
      BY <2>6, <3>1, <1>t
    <3> QED BY <3>1, <3>2, <3>3, <1>t
  <2>8. {disk', memory', meta'} \subseteq Genuine /\ round' \in Accounts \union {NoAccount}
        /\ {pausing', roundForced', roundAgain', starting'} \subseteq BOOLEAN
    <3> HIDE DEF own, memory1, disk1
    <3> QED BY <2>3, <2>4, <2>5, <1>t, WhoIsAccount
  <2> QED BY <2>5, <2>7, <2>8, StepInv
<1>8. CASE AgyReload
  <2>1. memory' \in Genuine /\ meta' \in Genuine
    BY <1>8, CurrentIsCatalog, MetaIsCatalog DEF AgyReload
  <2> QED BY <1>8, <2>1, <1>t, StepInv DEF AgyReload
<1>9. CASE Close
  <2>1. actor' \in [Actors -> ActorType] /\ \A b \in Actors : Admitted(actor'[b])
    <3>1. actor' = [b \in Actors |-> Idle]
      BY <1>9 DEF Close
    <3> HIDE DEF Idle
    <3> QED BY <3>1, <1>i
  <2> QED BY <1>9, <2>1, <1>t, StepInv DEF Close, storeVars
<1>10. CASE AgyExpires
  <2>1. \A c \in Genuine : c # NoList => [c EXCEPT !.fresh = FALSE] \in Genuine
    <3> SUFFICES ASSUME NEW c \in Genuine, c # NoList PROVE [c EXCEPT !.fresh = FALSE] \in Genuine
      OBVIOUS
    <3> DEFINE d == [c EXCEPT !.fresh = FALSE]
    <3>1. c \in [of : Accounts, list : AgyLists, fresh : BOOLEAN] /\ c.list \in hadOffers[c.of]
      BY DEF Genuine, Catalogs
    <3>2. d \in [of : Accounts, list : AgyLists, fresh : BOOLEAN] /\ d.list = c.list /\ d.of = c.of
      BY <3>1
    <3> HIDE DEF d
    <3>3. d \in Genuine
      BY <3>1, <3>2 DEF Genuine, Catalogs
    <3> QED BY <3>3 DEF d
  <2>2. memory' \in Genuine /\ disk' \in Genuine
    BY <1>10, <2>1, <1>t DEF AgyExpires
  <2> QED BY <1>10, <2>2, <1>t, StepInv DEF AgyExpires
<1>11. CASE AgyCooled
  BY <1>11, <1>t, StepInv DEF AgyCooled
<1>12. CASE LoginChanges
  <2>1. /\ logins' \in 0..MaxLogins
        /\ UNCHANGED <<memory, disk, pausing, round, roundForced, roundAgain, starting, meta, actor>>
    BY <1>12, AgyServiceAssumption DEF LoginChanges, ServiceInv, ServiceTypeOK, storeVars
  <2>2. {keychain', tokenFile'} \subseteq {"none", "good", "stale"} /\ offered' \in [Accounts -> AgyLists]
    BY <1>12, <1>t DEF LoginChanges, ServiceInv, ServiceTypeOK
  <2>3. /\ hadOffers' \in [Accounts -> SUBSET AgyLists]
        /\ \A who \in Accounts : hadOffers[who] \subseteq hadOffers'[who] /\ offered'[who] \in hadOffers'[who]
    BY <1>12, <1>t, <2>2 DEF LoginChanges
  <2>4. {memory, disk, meta} \subseteq Genuine'
    BY <1>t, <2>3 DEF Genuine, Catalogs
  <2>5. \A b \in Actors : Admitted(actor[b])'
    <3> SUFFICES ASSUME NEW b \in Actors PROVE Admitted(actor[b])'
      OBVIOUS
    <3>1. actor[b].by \in Catalogs /\ Admitted(actor[b])
      BY <1>t DEF ActorType, RawActor
    <3>2. actor[b].by # NoList => actor[b].by.of \in Accounts
      BY <3>1 DEF Catalogs
    <3> QED BY <2>1, <2>3, <3>1, <3>2 DEF Admitted, Turned, Admits, Slugs, Members, Merged, Variants
  <2>6. ServiceTypeOK'
    BY <2>1, <2>2, <2>3, <1>t DEF ServiceTypeOK, Genuine, Catalogs, ActorType, RawActor, Stages
  <2>7. (actor \in [Actors -> ActorType])'
    BY <2>1, <1>t DEF ActorType, RawActor, Catalogs
  <2> QED BY <2>1, <2>3, <2>4, <2>5, <2>6, <2>7 DEF ServiceInv
<1>13. CASE UNCHANGED serviceVars
  BY <1>13, <1>t, StepInv DEF serviceVars, storeVars
<1> QED
  BY <1>1, <1>2, <1>3, <1>4, <1>5, <1>6, <1>7, <1>8, <1>9, <1>10, <1>11, <1>12, <1>13 DEF ServiceNext

(* Catalogs, files and requests are of the declared shape, for any accounts, *)
(* models and callers: what a round serves was fetched or loaded.            *)
THEOREM ServiceTypes == ServiceSpec => []ServiceTypeOK
<1>1. ServiceInv => ServiceTypeOK
  BY DEF ServiceInv
<1> QED BY <1>1, ServiceInvInit, ServiceInvStep, PTL DEF ServiceSpec

(* A request goes out for a model that the catalog it was decided with has, *)
(* whichever variants of a family are there, and whose list the upstream    *)
(* has had for that account; a successor goes out only for a deprecated     *)
(* name which the catalog known at first did not admit: for any models,     *)
(* families, offers and any number of requests (index.ts:266, catalog.ts:191). *)
THEOREM SentModels == ServiceSpec => []SentIsModel
<1>1. ServiceInv => SentIsModel
  BY DEF ServiceInv, SentIsModel, Admitted
<1> QED BY <1>1, ServiceInvInit, ServiceInvStep, PTL DEF ServiceSpec

-----------------------------------------------------------------------------
(* The catalog of OpenCode Zen.                                             *)

CallerStages == {"idle", "list", "ask", "reload", "listing", "forcing", "reloading",
                 "startList", "startReload"}

(* Until the metadata have been asked for, and after that if they did not   *)
(* come, the value of a round has the metadata and verdicts of before.      *)
CarriesOver ==
    (zenRound # NoZen /\ zenCached # NoZen /\ (zenRound.step = "meta" \/ (zenRound.step = "probe" /\ metaFailed)))
      => /\ zenRound.value.meta = zenCached.meta
         /\ zenRound.value.verdicts = zenCached.verdicts

ZenInv ==
    /\ ZenTypeOK
    /\ caller \in [ZenCallers -> CallerStages]
    /\ zenRound \in RoundType \union {NoZen}
    /\ zenRound # NoZen => (zenRound.step \in {"meta", "probe"} => zenRound.value \in Values)
    /\ CarriesOver

(* Helpers of a round keep to the types of its value. *)
LEMMA EmptyVerdicts == <<>> \in UNION {[d -> Results] : d \in SUBSET FreeNamed}
<1>1. <<>> \in [{} -> Results]
  OBVIOUS
<1> QED BY <1>1

LEMMA SnapshotTyped ==
    ASSUME NEW ids \in SUBSET ZenIds, NEW known \in ZenMetas \union {NoZen}, NEW fresh \in BOOLEAN,
           NEW metaFresh \in BOOLEAN, NEW verdicts \in UNION {[d -> Results] : d \in SUBSET FreeNamed}
    PROVE  Snapshot(ids, known, verdicts, fresh, metaFresh) \in Values
BY DEF Snapshot, Values

LEMMA FilledTyped ==
    ASSUME NEW v \in Values
    PROVE  /\ Filled(v) \in Values /\ Filled(v).meta = v.meta /\ Filled(v).verdicts = v.verdicts
<1>1. v.meta # NoZen => DOMAIN v.meta \subseteq ZenIds
  BY ZenAssumption DEF Values
<1>2. CASE v.ids # {} \/ v.meta = NoZen
  BY <1>2 DEF Filled
<1>3. CASE ~(v.ids # {} \/ v.meta = NoZen)
  <2> DEFINE free == {id \in DOMAIN v.meta : v.meta[id].free /\ ~v.meta[id].old}
  <2>1. free \in SUBSET ZenIds
    BY <1>1, <1>3
  <2>2. Filled(v) = [v EXCEPT !.ids = free]
    BY <1>3 DEF Filled
  <2> HIDE DEF free
  <2> QED BY <2>1, <2>2 DEF Values
<1> QED BY <1>2, <1>3

LEMMA VerdictsAreResults == Verdicts \subseteq Results
BY DEF Verdicts, Ladder, Results

LEMMA ProbedTyped ==
    ASSUME NEW v \in Values, NEW asked \in SUBSET FreeNamed, NEW said \in [asked -> Verdicts]
    PROVE  /\ Probed(v, asked, said) \in Values
           /\ Probed(v, asked, said).ids = v.ids /\ Probed(v, asked, said).meta = v.meta
<1>1. CASE v.meta = NoZen
  BY <1>1 DEF Probed
<1>2. CASE v.meta # NoZen
  <2> DEFINE d == (DOMAIN v.verdicts \intersect v.ids) \union asked
             new == [id \in d |-> IF id \in asked THEN said[id] ELSE v.verdicts[id]]
  <2>1. PICK e \in SUBSET FreeNamed : v.verdicts \in [e -> Results]
    BY DEF Values
  <2>2. new \in [d -> Results] /\ d \in SUBSET FreeNamed
    BY <2>1, VerdictsAreResults
  <2>3. Probed(v, asked, said) = [v EXCEPT !.verdicts = new]
    BY <1>2 DEF Probed
  <2> HIDE DEF new, d
  <2>4. new \in UNION {[f -> Results] : f \in SUBSET FreeNamed}
    BY <2>2
  <2> QED BY <2>3, <2>4 DEF Values
<1> QED BY <1>1, <1>2

LEMMA ZenInvInit == ZenInit => ZenInv
<1> SUFFICES ASSUME ZenInit PROVE ZenInv
  OBVIOUS
<1>1. caller \in [ZenCallers -> CallerStages]
  BY DEF ZenInit, CallerStages
<1>2. zenRound \in RoundType \union {NoZen} /\ (zenRound # NoZen => zenRound.step = "list")
      /\ (zenStarting => zenRound # NoZen)
  <2>1. Round("list", TRUE, TRUE, NoZen) \in RoundType
    BY DEF Round, RoundType
  <2>2. Round("list", TRUE, TRUE, NoZen).step = "list" /\ Round("list", TRUE, TRUE, NoZen) # NoZen
    BY <2>1, ZenAssumption DEF Round
  <2>3. zenRound = IF zenStarting THEN Round("list", TRUE, TRUE, NoZen) ELSE NoZen
    BY DEF ZenInit
  <2> QED BY <2>1, <2>2, <2>3
<1>3. zenChanges \in 0..MaxZenChanges
  BY ZenAssumption DEF ZenInit
<1>4. {zenCached, zenDisk} \subseteq Values \union {NoZen}
  BY DEF ZenInit
<1>5. ZenTypeOK
  BY <1>1, <1>2, <1>3, <1>4 DEF ZenInit, ZenTypeOK, CallerStages
<1> QED BY <1>1, <1>2, <1>5 DEF ZenInv, CarriesOver

LEMMA LoadedTyped == ZenInv => Loaded(zenCached) \in Values \union {NoZen}
BY DEF ZenInv, ZenTypeOK, Loaded

LEMMA ReleasedTyped ==
    ASSUME ZenInv, NEW error \in BOOLEAN, Released(error)
    PROVE  caller' \in [ZenCallers -> CallerStages]
<1>1. \A s \in CallerStages : Next1(s, error) \in CallerStages
  BY DEF Next1, CallerStages
<1> QED BY <1>1 DEF ZenInv, Released

(* A round begins with its list. *)
LEMMA BegunTyped ==
    ASSUME ZenInv, NEW forced \in BOOLEAN, NEW deep \in BOOLEAN, BeginRound(forced, deep)
    PROVE  /\ zenCached' \in Values \union {NoZen} /\ zenRound' \in RoundType \union {NoZen}
           /\ zenRound' # NoZen => zenRound'.step = "list"
BY LoadedTyped DEF BeginRound, Round, RoundType

(* A listing asks for nothing while a round is under way, and begins one    *)
(* else.                                                                    *)
Asks ==
    /\ zenCached' \in Values \union {NoZen} /\ zenRound' \in RoundType \union {NoZen}
    /\ \/ UNCHANGED <<zenCached, zenRound>>
       \/ zenRound = NoZen /\ (zenRound' # NoZen => zenRound'.step = "list")
    /\ caller' \in [ZenCallers -> CallerStages]
    /\ UNCHANGED zenRest

LEMMA AsksKeeps == ZenInv /\ Asks => ZenInv'
<1> SUFFICES ASSUME ZenInv, Asks PROVE ZenInv'
  OBVIOUS
<1>1. {zenCached', zenDisk'} \subseteq Values \union {NoZen}
  BY DEF Asks, zenRest, ZenInv, ZenTypeOK
<1>2. zenStarting' => zenRound' # NoZen
  BY DEF Asks, zenRest, ZenInv, ZenTypeOK
<1>3. ZenTypeOK'
  BY <1>1, <1>2 DEF Asks, zenRest, zenWorld, ZenInv, ZenTypeOK, CallerStages
<1>4. CarriesOver' /\ (zenRound' # NoZen => (zenRound'.step \in {"meta", "probe"} => zenRound'.value \in Values))
  BY DEF Asks, zenRest, ZenInv, CarriesOver
<1> QED BY <1>3, <1>4 DEF Asks, ZenInv

LEMMA ListingAsks ==
    ASSUME ZenInv, NEW c \in ZenCallers, Listing(c), UNCHANGED zenRest
    PROVE  Asks
<1>1. caller' \in [ZenCallers -> CallerStages]
  BY DEF Listing, ZenInv, CallerStages
<1>2. CASE zenRound # NoZen
  BY <1>1, <1>2 DEF Listing, Asks, ZenInv, ZenTypeOK
<1>3. CASE zenRound = NoZen /\ zenManual
  BY <1>1, <1>3, LoadedTyped DEF Listing, Asks, ZenInv
<1>4. CASE zenRound = NoZen /\ ~zenManual
  <2>1. BeginRound(FALSE, FALSE)
    BY <1>4 DEF Listing
  <2> QED BY <1>1, <1>4, <2>1, BegunTyped DEF Asks
<1> QED BY <1>2, <1>3, <1>4

LEMMA ZenInvStep == ZenInv /\ [ZenNext]_zenVars => ZenInv'
<1> SUFFICES ASSUME ZenInv, [ZenNext]_zenVars PROVE ZenInv'
  OBVIOUS
<1>t. /\ zenList \in SUBSET ZenIds /\ zenMeta \in ZenMetas
      /\ zenCached \in Values \union {NoZen} /\ zenDisk \in Values \union {NoZen}
      /\ caller \in [ZenCallers -> CallerStages] /\ zenRound \in RoundType \union {NoZen}
      /\ zenRound # NoZen => (zenRound.step \in {"meta", "probe"} => zenRound.value \in Values)
      /\ metaFailed \in BOOLEAN
  BY ZenAssumption DEF ZenInv, ZenTypeOK
<1>1. CASE ListArrives
  <2>1. Carried(zenList) \in Values
    BY <1>t, SnapshotTyped, EmptyVerdicts DEF Carried, Values
  <2>2. /\ zenRound' \in RoundType /\ zenRound'.step = "meta" /\ zenRound'.value = Carried(zenList)
    BY <1>1, <1>t, <2>1 DEF ListArrives, RoundType
  <2>3. zenRound' # NoZen
    BY <2>2, ZenAssumption
  <2>4. CarriesOver'
    BY <1>1, <2>2 DEF ListArrives, CarriesOver, Carried, Snapshot
  <2> QED BY <1>1, <2>1, <2>2, <2>3, <2>4 DEF ListArrives, ZenInv, ZenTypeOK, zenWorld
<1>2. CASE ListFails
  <2>1. caller' \in [ZenCallers -> CallerStages]
    BY <1>2, ReleasedTyped DEF ListFails
  <2> QED BY <1>2, <2>1, LoadedTyped, <1>t DEF ListFails, ZenInv, ZenTypeOK, CarriesOver, zenWorld, CallerStages
<1>3. CASE Timer
  <2>1. Asks
    BY <1>3, BegunTyped, <1>t DEF Timer, Asks
  <2> QED BY <2>1, AsksKeeps
<1>4. CASE Elsewhere
  <2>1. Filled(Snapshot(zenList, zenMeta, <<>>, TRUE, TRUE)) \in Values
    BY <1>t, SnapshotTyped, EmptyVerdicts, FilledTyped
  <2>2. zenChanges' \in 0..MaxZenChanges
    BY <1>4, ZenAssumption DEF Elsewhere, ZenInv, ZenTypeOK
  <2> QED BY <1>4, <1>t, <2>1, <2>2 DEF Elsewhere, ZenInv, ZenTypeOK, CarriesOver
<1>5. CASE Upstream
  <2>1. zenChanges' \in 0..MaxZenChanges
    BY <1>5, ZenAssumption DEF Upstream, ZenInv, ZenTypeOK
  <2>2. zenList' \in ZenLists /\ zenMeta' \in ZenMetas
    BY <1>5 DEF Upstream, ZenInv, ZenTypeOK
  <2> QED BY <1>5, <1>t, <2>1, <2>2 DEF Upstream, ZenInv, ZenTypeOK, CarriesOver, zenStore
<1>6. CASE Ages
  <2>1. PICK deep \in BOOLEAN :
          /\ zenCached' = [zenCached EXCEPT !.fresh = FALSE, !.metaFresh = @ /\ ~deep]
          /\ zenDisk' = IF zenDisk = NoZen THEN NoZen
                        ELSE [zenDisk EXCEPT !.fresh = FALSE, !.metaFresh = @ /\ ~deep]
    BY <1>6 DEF Ages
  <2> DEFINE Aged(v) == [v EXCEPT !.fresh = FALSE, !.metaFresh = v.metaFresh /\ ~deep]
  <2>2. \A v \in Values : Aged(v) \in Values /\ Aged(v).meta = v.meta /\ Aged(v).verdicts = v.verdicts
    BY DEF Values
  <2>a. zenCached' = Aged(zenCached) /\ zenDisk' = IF zenDisk = NoZen THEN NoZen ELSE Aged(zenDisk)
    BY <2>1
  <2> HIDE DEF Aged
  <2>3. /\ zenCached # NoZen /\ zenCached \in Values
        /\ UNCHANGED <<zenWorld, zenCooling, metaCooling, zenRound, metaFailed, dropped, zenStarting,
                       caller, zenClosed>>
    BY <1>6, <1>t DEF Ages
  <2>4. /\ zenCached' \in Values /\ zenDisk' \in Values \union {NoZen}
        /\ zenCached'.meta = zenCached.meta /\ zenCached'.verdicts = zenCached.verdicts
    BY <2>a, <2>2, <2>3, <1>t
  <2>5. ZenTypeOK'
    BY <2>3, <2>4, <1>t DEF ZenInv, ZenTypeOK, zenWorld
  <2>6. CarriesOver /\ zenCached # NoZen
    BY <2>3, <1>t DEF ZenInv
  <2>7. CarriesOver'
    BY <2>3, <2>4, <2>6 DEF CarriesOver
  <2>8. ZenInv
    OBVIOUS
  <2> QED BY <2>3, <2>4, <2>5, <2>7, <2>8, <1>t DEF ZenInv, zenWorld
<1>7. CASE PauseOver
  BY <1>7, <1>t DEF PauseOver, ZenInv, ZenTypeOK, CarriesOver, zenWorld
<1>8. CASE CloseZen
  BY <1>8, <1>t DEF CloseZen, ZenInv, ZenTypeOK, CarriesOver, zenWorld, zenStore
<1>9. ASSUME NEW outcome \in {"good", "garbled", "failed"}, Metadata(outcome) PROVE ZenInv'
  <2> DEFINE v == zenRound.value
             asks == zenRound.deep \/ (~metaCooling /\ (v.meta = NoZen \/ ~v.metaFresh))
             got == IF asks /\ outcome = "good" THEN [v EXCEPT !.meta = zenMeta, !.metaFresh = TRUE] ELSE v
  <2>1. /\ zenRound # NoZen /\ zenRound.step = "meta" /\ v \in Values /\ zenRound \in RoundType
    BY <1>9, <1>t DEF Metadata
  <2>2. /\ zenRound' = [zenRound EXCEPT !.step = "probe", !.value = Filled(got)]
        /\ metaCooling' = (IF asks THEN outcome = "failed" ELSE metaCooling)
        /\ metaFailed' = (outcome # "good")
        /\ UNCHANGED <<zenWorld, zenCached, zenDisk, zenCooling, dropped, zenStarting, caller, zenClosed>>
    BY <1>9 DEF Metadata
  <2>3. got \in Values /\ (outcome # "good" => got = v)
    BY <2>1, <1>t DEF Values
  <2>4. metaCooling' \in BOOLEAN
    BY <2>2 DEF ZenInv, ZenTypeOK
  <2> HIDE DEF got, asks
  <2>5. /\ zenRound' \in RoundType /\ zenRound'.step = "probe" /\ zenRound'.value = Filled(got)
    BY <2>1, <2>2, <2>3, FilledTyped DEF RoundType
  <2>6. zenRound' # NoZen /\ zenRound'.value \in Values
    BY <2>3, <2>5, FilledTyped, ZenAssumption
  <2>7. CarriesOver'
    BY <2>1, <2>2, <2>3, <2>5, FilledTyped DEF CarriesOver, ZenInv
  <2> QED BY <2>2, <2>4, <2>5, <2>6, <2>7 DEF ZenInv, ZenTypeOK, zenWorld
<1>10. ASSUME NEW asked \in SUBSET (FreeNamed \ Barred), NEW write \in BOOLEAN,
              NEW said \in [asked -> Verdicts], Publish(asked, said, write)
       PROVE  ZenInv'
  <2> DEFINE value == Probed(zenRound.value, asked, said)
  <2>1. value \in Values
    BY <1>10, <1>t, ProbedTyped DEF Publish
  <2>2. caller' \in [ZenCallers -> CallerStages]
    BY <1>10, ReleasedTyped DEF Publish
  <2>3. /\ zenCached' = value /\ zenDisk' = (IF write THEN value ELSE zenDisk)
        /\ zenCooling' = FALSE /\ zenRound' = NoZen /\ zenStarting' = FALSE
        /\ UNCHANGED <<zenWorld, metaCooling, metaFailed, zenClosed>>
    BY <1>10 DEF Publish
  <2> HIDE DEF value
  <2> QED BY <2>1, <2>2, <2>3, <1>t DEF ZenInv, ZenTypeOK, CarriesOver, zenWorld, CallerStages
<1>11. ASSUME NEW c \in ZenCallers, List(c) PROVE ZenInv'
  <2>1. CASE zenStarting
    <3>1. caller' \in [ZenCallers -> CallerStages]
      BY <1>11, <2>1, <1>t DEF List, CallerStages
    <3> QED BY <1>11, <2>1, <3>1, <1>t, AsksKeeps DEF List, Asks
  <2>2. CASE ~zenStarting
    BY <1>11, <2>2, ListingAsks, AsksKeeps DEF List
  <2> QED BY <2>1, <2>2
<1>12. ASSUME NEW c \in ZenCallers, RefreshAll(c) PROVE ZenInv'
  <2>1. caller' \in [ZenCallers -> CallerStages]
    BY <1>12, <1>t DEF RefreshAll, CallerStages
  <2>2. Asks
    BY <1>12, <2>1, <1>t, BegunTyped DEF RefreshAll, Asks
  <2> QED BY <2>2, AsksKeeps
<1>13. ASSUME NEW c \in ZenCallers, ListAfter(c) PROVE ZenInv'
  BY <1>13, ListingAsks, AsksKeeps DEF ListAfter
<1>14. ASSUME NEW c \in ZenCallers, Reload(c) PROVE ZenInv'
  <2>1. caller' \in [ZenCallers -> CallerStages]
    BY <1>14, <1>t DEF Reload, CallerStages
  <2>2. /\ zenCached' \in {zenCached, zenDisk}
        /\ zenCached' # zenCached => zenRound = NoZen \/ zenRound.step = "list"
        /\ {zenCooling', metaCooling'} \subseteq BOOLEAN
    BY <1>14 DEF Reload, ZenInv, ZenTypeOK
  <2>3. CarriesOver'
    BY <1>14, <2>2 DEF Reload, CarriesOver, ZenInv
  <2> QED BY <1>14, <2>1, <2>2, <2>3, <1>t DEF Reload, ZenInv, ZenTypeOK, zenWorld, CallerStages
<1>15. CASE UNCHANGED zenVars
  BY <1>15, <1>t DEF zenVars, ZenInv, ZenTypeOK, CarriesOver, zenWorld, zenStore
<1> QED
  BY <1>1, <1>2, <1>3, <1>4, <1>5, <1>6, <1>7, <1>8, <1>9, <1>10, <1>11, <1>12, <1>13, <1>14, <1>15
  DEF ZenNext

(* Catalog, round and callers are of the declared shape, for any models and *)
(* metadata, whatever another process writes: a starting round is never     *)
(* without its record (createOpencodeZenCatalogStore).                      *)
THEOREM ZenTypes == ZenSpec => []ZenTypeOK
<1>1. ZenInv => ZenTypeOK
  BY DEF ZenInv
<1> QED BY <1>1, ZenInvInit, ZenInvStep, PTL DEF ZenSpec

(* What a round that publishes without new metadata may hide. *)
LEMMA KeptStep ==
    ASSUME ZenInv, [ZenNext]_zenVars,
           zenRound # NoZen, zenRound' = NoZen, zenRound.step = "probe", metaFailed
    PROVE  Shown(zenCached) \intersect zenRound.value.ids \subseteq Shown(zenCached') \union dropped'
<1>1. PICK asked \in SUBSET (FreeNamed \ Barred), write \in BOOLEAN : \E said \in [asked -> Verdicts] :
         Publish(asked, said, write)
  <2>1. \A c \in ZenCallers : (List(c) \/ RefreshAll(c) \/ ListAfter(c) \/ Reload(c)) => zenRound' # NoZen
    BY DEF List, RefreshAll, ListAfter, Reload, Listing
  <2>2. \A outcome \in {"good", "garbled", "failed"} : ~Metadata(outcome)
    BY DEF Metadata
  <2>3. ~(ListArrives \/ ListFails \/ Timer \/ Elsewhere \/ Upstream \/ Ages \/ PauseOver \/ CloseZen
          \/ UNCHANGED zenVars)
    BY DEF ListArrives, ListFails, Timer, Elsewhere, Upstream, Ages, PauseOver, CloseZen, zenStore, zenVars
  <2> QED BY <2>1, <2>2, <2>3 DEF ZenNext
<1>2. PICK said \in [asked -> Verdicts] : Publish(asked, said, write)
  BY <1>1
<1> DEFINE v == zenRound.value
           c == zenCached
           new == Probed(v, asked, said)
<1>3. v \in Values /\ c \in Values \union {NoZen} /\ zenRound \in RoundType
  BY DEF ZenInv, ZenTypeOK
<1>4. zenCached' = new /\ dropped' = {id \in asked : said[id] = "drop"}
  BY <1>2 DEF Publish
<1>5. new \in Values /\ new.ids = v.ids /\ new.meta = v.meta
  BY <1>3, ProbedTyped
<1>6. SUFFICES ASSUME NEW id \in Shown(c), id \in v.ids, ~(id \in asked /\ said[id] = "drop")
               PROVE  id \in Shown(new)
  BY <1>4
<1>7. c # NoZen /\ v.meta = c.meta /\ v.verdicts = c.verdicts
  BY <1>3 DEF Shown, ZenInv, CarriesOver
<1>8. id \notin Barred /\ new # NoZen
  BY <1>5, <1>7, ZenAssumption DEF Shown
<1>9. CASE v.meta # NoZen /\ id \in DOMAIN v.meta
  <2>1. v.meta[id].free /\ ~v.meta[id].old
    BY <1>7, <1>9 DEF Shown
  <2> HIDE DEF new
  <2> QED BY <2>1, <1>5, <1>6, <1>8, <1>9 DEF Shown
<1>10. CASE v.meta = NoZen
  <2>1. id \in FreeNamed
    BY <1>7, <1>10 DEF Shown
  <2> HIDE DEF new
  <2> QED BY <2>1, <1>5, <1>6, <1>8, <1>10 DEF Shown
<1>11. CASE v.meta # NoZen /\ id \notin DOMAIN v.meta
  <2>1. id \in FreeNamed /\ ~(id \in DOMAIN v.verdicts /\ v.verdicts[id] = "drop")
    BY <1>7, <1>11 DEF Shown
  <2>2. new.verdicts = [i \in (DOMAIN v.verdicts \intersect v.ids) \union asked |->
                          IF i \in asked THEN said[i] ELSE v.verdicts[i]]
    BY <1>3, <1>11 DEF Probed, Values
  <2>3. ~(id \in DOMAIN new.verdicts /\ new.verdicts[id] = "drop")
    BY <2>1, <2>2, <1>6
  <2> HIDE DEF new
  <2> QED BY <2>1, <2>3, <1>5, <1>6, <1>8, <1>11 DEF Shown
<1> QED BY <1>9, <1>10, <1>11

(* A round whose metadata cannot be fetched hides no model that it showed,  *)
(* unless the upstream lists it no more or a probe refuses it: for any      *)
(* models, metadata and verdicts (refreshMetadata).                         *)
THEOREM MetadataKept == ZenSpec => MetadataKeeps
<1>1. ZenInv /\ [ZenNext]_zenVars =>
        [zenRound # NoZen /\ zenRound' = NoZen /\ zenRound.step = "probe" /\ metaFailed
           => Shown(zenCached) \intersect zenRound.value.ids \subseteq Shown(zenCached') \union dropped']_zenVars
  BY KeptStep
<1> QED BY <1>1, ZenInvInit, ZenInvStep, PTL DEF ZenSpec, MetadataKeeps

-----------------------------------------------------------------------------
(* The tools of a request to OpenCode Zen.  Until they are renamed they     *)
(* have names of the client and are told apart by them; a renamed one takes *)
(* a name that no tool has, those renamed before it included, and such a    *)
(* name there is, for fewer are taken than are tried.                       *)

ToolNames == [base : Bases, cut : BOOLEAN, no : Nat, caps : BOOLEAN]
ToolType == [name : ToolNames, of : ToolNames, custom : BOOLEAN]
NamedOnce(tools) == \A i, j \in DOMAIN tools : i # j => tools[i].name # tools[j].name
NoneRefused(tools) == ~\E p \in Pairs : \E i, j \in DOMAIN tools :
                          Has(tools[i].name, p[1]) /\ Has(tools[j].name, p[2])

(* Tools that still have the names of the client.                          *)
Own(tools) ==
    /\ tools \in Seq(ToolType) /\ Len(tools) <= MaxDeclared + 1 /\ NamedOnce(tools)
    /\ \A i \in DOMAIN tools : tools[i].of = tools[i].name

LEMMA SmallestNumber ==
    ASSUME NEW T \in SUBSET Nat, T # {}
    PROVE  \E m \in T : \A k \in T : m <= k
<1> DEFINE R == OpToRel(<, Nat)
<1>0. \A k, m \in Nat : <<k, m>> \in R <=> k < m
  BY DEF OpToRel
<1>1. IsWellFoundedOn(R, Nat)
  BY NatLessThanWellFounded
<1> HIDE DEF R
<1>2. PICK m \in T : \A k \in T : ~(<<k, m>> \in R)
  BY <1>1, WFMin
<1>3. \A k \in T : k \in Nat /\ m \in Nat /\ (k < m \/ m <= k)
  OBVIOUS
<1> QED BY <1>2, <1>0, <1>3

LEMMA NumbersCount ==
    ASSUME NEW N \in Nat
    PROVE  IsFiniteSet(1..N) /\ Cardinality(1..N) = N
BY FS_Interval

-----------------------------------------------------------------------------
(* Among the numbers of a broken name one is free. *)

Candidate(n, k) == [n EXCEPT !.cut = TRUE, !.no = IF k = 1 THEN n.no ELSE n.no * 10 + k]

LEMMA CandidatesDiffer ==
    ASSUME NEW n \in ToolNames, NEW k \in Nat \ {0}
    PROVE  /\ Candidate(n, k) \in ToolNames /\ Candidate(n, k).cut
           /\ Lower(Candidate(n, k)) \in ToolNames /\ Lower(Candidate(n, k)).cut
           /\ \A l \in Nat \ {0} : Lower(Candidate(n, k)) = Lower(Candidate(n, l)) => k = l
<1> DEFINE no(q) == IF q = 1 THEN n.no ELSE n.no * 10 + q
<1>1. \A q \in Nat \ {0} : no(q) \in Nat /\ \A l \in Nat \ {0} : no(q) = no(l) => q = l
  BY DEF ToolNames
<1>2. \A q \in Nat \ {0} : Candidate(n, q) = [n EXCEPT !.cut = TRUE, !.no = no(q)]
  BY ZenonT(20) DEF Candidate
<1> HIDE DEF no
<1>3. \A q \in Nat \ {0} : Candidate(n, q) \in ToolNames /\ Candidate(n, q).cut
                           /\ Candidate(n, q).no = no(q)
  <2> SUFFICES ASSUME NEW q \in Nat \ {0}, NEW m, m = no(q)
               PROVE  Candidate(n, q) \in ToolNames /\ Candidate(n, q).cut /\ Candidate(n, q).no = m
    OBVIOUS
  <2>1. m \in Nat /\ Candidate(n, q) = [n EXCEPT !.cut = TRUE, !.no = m]
    BY <1>1, <1>2
  <2> QED BY <2>1 DEF ToolNames
<1>4. \A q \in Nat \ {0} : /\ Lower(Candidate(n, q)) \in ToolNames /\ Lower(Candidate(n, q)).cut
                           /\ Lower(Candidate(n, q)).no = no(q)
  BY <1>3 DEF Lower, ToolNames
<1> QED BY <1>1, <1>3, <1>4

LEMMA FreshIsFree ==
    ASSUME NEW n \in ToolNames, NEW taken, NEW S, IsFiniteSet(S),
           Cardinality(S) <= MaxDeclared + 1, NEW g,
           \A t \in taken : t.cut => \E s \in S : g[s] = t
    PROVE  /\ Fresh(n, taken) \in ToolNames /\ Fresh(n, taken).cut
           /\ Lower(Fresh(n, taken)) \notin taken
<1> DEFINE K == 1..(MaxDeclared + 2)
           free == {k \in K : Lower(Candidate(n, k)) \notin taken}
<1>1. /\ MaxDeclared \in Nat /\ K \subseteq Nat \ {0} /\ IsFiniteSet(K)
      /\ Cardinality(K) = MaxDeclared + 2 /\ Cardinality(S) \in Nat
  BY ZenToolsAssumption, FS_Interval, FS_CardinalityType
<1>2. free # {}
  <2> SUFFICES ASSUME \A k \in K : Lower(Candidate(n, k)) \in taken PROVE FALSE
    OBVIOUS
  <2> DEFINE f == [k \in K |-> CHOOSE s \in S : g[s] = Lower(Candidate(n, k))]
  <2> HIDE DEF K
  <2>1. \A k \in K : \E s \in S : g[s] = Lower(Candidate(n, k))
    BY <1>1, CandidatesDiffer
  <2>2. \A k \in K : f[k] \in S /\ g[f[k]] = Lower(Candidate(n, k))
    BY <2>1
  <2>3. f \in [K -> S]
    BY <2>2
  <2> HIDE DEF f
  <2>4. PICK k, l \in K : k # l /\ f[k] = f[l]
    <3>1. Cardinality(S) < Cardinality(K)
      BY <1>1
    <3>2. IsFiniteSet(K) /\ IsFiniteSet(S)
      BY <1>1
    <3> HIDE DEF f
    <3> QED BY <3>1, <3>2, <2>3, FS_PigeonHole
  <2>5. Lower(Candidate(n, k)) = Lower(Candidate(n, l))
    BY <2>2, <2>4
  <2> QED BY <2>4, <2>5, <1>1, CandidatesDiffer
<1> DEFINE k == CHOOSE q \in free : \A j \in free : q <= j
<1>3. k \in free
  <2>1. free \in SUBSET Nat
    BY <1>1
  <2> QED BY <1>2, <2>1, SmallestNumber
<1>4. Fresh(n, taken) = Candidate(n, k)
  BY DEF Fresh, Candidate
<1>5. k \in Nat \ {0} /\ Lower(Candidate(n, k)) \notin taken
  BY <1>1, <1>3
<1> HIDE DEF k
<1> QED BY <1>4, <1>5, CandidatesDiffer

-----------------------------------------------------------------------------
(* What is converted, added, cut off and dropped leaves the client's names. *)

ToolsTypeOK ==
    /\ zenStage \in {"new", "sent", "answering", "called", "over"}
    /\ upstreamOf \in Protocols /\ muse \in BOOLEAN
    /\ declared \in Lists /\ NamedOnce(declared)

LEMMA ConvertedIsOwn ==
    ASSUME ToolsTypeOK
    PROVE  /\ Own(Converted) /\ Len(Converted) <= MaxDeclared
           /\ NamesIn(Converted) = NamesIn(declared)
           /\ \A n \in DOMAIN Identities : Identities[n] = n
           /\ DOMAIN Identities = NamesIn(declared)
<1>1. PICK m \in 0..MaxDeclared : declared \in [1..m -> [name : Declarable, custom : BOOLEAN]]
  BY DEF ToolsTypeOK, Lists
<1>2. m \in Nat /\ m <= MaxDeclared /\ MaxDeclared \in Nat /\ Declarable \subseteq ToolNames
  BY <1>1, ZenToolsAssumption DEF ToolNames
<1>3. \A i \in 1..m : declared[i].name \in ToolNames /\ declared[i].custom \in BOOLEAN
  BY <1>1, <1>2
<1>4. DOMAIN declared = 1..m /\ DOMAIN Converted = 1..m
  BY <1>1 DEF Converted
<1>5. \A i \in 1..m : /\ Converted[i] \in ToolType /\ Converted[i].name = declared[i].name
                      /\ Converted[i].of = declared[i].name
  BY <1>3, <1>4 DEF Converted, ToolType
<1>6. Converted \in Seq(ToolType) /\ Len(Converted) = m
  <2>1. Converted = [i \in 1..m |-> Converted[i]]
    BY <1>4 DEF Converted
  <2>2. Converted \in [1..m -> ToolType]
    BY <2>1, <1>5
  <2> QED BY <2>2, <1>2
<1>7. NamedOnce(Converted)
  BY <1>4, <1>5 DEF NamedOnce, ToolsTypeOK
<1>8. NamesIn(Converted) = NamesIn(declared)
  BY <1>4, <1>5 DEF NamesIn
<1> QED BY <1>2, <1>4, <1>5, <1>6, <1>7, <1>8 DEF Own, Identities

LEMMA GateIsOwn ==
    ASSUME NEW tools, Own(tools), Len(tools) <= MaxDeclared
    PROVE  /\ Own(Gate(tools)) /\ Len(Gate(tools)) <= MaxTools
           /\ NamesIn(Gate(tools)) \subseteq NamesIn(tools) \union {ReadName}
<1> DEFINE added == [name |-> ReadName, of |-> ReadName, custom |-> FALSE]
           limit(n) == IF n < Len(tools) THEN n ELSE Len(tools)
           short(n) == SubSeq(tools, 1, limit(n))
<1>1. /\ tools \in Seq(ToolType) /\ Len(tools) \in Nat /\ MaxTools \in Nat \ {0}
      /\ MaxDeclared \in Nat /\ DOMAIN tools = 1..Len(tools)
  BY ZenToolsAssumption DEF Own
<1>2. added \in ToolType /\ added.name = ReadName /\ added.of = ReadName
  BY ZenToolsAssumption DEF ToolType, ToolNames, ReadName, Plain
<1>3. ASSUME NEW n \in Nat
      PROVE  /\ Own(short(n)) /\ Len(short(n)) <= n
             /\ Len(short(n)) <= MaxDeclared /\ Len(short(n)) \in Nat
             /\ \A i \in DOMAIN short(n) : i \in DOMAIN tools /\ short(n)[i] = tools[i]
  <2> DEFINE cut == short(n)
  <2>1. limit(n) \in Nat /\ limit(n) <= n /\ limit(n) <= Len(tools)
    BY <1>1
  <2>2. /\ cut \in Seq(ToolType) /\ Len(cut) = limit(n) /\ DOMAIN cut = 1..limit(n)
        /\ \A i \in 1..limit(n) : cut[i] = tools[i]
    BY <1>1, <2>1
  <2> HIDE DEF short, limit
  <2>3. \A i \in DOMAIN cut : i \in DOMAIN tools /\ cut[i] = tools[i]
    BY <1>1, <2>1, <2>2
  <2>4. Own(cut)
    BY <1>1, <2>1, <2>2, <2>3 DEF Own, NamedOnce
  <2> QED BY <1>1, <2>1, <2>2, <2>3, <2>4
<1>4. CASE ReadName \in NamesIn(tools)
  <2> DEFINE cut == short(MaxTools)
  <2>1. Gate(tools) = cut
    BY <1>4 DEF Gate
  <2>2. /\ Own(cut) /\ Len(cut) <= MaxTools
        /\ \A i \in DOMAIN cut : i \in DOMAIN tools /\ cut[i] = tools[i]
    BY <1>1, <1>3
  <2> HIDE DEF cut
  <2> QED BY <2>1, <2>2 DEF NamesIn
<1>5. CASE ReadName \notin NamesIn(tools)
  <2> DEFINE cut == short(MaxTools - 1)
             all == Append(cut, added)
  <2>1. Gate(tools) = all
    BY <1>5 DEF Gate
  <2>2. /\ Own(cut) /\ Len(cut) <= MaxTools - 1 /\ Len(cut) <= MaxDeclared /\ Len(cut) \in Nat
        /\ \A i \in DOMAIN cut : i \in DOMAIN tools /\ cut[i] = tools[i]
    <3>1. MaxTools - 1 \in Nat
      BY <1>1
    <3> QED BY <3>1, <1>3
  <2> HIDE DEF cut, added
  <2>3. /\ all \in Seq(ToolType) /\ Len(all) = Len(cut) + 1 /\ DOMAIN all = 1..(Len(cut) + 1)
        /\ \A i \in 1..Len(cut) : all[i] = cut[i]
        /\ all[Len(cut) + 1] = added /\ DOMAIN cut = 1..Len(cut)
    BY <1>2, <2>2 DEF Own
  <2> HIDE DEF all
  <2>4. \A i \in 1..Len(cut) : all[i].name # ReadName
    BY <1>5, <2>2, <2>3 DEF NamesIn
  <2>5. NamedOnce(all)
    <3> SUFFICES ASSUME NEW i \in DOMAIN all, NEW j \in DOMAIN all, i # j
                 PROVE  all[i].name # all[j].name
      BY DEF NamedOnce
    <3>1. CASE i \in 1..Len(cut) /\ j \in 1..Len(cut)
      BY <3>1, <2>2, <2>3 DEF Own, NamedOnce
    <3>2. CASE i = Len(cut) + 1 /\ j \in 1..Len(cut)
      BY <3>2, <2>3, <2>4, <1>2
    <3>3. CASE j = Len(cut) + 1 /\ i \in 1..Len(cut)
      BY <3>3, <2>3, <2>4, <1>2
    <3> QED BY <3>1, <3>2, <3>3, <2>2, <2>3
  <2>6. \A i \in DOMAIN all : all[i].of = all[i].name
    <3>1. \A i \in 1..Len(cut) : all[i].of = all[i].name
      BY <2>2, <2>3 DEF Own
    <3> QED BY <3>1, <2>2, <2>3, <1>2
  <2>7. Own(all) /\ Len(all) <= MaxTools
    BY <1>1, <2>2, <2>3, <2>5, <2>6 DEF Own
  <2>8. NamesIn(all) \subseteq NamesIn(tools) \union {ReadName}
    <3>1. \A i \in 1..Len(cut) : all[i].name \in NamesIn(tools)
      BY <2>2, <2>3 DEF NamesIn
    <3> QED BY <3>1, <2>2, <2>3, <1>2 DEF NamesIn
  <2> QED BY <2>1, <2>7, <2>8
<1> QED BY <1>4, <1>5

LEMMA AdaptedIsOwn ==
    ASSUME ToolsTypeOK
    PROVE  /\ Own(Adapted) /\ NamesIn(Adapted) \subseteq NamesIn(declared) \union {ReadName}
           /\ upstreamOf \in {"chat-completions", "responses"} => Len(Adapted) <= MaxTools
           /\ upstreamOf \notin {"chat-completions", "responses"}
                 => NamesIn(Adapted) = NamesIn(declared)
<1>1. /\ Own(Converted) /\ Len(Converted) <= MaxDeclared /\ NamesIn(Converted) = NamesIn(declared)
  BY ConvertedIsOwn
<1>2. /\ Own(Gate(Converted)) /\ Len(Gate(Converted)) <= MaxTools
      /\ NamesIn(Gate(Converted)) \subseteq NamesIn(declared) \union {ReadName}
  BY <1>1, GateIsOwn
<1>3. upstreamOf \in {"chat-completions", "responses"} => Adapted = Gate(Converted)
  BY Zenon DEF Adapted, GateResponses
<1>4. upstreamOf \notin {"chat-completions", "responses"} => Adapted = Converted
  BY Zenon DEF Adapted
<1> QED BY <1>1, <1>2, <1>3, <1>4

(* What remains of some numbers is numbered anew, in order. *)
LEMMA Renumbered ==
    ASSUME NEW N \in Nat, NEW kept \in SUBSET (1..N)
    PROVE  /\ Cardinality(kept) \in Nat /\ Cardinality(kept) <= N
           /\ \A n \in 1..Cardinality(kept) : \E i \in kept : Cardinality({j \in kept : j <= i}) = n
<1> DEFINE upto(i) == {j \in kept : j <= i}
           rank == [i \in kept |-> Cardinality(upto(i))]
           C == Cardinality(kept)
<1>1. IsFiniteSet(kept) /\ C \in Nat /\ C <= N
  <2>1. IsFiniteSet(1..N) /\ Cardinality(1..N) = N
    BY NumbersCount
  <2> QED BY <2>1, FS_Subset, FS_CardinalityType
<1>2. \A i \in kept : /\ IsFiniteSet(upto(i)) /\ Cardinality(upto(i)) \in Nat
                      /\ Cardinality(upto(i)) <= C
  <2> SUFFICES ASSUME NEW i \in kept
               PROVE  /\ IsFiniteSet(upto(i)) /\ Cardinality(upto(i)) \in Nat
                      /\ Cardinality(upto(i)) <= C
    OBVIOUS
  <2>1. upto(i) \in SUBSET kept
    OBVIOUS
  <2> QED BY <2>1, <1>1, FS_Subset, FS_CardinalityType
<1>3. \A i \in kept : Cardinality(upto(i)) # 0
  <2>1. \A i \in kept : upto(i) # {}
    OBVIOUS
  <2> QED BY <1>2, <2>1, FS_EmptySet
<1>4. rank \in [kept -> 1..C]
  BY <1>1, <1>2, <1>3
<1>5. \A i, k \in kept : i < k => Cardinality(upto(i)) # Cardinality(upto(k))
  <2> SUFFICES ASSUME NEW i \in kept, NEW k \in kept, i < k
               PROVE  Cardinality(upto(i)) # Cardinality(upto(k))
    OBVIOUS
  <2>1. upto(i) \in SUBSET upto(k) /\ k \in upto(k) /\ k \notin upto(i)
    <3>1. \A j \in kept : j \in Int
      OBVIOUS
    <3>2. i \in Int /\ k \in Int /\ i < k
      BY <3>1
    <3>3. (\A j \in kept : j <= i => j <= k) /\ k <= k /\ ~(k <= i)
      BY <3>1, <3>2
    <3> QED BY <3>3
  <2>2. IsFiniteSet(upto(k)) /\ upto(i) # upto(k)
    BY <1>2, <2>1
  <2> HIDE DEF upto
  <2> QED BY <2>1, <2>2, FS_Subset
<1>6. rank \in Injection(kept, 1..C)
  <2>1. \A i, k \in kept : rank[i] = rank[k] => i = k
    BY <1>5
  <2> HIDE DEF rank
  <2> QED BY <2>1, <1>4 DEF Injection, IsInjective
<1>7. IsFiniteSet(1..C) /\ Cardinality(1..C) = C
  BY <1>1, FS_Interval
<1>8. rank \in Surjection(kept, 1..C)
  <2> HIDE DEF rank, C
  <2>1. Cardinality(kept) = Cardinality(1..C)
    BY <1>7 DEF C
  <2> QED BY <2>1, <1>6, <1>7, FS_Injection
<1>9. \A n \in 1..C : \E i \in kept : rank[i] = n
  <2> HIDE DEF rank, C
  <2> QED BY <1>8 DEF Surjection
<1> QED BY <1>1, <1>9

LEMMA SanitizedIsOwn ==
    ASSUME NEW tools, Own(tools)
    PROVE  /\ Own(Sanitized(tools)) /\ Len(Sanitized(tools)) <= Len(tools)
           /\ NamesIn(Sanitized(tools)) \subseteq NamesIn(tools)
<1> DEFINE kept == {i \in DOMAIN tools : ~(muse /\ tools[i].custom)}
           C == Cardinality(kept)
           rank(i) == Cardinality({j \in kept : j <= i})
           at(n) == CHOOSE i \in kept : rank(i) = n
           rest == Sanitized(tools)
<1>1. /\ tools \in Seq(ToolType) /\ Len(tools) \in Nat /\ DOMAIN tools = 1..Len(tools)
      /\ MaxDeclared \in Nat
  BY ZenToolsAssumption DEF Own
<1>2. kept \in SUBSET (1..Len(tools))
  BY <1>1
<1>3. rest = [n \in 1..C |-> tools[at(n)]]
  BY DEF Sanitized
<1> HIDE DEF kept, rest
<1>4. /\ C \in Nat /\ C <= Len(tools)
      /\ \A n \in 1..C : \E i \in kept : rank(i) = n
  BY <1>1, <1>2, Renumbered
<1>5. \A n \in 1..C : at(n) \in kept /\ rank(at(n)) = n
  BY <1>4
<1> HIDE DEF C, rank, at
<1>6. \A n \in 1..C : at(n) \in DOMAIN tools /\ rest[n] = tools[at(n)]
  BY <1>1, <1>2, <1>3, <1>5
<1>7. rest \in Seq(ToolType) /\ Len(rest) = C /\ DOMAIN rest = 1..C
  <2>1. rest \in [1..C -> ToolType]
    BY <1>1, <1>3, <1>6
  <2> QED BY <2>1, <1>4
<1>8. NamedOnce(rest)
  <2> SUFFICES ASSUME NEW i \in 1..C, NEW j \in 1..C, i # j PROVE rest[i].name # rest[j].name
    BY <1>7 DEF NamedOnce
  <2>1. at(i) # at(j)
    BY <1>5
  <2> QED BY <2>1, <1>6 DEF Own, NamedOnce
<1>9. \A i \in DOMAIN rest : rest[i].of = rest[i].name /\ rest[i].name \in NamesIn(tools)
  BY <1>6, <1>7 DEF Own, NamesIn
<1>10. Own(rest) /\ Len(rest) <= Len(tools)
  BY <1>1, <1>4, <1>7, <1>8, <1>9 DEF Own
<1>11. NamesIn(rest) \subseteq NamesIn(tools)
  BY <1>9 DEF NamesIn
<1> QED BY <1>10, <1>11 DEF rest

-----------------------------------------------------------------------------
(* The renaming, one tool after the other. *)

TakenBy(tools, new, i) == {Lower(n) : n \in NamesIn(tools)}
                          \union {Lower(new[j]) : j \in Blocked(tools) \intersect 1..(i - 1)}

LEMMA RenamedAs ==
    ASSUME NEW tools, NEW new, NEW i
    PROVE  Renamed(tools, new, i) = IF i \notin Blocked(tools) THEN tools[i].name
                                    ELSE Fresh(tools[i].name, TakenBy(tools, new, i))
BY Zenon DEF Renamed, TakenBy

LEMMA RenamedLooksBack ==
    ASSUME NEW tools, NEW g, NEW h, NEW i, \A j \in 1..(i - 1) : g[j] = h[j]
    PROVE  Renamed(tools, g, i) = Renamed(tools, h, i)
<1>1. TakenBy(tools, g, i) = TakenBy(tools, h, i)
  <2>1. {Lower(g[j]) : j \in Blocked(tools) \intersect 1..(i - 1)}
        = {Lower(h[j]) : j \in Blocked(tools) \intersect 1..(i - 1)}
    OBVIOUS
  <2> QED BY <2>1 DEF TakenBy
<1> QED BY <1>1, RenamedAs

RenamesUpTo(tools, g, m) ==
    g = [i \in 1..m |-> g[i]] /\ \A i \in 1..m : g[i] = Renamed(tools, g, i)

LEMMA RenamingExists ==
    ASSUME NEW tools, NEW N \in Nat
    PROVE  \E g : RenamesUpTo(tools, g, N)
<1> DEFINE Never == {m \in Nat : ~\E g : RenamesUpTo(tools, g, m)}
<1> SUFFICES ASSUME N \in Never PROVE FALSE
  OBVIOUS
<1>1. PICK m \in Never : \A k \in Never : m <= k
  <2>1. Never \in SUBSET Nat /\ Never # {}
    OBVIOUS
  <2> HIDE DEF Never
  <2> QED BY <2>1, SmallestNumber
<1>2. m # 0
  <2> DEFINE e == [i \in 1..0 |-> 0]
  <2>1. e = [i \in 1..0 |-> e[i]]
    OBVIOUS
  <2>2. \A i : i \notin 1..0
    OBVIOUS
  <2> HIDE DEF e
  <2>3. RenamesUpTo(tools, e, 0)
    BY <2>1, <2>2 DEF RenamesUpTo
  <2> QED BY <2>3, <1>1
<1>3. m \in Nat /\ m - 1 \in Nat /\ m - 1 \notin Never
  BY <1>1, <1>2
<1>4. PICK g : RenamesUpTo(tools, g, m - 1)
  BY <1>3
<1> DEFINE last == Renamed(tools, g, m)
           h == [i \in 1..m |-> IF i = m THEN last ELSE g[i]]
<1>5. \A j \in 1..(m - 1) : h[j] = g[j]
  BY <1>3
<1>6. h[m] = last /\ h = [i \in 1..m |-> h[i]]
  BY <1>2, <1>3
<1> HIDE DEF h
<1>7. \A i \in 1..m : h[i] = Renamed(tools, h, i)
  <2> SUFFICES ASSUME NEW i \in 1..m PROVE h[i] = Renamed(tools, h, i)
    OBVIOUS
  <2>1. Renamed(tools, h, i) = Renamed(tools, g, i)
    <3>1. \A j \in 1..(i - 1) : h[j] = g[j]
      BY <1>3, <1>5
    <3> QED BY <3>1, RenamedLooksBack
  <2>2. CASE i = m
    BY <2>1, <2>2, <1>6
  <2>3. CASE i # m
    <3>1. i \in 1..(m - 1)
      BY <2>3, <1>3
    <3> QED BY <3>1, <2>1, <1>4, <1>5 DEF RenamesUpTo
  <2> QED BY <2>2, <2>3
<1>8. RenamesUpTo(tools, h, m)
  BY <1>6, <1>7 DEF RenamesUpTo
<1> QED BY <1>1, <1>8

LEMMA BrokenIs ==
    ASSUME NEW tools \in Seq(ToolType)
    PROVE  \E new : /\ \A i \in DOMAIN tools : new[i] = Renamed(tools, new, i)
                    /\ Broken(tools) = [i \in DOMAIN tools |-> [tools[i] EXCEPT !.name = new[i]]]
<1> DEFINE Is(new) == new = [i \in DOMAIN tools |-> Renamed(tools, new, i)]
           new == CHOOSE g : Is(g)
<1>1. Len(tools) \in Nat /\ DOMAIN tools = 1..Len(tools)
  OBVIOUS
<1>2. PICK g : RenamesUpTo(tools, g, Len(tools))
  BY <1>1, RenamingExists
<1>3. Is(g)
  BY <1>1, <1>2 DEF RenamesUpTo
<1>4. Is(new)
  <2> HIDE DEF Is
  <2> QED BY <1>3
<1>5. Broken(tools) = [i \in DOMAIN tools |-> [tools[i] EXCEPT !.name = new[i]]]
  BY DEF Broken
<1> HIDE DEF new
<1>6. \A i \in DOMAIN tools : new[i] = Renamed(tools, new, i)
  BY <1>4
<1> QED BY <1>5, <1>6

(* A broken name is none of the names there are, nor another broken one. *)
LEMMA RenamedIsFree ==
    ASSUME NEW tools, Own(tools), NEW new, NEW i \in Blocked(tools),
           new[i] = Renamed(tools, new, i)
    PROVE  /\ new[i] \in ToolNames /\ new[i].cut
           /\ Lower(new[i]) \notin TakenBy(tools, new, i)
<1> DEFINE taken == TakenBy(tools, new, i)
           S == DOMAIN tools
           g == [j \in S |-> Lower(IF j \in Blocked(tools) THEN new[j] ELSE tools[j].name)]
<1>1. /\ tools \in Seq(ToolType) /\ Len(tools) \in Nat /\ S = 1..Len(tools)
      /\ Len(tools) <= MaxDeclared + 1 /\ Blocked(tools) \subseteq S
  BY DEF Own, Blocked
<1>2. IsFiniteSet(S) /\ Cardinality(S) <= MaxDeclared + 1
  <2>1. IsFiniteSet(1..Len(tools)) /\ Cardinality(1..Len(tools)) = Len(tools)
    BY <1>1, NumbersCount
  <2> QED BY <2>1, <1>1
<1>3. \A j \in S : tools[j].name \in ToolNames
  <2>1. \A j \in S : tools[j] \in ToolType
    BY <1>1
  <2> QED BY <2>1 DEF ToolType
<1>4. ASSUME NEW t \in taken, t.cut PROVE \E s \in S : g[s] = t
  <2>1. CASE \E j \in Blocked(tools) : t = Lower(new[j])
    BY <2>1, <1>1
  <2>2. CASE \E j \in S : t = Lower(tools[j].name)
    <3>1. PICK j \in S : t = Lower(tools[j].name)
      BY <2>2
    <3>2. tools[j].name.cut
      BY <1>3, <1>4, <3>1 DEF Lower, ToolNames
    <3>3. j \notin Blocked(tools)
      BY <3>2 DEF Blocked, Has
    <3> QED BY <3>1, <3>3
  <2> QED BY <1>4, <2>1, <2>2 DEF TakenBy, NamesIn
<1>5. new[i] = Fresh(tools[i].name, taken)
  BY RenamedAs
<1>6. tools[i].name \in ToolNames
  BY <1>1, <1>3
<1> HIDE DEF taken, S, g
<1>7. /\ Fresh(tools[i].name, taken) \in ToolNames /\ Fresh(tools[i].name, taken).cut
      /\ Lower(Fresh(tools[i].name, taken)) \notin taken
  BY <1>2, <1>4, <1>6, FreshIsFree
<1> QED BY <1>5, <1>7 DEF taken

LEMMA BrokenIsSafe ==
    ASSUME NEW tools, Own(tools)
    PROVE  /\ DOMAIN Broken(tools) = DOMAIN tools /\ Len(Broken(tools)) = Len(tools)
           /\ NamedOnce(Broken(tools)) /\ NoneRefused(Broken(tools))
           /\ \A i \in DOMAIN tools : Broken(tools)[i].of = tools[i].name
<1>1. /\ tools \in Seq(ToolType) /\ Len(tools) \in Nat /\ DOMAIN tools = 1..Len(tools)
  BY DEF Own
<1>2. PICK new : /\ \A i \in DOMAIN tools : new[i] = Renamed(tools, new, i)
                 /\ Broken(tools) = [i \in DOMAIN tools |-> [tools[i] EXCEPT !.name = new[i]]]
  BY <1>1, BrokenIs
<1>3. DOMAIN Broken(tools) = DOMAIN tools /\ Len(Broken(tools)) = Len(tools)
  BY <1>1, <1>2
<1>4. \A i \in DOMAIN tools : Broken(tools)[i].name = new[i] /\ Broken(tools)[i].of = tools[i].name
  <2> SUFFICES ASSUME NEW i \in DOMAIN tools
               PROVE  Broken(tools)[i].name = new[i] /\ Broken(tools)[i].of = tools[i].name
    OBVIOUS
  <2>1. tools[i] \in ToolType /\ tools[i].of = tools[i].name
    BY <1>1 DEF Own
  <2>2. Broken(tools)[i] = [tools[i] EXCEPT !.name = new[i]]
    BY <1>2
  <2> QED BY <2>1, <2>2 DEF ToolType
<1>5. Blocked(tools) \subseteq DOMAIN tools
  BY DEF Blocked
<1>6. \A i \in DOMAIN tools \ Blocked(tools) : new[i] = tools[i].name
  BY <1>2, RenamedAs
<1>7. \A i \in Blocked(tools) : /\ new[i] \in ToolNames /\ new[i].cut
                                /\ Lower(new[i]) \notin TakenBy(tools, new, i)
  BY <1>2, <1>5, RenamedIsFree
<1>8. \A i \in Blocked(tools), j \in DOMAIN tools \ Blocked(tools) : new[i] # new[j]
  <2>1. \A j \in DOMAIN tools : \A i : Lower(tools[j].name) \in TakenBy(tools, new, i)
    BY DEF TakenBy, NamesIn
  <2> QED BY <2>1, <1>6, <1>7
<1>9. \A i, j \in Blocked(tools) : j < i => new[i] # new[j]
  <2> SUFFICES ASSUME NEW i \in Blocked(tools), NEW j \in Blocked(tools), j < i
               PROVE  new[i] # new[j]
    OBVIOUS
  <2>1. j \in 1..(i - 1)
    BY <1>1, <1>5
  <2>2. Lower(new[j]) \in TakenBy(tools, new, i)
    BY <2>1 DEF TakenBy
  <2> QED BY <2>2, <1>7
<1>10. \A i, j \in DOMAIN tools : i # j => new[i] # new[j]
  <2> SUFFICES ASSUME NEW i \in DOMAIN tools, NEW j \in DOMAIN tools, i # j
               PROVE  new[i] # new[j]
    OBVIOUS
  <2>1. CASE i \in Blocked(tools) /\ j \in Blocked(tools)
    <3>1. i < j \/ j < i
      BY <1>1
    <3> QED BY <3>1, <2>1, <1>9
  <2>2. CASE i \in Blocked(tools) /\ j \notin Blocked(tools)
    BY <2>2, <1>8
  <2>3. CASE i \notin Blocked(tools) /\ j \in Blocked(tools)
    BY <2>3, <1>8
  <2>4. CASE i \notin Blocked(tools) /\ j \notin Blocked(tools)
    BY <2>4, <1>6 DEF Own, NamedOnce
  <2> QED BY <2>1, <2>2, <2>3, <2>4
<1>11. NamedOnce(Broken(tools))
  BY <1>3, <1>4, <1>10 DEF NamedOnce
<1>12. NoneRefused(Broken(tools))
  <2> SUFFICES ASSUME NEW p \in Pairs, NEW i \in DOMAIN tools, NEW j \in DOMAIN tools,
                      Has(new[i], p[1]), Has(new[j], p[2])
               PROVE  FALSE
    BY <1>3, <1>4 DEF NoneRefused
  <2>1. i \notin Blocked(tools) /\ j \notin Blocked(tools)
    BY <1>7 DEF Has
  <2>2. Has(tools[i].name, p[1]) /\ Has(tools[j].name, p[2])
    BY <2>1, <1>6
  <2> QED BY <2>1, <2>2 DEF Blocked
<1> QED BY <1>3, <1>4, <1>11, <1>12

-----------------------------------------------------------------------------
(* The table. *)

LEMMA TableLeadsBack ==
    ASSUME NEW table, \A n \in DOMAIN table : table[n] = n, NEW before, NEW after,
           DOMAIN after = DOMAIN before, DOMAIN before \subseteq Int, NamedOnce(before), NamedOnce(after),
           \A i \in DOMAIN before : before[i].name \in DOMAIN table
    PROVE  \A i \in DOMAIN after : /\ after[i].name \in DOMAIN WithRenames(table, before, after)
                                   /\ WithRenames(table, before, after)[after[i].name] = before[i].name
<1> DEFINE renamed == {i \in DOMAIN after : after[i].name # before[i].name}
           new(n) == {i \in renamed : after[i].name = n}
           original(n) == before[CHOOSE i \in new(n) : \A j \in new(n) : j <= i].name
           D == DOMAIN table \union {after[i].name : i \in renamed}
           W == WithRenames(table, before, after)
<1>1. W = [n \in D |-> IF new(n) = {} THEN table[n]
                       ELSE IF original(n) \in DOMAIN table THEN table[original(n)] ELSE original(n)]
  BY DEF WithRenames
<1> SUFFICES ASSUME NEW i \in DOMAIN after
             PROVE  after[i].name \in DOMAIN W /\ W[after[i].name] = before[i].name
  OBVIOUS
<1> DEFINE n == after[i].name
<1>2. CASE i \in renamed
  <2>1. new(n) = {i}
    BY <1>2 DEF NamedOnce
  <2>2. (CHOOSE k \in new(n) : \A j \in new(n) : j <= k) = i
    <3>1. i \in Int /\ i <= i
      OBVIOUS
    <3> HIDE DEF new
    <3> QED BY <2>1, <3>1
  <2>3. original(n) = before[i].name
    BY <2>2
  <2>4. new(n) # {} /\ n \in D /\ before[i].name \in DOMAIN table
    BY <1>2, <2>1
  <2> HIDE DEF new, original, D, W, n
  <2>5. n \in DOMAIN W /\ W[n] = before[i].name
    BY <1>1, <2>3, <2>4
  <2> QED BY <2>5 DEF n
<1>3. CASE i \notin renamed
  <2>1. new(n) = {} /\ n = before[i].name /\ n \in DOMAIN table
    BY <1>3 DEF NamedOnce
  <2> QED BY <1>1, <2>1
<1> QED BY <1>2, <1>3

-----------------------------------------------------------------------------
(* What a request that was sent keeps. *)

ToolsInv == ToolsTypeOK /\ ToolsRestored

LEMMA ToolsInvInit == ZenToolInit => ToolsInv
BY DEF ZenToolInit, ToolsInv, ToolsTypeOK, ToolsRestored, NamedOnce

LEMMA AdaptKeepsTools ==
    ASSUME ToolsInv, Adapt
    PROVE  ToolsInv'
<1> DEFINE tools == Sanitized(Adapted)
           table == IF upstreamOf \in {"chat-completions", "responses"}
                    THEN WithGate(Identities, Adapted) ELSE Identities
           W == WithRenames(table, tools, Broken(tools))
<1>1. ToolsTypeOK
  BY DEF ToolsInv
<1>2. /\ zenStage' = "sent" /\ sentTools' = Broken(tools) /\ identity' = W
      /\ UNCHANGED <<declared, upstreamOf, clientOf, streaming, muse>>
  BY DEF Adapt, zenGiven
<1>3. /\ Own(Adapted) /\ NamesIn(Adapted) \subseteq NamesIn(declared) \union {ReadName}
      /\ upstreamOf \in {"chat-completions", "responses"} => Len(Adapted) <= MaxTools
      /\ upstreamOf \notin {"chat-completions", "responses"} => NamesIn(Adapted) = NamesIn(declared)
  BY <1>1, AdaptedIsOwn
<1>4. (\A n \in DOMAIN Identities : Identities[n] = n) /\ DOMAIN Identities = NamesIn(declared)
  BY <1>1, ConvertedIsOwn
<1>5. Own(tools) /\ Len(tools) <= Len(Adapted) /\ NamesIn(tools) \subseteq NamesIn(Adapted)
  BY <1>3, SanitizedIsOwn
<1>6. (\A n \in DOMAIN table : table[n] = n) /\ NamesIn(Adapted) \subseteq DOMAIN table
  <2>1. CASE upstreamOf \notin {"chat-completions", "responses"}
    BY <2>1, <1>3, <1>4
  <2>2. CASE upstreamOf \in {"chat-completions", "responses"}
    <3>1. table = WithGate(Identities, Adapted)
      BY <2>2
    <3> HIDE DEF table
    <3>2. CASE ReadName \in NamesIn(Adapted) /\ ReadName \notin DOMAIN Identities
      <4>1. table = [n \in DOMAIN Identities \union {ReadName} |->
                        IF n = ReadName THEN n ELSE Identities[n]]
        BY <3>1, <3>2 DEF WithGate
      <4> QED BY <4>1, <1>3, <1>4
    <3>3. CASE ~(ReadName \in NamesIn(Adapted) /\ ReadName \notin DOMAIN Identities)
      <4>1. table = Identities
        BY <3>1, <3>3 DEF WithGate
      <4> QED BY <4>1, <3>3, <1>3, <1>4
    <3> QED BY <3>2, <3>3
  <2> QED BY <2>1, <2>2
<1> HIDE DEF tools, table
<1>7. /\ DOMAIN Broken(tools) = DOMAIN tools /\ Len(Broken(tools)) = Len(tools)
      /\ NamedOnce(Broken(tools)) /\ NoneRefused(Broken(tools))
      /\ \A i \in DOMAIN tools : Broken(tools)[i].of = tools[i].name
  BY <1>5, BrokenIsSafe
<1>8. \A i \in DOMAIN Broken(tools) : /\ Broken(tools)[i].name \in DOMAIN W
                                      /\ W[Broken(tools)[i].name] = Broken(tools)[i].of
  <2>1. NamedOnce(tools) /\ DOMAIN tools \subseteq Int
    BY <1>5 DEF Own
  <2>2. \A i \in DOMAIN tools : tools[i].name \in DOMAIN table
    BY <1>5, <1>6 DEF NamesIn
  <2> HIDE DEF W
  <2>3. \A i \in DOMAIN Broken(tools) : /\ Broken(tools)[i].name \in DOMAIN W
                                        /\ W[Broken(tools)[i].name] = tools[i].name
    BY <1>6, <1>7, <2>1, <2>2, TableLeadsBack DEF W
  <2> QED BY <2>3, <1>7
<1>9. ToolsTypeOK'
  <2>1. NamedOnce(declared)'
    BY <1>1, <1>2 DEF ToolsTypeOK, NamedOnce
  <2> QED BY <1>1, <1>2, <2>1 DEF ToolsTypeOK
<1>10. upstreamOf' \in {"chat-completions", "responses"} => Len(sentTools') <= MaxTools
  <2>1. Len(tools) \in Nat /\ Len(Adapted) \in Nat /\ MaxTools \in Nat
    BY <1>3, <1>5, ZenToolsAssumption DEF Own
  <2> QED BY <2>1, <1>2, <1>3, <1>5, <1>7
<1>11. /\ \A i, j \in DOMAIN sentTools' : i # j => sentTools'[i].name # sentTools'[j].name
       /\ ~\E p \in Pairs : \E i, j \in DOMAIN sentTools' :
              Has(sentTools'[i].name, p[1]) /\ Has(sentTools'[j].name, p[2])
  BY <1>2, <1>7 DEF NamedOnce, NoneRefused
<1>12. \A i \in DOMAIN sentTools' : Restored(sentTools[i].name)' = sentTools'[i].of
  <2> HIDE DEF W
  <2> QED BY <1>2, <1>8 DEF Restored
<1>13. ToolsRestored'
  BY <1>10, <1>11, <1>12 DEF ToolsRestored
<1> QED BY <1>9, <1>13 DEF ToolsInv

LEMMA OthersKeepTools ==
    ASSUME ToolsInv, UNCHANGED <<declared, upstreamOf, muse>>,
           zenStage' \in {"sent", "answering", "called", "over", zenStage},
           \/ zenStage' = "over"
           \/ /\ UNCHANGED <<sentTools, identity>>
              /\ zenStage \in {"new", "over"} => zenStage' = zenStage
    PROVE  ToolsInv'
<1>1. ToolsTypeOK'
  <2>1. NamedOnce(declared)'
    BY DEF ToolsInv, ToolsTypeOK, NamedOnce
  <2> QED BY <2>1 DEF ToolsInv, ToolsTypeOK
<1>2. ToolsRestored'
  <2>1. CASE zenStage' = "over"
    BY <2>1 DEF ToolsRestored
  <2>2. CASE zenStage' # "over" /\ zenStage = "new"
    BY <2>2 DEF ToolsRestored
  <2>3. CASE zenStage' # "over" /\ zenStage = "over"
    BY <2>3 DEF ToolsRestored
  <2>4. CASE zenStage' # "over" /\ zenStage \notin {"new", "over"}
    <3>1. ToolsRestored /\ UNCHANGED <<sentTools, identity, upstreamOf>>
      BY <2>4 DEF ToolsInv
    <3> QED BY <3>1, <2>4 DEF ToolsRestored, Restored
  <2> QED BY <2>1, <2>2, <2>3, <2>4
<1> QED BY <1>1, <1>2 DEF ToolsInv

LEMMA ToolsInvNext == ToolsInv /\ [ZenToolNext]_zenToolVars => ToolsInv'
<1> SUFFICES ASSUME ToolsInv, [ZenToolNext]_zenToolVars PROVE ToolsInv'
  OBVIOUS
<1>1. CASE Adapt
  BY <1>1, AdaptKeepsTools
<1>2. CASE ForwardChat \/ ForwardResponses \/ ForwardMessages \/ ForwardGemini
  BY <1>2, OthersKeepTools
     DEF ForwardChat, ForwardResponses, ForwardMessages, ForwardGemini, Passes, zenGiven
<1>3. ASSUME NEW i \in DOMAIN sentTools, Called(i) PROVE ToolsInv'
  BY <1>3, OthersKeepTools DEF Called, zenGiven
<1>4. CASE Ended
  BY <1>4, OthersKeepTools DEF Ended, zenGiven
<1>5. CASE Shut
  BY <1>5, OthersKeepTools DEF Shut, zenGiven
<1>6. CASE UNCHANGED zenToolVars
  BY <1>6, OthersKeepTools DEF zenToolVars, zenGiven
<1> QED BY <1>1, <1>2, <1>3, <1>4, <1>5, <1>6 DEF ZenToolNext

(* Whatever tools a client of OpenCode Zen declares, and whatever pairs of  *)
(* names the upstream refuses: each name it is told stands for one tool,    *)
(* the table leads back to the name the client gave it, no refused pair is  *)
(* left, and the tools of two protocols keep to the limit                   *)
(* (adaptOpencodeZenUpstreamRequest, breakOpencodeZenBlockedToolNamePairs). *)
THEOREM ZenToolsRestored == ZenToolSpec => []ToolsRestored
<1>1. ToolsInv => ToolsRestored
  BY DEF ToolsInv
<1> QED BY <1>1, ToolsInvInit, ToolsInvNext, PTL DEF ZenToolSpec

-----------------------------------------------------------------------------
(* The settings of a home.                                                  *)

Pointers == {"none", "managed", "user"}
TomlType == [edits : Nat, pointer : Pointers]
DiskType == [conf : Settings, pending : BOOLEAN, stateConf : Settings, hash : TomlType,
             toml : TomlType, selected : Bit, merged : Merges]
CliKinds == {"sync", "exclude", "config", "restart", "switch"}
JobStages == {"done", "failed", "fetch", "prompt", "write", "rebuild", "update", "reload", "health",
              "undoing", "restart", "reloaded"}
JobType == [kind : CliKinds \union UiKinds \union {"none"}, at : JobStages, base : Settings,
            want : Settings, touches : BOOLEAN, began : DiskType, saved : DiskType,
            source : TomlType, expected : TomlType, restarts : BOOLEAN, met : BOOLEAN]
GwType == [at : {"down", "starting", "loaded", "serving", "up"}, conf : Settings, lost : SUBSET Losses]

SettingsTypes ==
    /\ ownToml \in BOOLEAN /\ notes \in BOOLEAN
    /\ home \in DiskType /\ gw \in GwType
    /\ timers \in [save : Nat, undo : Nat]
    /\ job \in [Savers -> JobType]

(* The files of a home that agree, whatever the catalog is made of.         *)
Agree(d) ==
    /\ d.stateConf = d.conf /\ d.selected = d.conf.models
    /\ d.toml.edits = 0 => d.hash = d.toml
PointsRight(own, t, c) ==
    own \/ t.pointer = "user" \/ t.pointer = (IF c.static THEN "managed" ELSE "none")
Newer(t, u) == t.pointer = u.pointer \/ t.edits > u.edits

(* Where each kind of job can be, ... *)
Placed(s, j) ==
    /\ s = "cli" => \/ j.kind = "sync" /\ j.at \in {"fetch", "rebuild", "update", "reload"}
                    \/ j.kind = "exclude" /\ j.at \in {"prompt", "update", "reload"}
                    \/ j.kind = "config" /\ j.at \in {"write", "health", "undoing", "update"}
                    \/ j.kind = "restart" /\ j.at \in {"write", "health"}
                    \/ j.kind = "switch" /\ j.at \in {"prompt", "health"}
    /\ s = "ui" => \/ /\ j.kind \in {"uimodels", "uiconfig"} 
                      /\ j.at \in {"fetch", "rebuild", "restart", "reloaded", "update", "reload"}
                   \/ /\ j.kind = "uiswitch"
                      /\ j.at \in {"write", "restart", "reloaded", "update", "reload"}
    /\ j.restarts => s = "ui" /\ j.at \in {"restart", "reloaded", "update"}
    /\ j.at \in {"restart", "reloaded"} => j.restarts

(* ... what it wants before it writes, ... *)
Wants(j) ==
    /\ j.kind # "config" => j.want.static = j.base.static
    /\ j.kind \in {"sync", "exclude", "restart", "uimodels"} => j.want.switch = j.base.switch
    /\ j.kind \notin {"sync", "uimodels", "uiconfig"} => j.want.models = j.base.models
    /\ j.kind \in {"sync", "config", "restart", "switch", "uimodels"} => j.want.excluded = j.base.excluded
    /\ j.kind = "config" /\ ~j.touches => j.want.static = j.base.static
    /\ j.kind \in {"uimodels", "uiconfig"} => j.touches
    /\ j.kind = "uiswitch" /\ j.want.excluded # j.base.excluded => j.touches
Waiting(j, d) ==
    /\ j.base = d.conf /\ j.began.conf = d.conf /\ Wants(j)
    /\ Newer(d.toml, j.began.toml) /\ d.toml.edits >= j.began.toml.edits

(* ... what it remembers of the files, ... *)
Remembers(own, j) ==
    /\ Agree(j.saved) /\ PointsRight(own, j.saved.toml, j.saved.conf)
    /\ j.saved.conf = j.began.conf
    /\ Newer(j.saved.toml, j.began.toml) /\ j.saved.toml.edits >= j.began.toml.edits

(* ... what it has written, ... *)
Written(own, s, j, d) ==
    /\ j.want = d.conf
    /\ j.kind # "config" => d.conf.static = j.began.conf.static
    /\ (s = "ui" /\ ~j.restarts) \/ j.kind \in {"sync", "exclude"} => d.conf.switch = j.began.conf.switch
    /\ d.toml.edits >= j.began.toml.edits
    /\ j.at = "update" => /\ d.toml.pointer \in {j.source.pointer, "user"}
                          /\ j.source.pointer = "user" => own

(* ... and, in the Web UI, which edits of config.toml it will leave alone.  *)
Spares(j, d) == d.toml = j.expected \/ d.toml.edits > j.began.toml.edits

JobHolds(own, s, j, d) ==
    j.at \notin {"done", "failed"} =>
      /\ Placed(s, j) /\ Agree(j.began)
      /\ j.at \in {"fetch", "prompt", "write", "rebuild"} => Waiting(j, d)
      /\ j.at \in {"rebuild", "health", "update", "reload", "restart", "reloaded"} /\ j.kind # "switch" => Remembers(own, j)
      /\ j.at \in {"health", "update", "reload", "restart", "reloaded"} => Written(own, s, j, d)
      /\ s = "ui" /\ j.at \in {"rebuild", "update", "reload", "restart", "reloaded"} => Spares(j, d)
      /\ j.at = "undoing" => /\ d.conf = j.began.conf
                             /\ Newer(d.toml, j.began.toml) /\ d.toml.edits >= j.began.toml.edits
      /\ ~(j.kind = "config" /\ j.touches /\ j.at \in {"health", "update"}) => PointsRight(own, d.toml, d.conf)

SaveInv ==
    /\ SettingsTypes
    /\ Free("cli") \/ Free("ui")
    /\ Agree(home)
    /\ \A s \in Savers : JobHolds(ownToml, s, job[s], home)
    /\ (\A s \in Savers : Free(s)) => PointsRight(ownToml, home.toml, home.conf)

-----------------------------------------------------------------------------
(* What writing, marking and publishing leave of the files.                 *)
LEMMA Published ==
    ASSUME NEW d \in DiskType, NEW c \in Settings
    PROVE  /\ PublishCatalog(d, c) \in DiskType
           /\ PublishCatalog(d, c).conf = d.conf /\ PublishCatalog(d, c).pending = d.pending
           /\ PublishCatalog(d, c).stateConf = d.stateConf /\ PublishCatalog(d, c).hash = d.hash
           /\ PublishCatalog(d, c).toml = d.toml /\ PublishCatalog(d, c).selected = d.selected
           /\ PublishCatalog(d, c).merged = IF c.static THEN Merge(c, d.selected) ELSE d.merged
<1>1. Merge(c, d.selected) \in Merges
  BY DEF Merge, Merges, Settings, DiskType
<1> HIDE DEF Merge
<1> QED BY <1>1 DEF PublishCatalog, DiskType

LEMMA MarkedFiles ==
    ASSUME NEW d \in DiskType
    PROVE  /\ Marked(d) \in DiskType /\ Marked(d).pending = TRUE
           /\ Marked(d).conf = d.conf /\ Marked(d).stateConf = d.stateConf /\ Marked(d).hash = d.hash
           /\ Marked(d).toml = d.toml /\ Marked(d).selected = d.selected /\ Marked(d).merged = d.merged
BY DEF Marked, DiskType

LEMMA WroteFiles ==
    ASSUME NEW d \in DiskType, NEW c \in Settings
    PROVE  /\ Wrote(d, c) \in DiskType /\ Wrote(d, c).conf = c /\ Wrote(d, c).stateConf = c
           /\ Wrote(d, c).pending = d.pending /\ Wrote(d, c).hash = d.hash
           /\ Wrote(d, c).toml = d.toml /\ Wrote(d, c).selected = d.selected
           /\ Wrote(d, c).merged = d.merged
BY DEF Wrote, DiskType

LEMMA PointedToml ==
    ASSUME ownToml \in BOOLEAN, NEW t \in TomlType, NEW c \in Settings
    PROVE  /\ Pointed(t, c) \in TomlType /\ Pointed(t, c).edits = t.edits
           /\ PointsRight(ownToml, Pointed(t, c), c)
           /\ Pointed(t, c).pointer # "user" \/ ownToml
BY DEF Pointed, TomlType, Pointers, PointsRight, Settings

LEMMA RestingJob ==
    ASSUME NEW at \in {"done", "failed"}
    PROVE  /\ Resting(at) \in JobType /\ Resting(at).at = at
           /\ \A own, s, d : JobHolds(own, s, Resting(at), d)
<1>1. Nothing.toml \in TomlType /\ Default \in Settings
  BY DEF Nothing, TomlType, Pointers, Default, Settings, Bit
<1>2. Nothing \in DiskType
  BY DEF Nothing, DiskType, TomlType, Pointers, Default, Settings, Bit, Merge, Merges
<1> HIDE DEF Nothing, Default
<1>3. Resting(at) \in JobType /\ Resting(at).at = at
  BY <1>1, <1>2 DEF Resting, JobType, JobStages
<1> QED BY <1>3 DEF JobHolds

LEMMA NothingTyped == Nothing \in DiskType /\ Nothing.toml \in TomlType
<1>1. Nothing.toml \in TomlType
  BY DEF Nothing, TomlType, Pointers
<1>2. Nothing \in DiskType
  BY DEF Nothing, DiskType, TomlType, Pointers, Default, Settings, Bit, Merge, Merges
<1> QED BY <1>1, <1>2

-----------------------------------------------------------------------------
(* A job looks at config.json and config.toml only, and puts up with edits. *)
LEMMA JobStill ==
    ASSUME NEW own, NEW s, NEW j, NEW d, NEW e, e.conf = d.conf, e.toml = d.toml,
           JobHolds(own, s, j, d)
    PROVE  JobHolds(own, s, j, e)
BY DEF JobHolds, Waiting, Written, Spares

LEMMA JobEdited ==
    ASSUME NEW own, NEW s, NEW j \in JobType, NEW d \in DiskType, NEW e \in DiskType, e.conf = d.conf,
           e.toml.edits = d.toml.edits + 1, e.toml.pointer \in {d.toml.pointer, "user"},
           JobHolds(own, s, j, d)
    PROVE  JobHolds(own, s, j, e)
<1>1. d.toml.edits \in Nat /\ j.began.toml.edits \in Nat /\ j.expected.edits \in Nat
  BY DEF JobType, DiskType, TomlType
<1>2. CASE j.at \notin {"done", "failed"}
  <2>1. Waiting(j, d) => Waiting(j, e)
    BY <1>1 DEF Waiting, Newer
  <2>2. Written(own, s, j, d) => Written(own, s, j, e)
    BY <1>1 DEF Written
  <2>3. Spares(j, d) /\ d.toml.edits >= j.began.toml.edits => Spares(j, e)
    BY <1>1 DEF Spares
  <2>4. PointsRight(own, d.toml, d.conf) => PointsRight(own, e.toml, e.conf)
    BY DEF PointsRight
  <2>5. Newer(d.toml, j.began.toml) /\ d.toml.edits >= j.began.toml.edits
          => Newer(e.toml, j.began.toml) /\ e.toml.edits >= j.began.toml.edits
    BY <1>1 DEF Newer
  <2>6. s = "ui" /\ j.at \in {"rebuild", "update", "reload", "restart", "reloaded"} => Spares(j, e)
    BY <1>2, <2>3 DEF JobHolds, Waiting, Written
  <2>7. /\ j.at \in {"fetch", "prompt", "write", "rebuild"} => Waiting(j, e)
        /\ j.at \in {"health", "update", "reload", "restart", "reloaded"} => Written(own, s, j, e)
    BY <1>2, <2>1, <2>2 DEF JobHolds
  <2>8. ~(j.kind = "config" /\ j.touches /\ j.at \in {"health", "update"}) => PointsRight(own, e.toml, e.conf)
    BY <1>2, <2>4 DEF JobHolds
  <2>9. j.at = "undoing" => /\ e.conf = j.began.conf
                            /\ Newer(e.toml, j.began.toml) /\ e.toml.edits >= j.began.toml.edits
    BY <1>2, <2>5 DEF JobHolds
  <2> QED BY <1>2, <2>6, <2>7, <2>8, <2>9 DEF JobHolds
<1> QED BY <1>2 DEF JobHolds

-----------------------------------------------------------------------------
(* What a save that fails must leave.                                       *)
LeftAsFound(j, d) ==
    /\ d.conf = j.began.conf /\ d.stateConf = j.began.conf /\ d.selected = j.began.selected
    /\ d.toml.pointer = j.began.toml.pointer \/ d.toml.edits > j.began.toml.edits
FailureRestores ==
    \A s \in Savers :
      job[s].at \notin {"done", "failed"} /\ job'[s].at = "failed" /\ job[s].kind \notin {"switch", "restart"}
        => LeftAsFound(job[s], home')

(* A step of one saver, ... *)
SaveTo(s, k) ==
    /\ \A o \in Savers \ {s} : Free(o)
    /\ job' = [job EXCEPT ![s] = k] /\ k \in JobType
    /\ home' \in DiskType /\ Agree(home') /\ JobHolds(ownToml, s, k, home')
    /\ k.at \in {"done", "failed"} => PointsRight(ownToml, home'.toml, home'.conf)
    /\ k.at = "failed" /\ ~Free(s) /\ job[s].kind \notin {"switch", "restart"}
         => LeftAsFound(job[s], home')

(* ... and what it may do beside it. *)
Beside ==
    /\ UNCHANGED ownToml /\ notes' \in BOOLEAN /\ gw' \in GwType
    /\ timers' \in [save : Nat, undo : Nat]

LEMMA SaveToKeeps ==
    ASSUME SaveInv, NEW s \in Savers, NEW k, SaveTo(s, k), Beside
    PROVE  SaveInv' /\ FailureRestores
<1>1. /\ job' = [job EXCEPT ![s] = k] /\ k \in JobType /\ job \in [Savers -> JobType]
      /\ \A o \in Savers \ {s} : Free(o)
  BY DEF SaveInv, SettingsTypes, SaveTo
<1>2. job' \in [Savers -> JobType] /\ job'[s] = k /\ \A o \in Savers \ {s} : job'[o] = job[o]
  BY <1>1
<1>3. SettingsTypes'
  BY <1>2 DEF SaveTo, Beside, SaveInv, SettingsTypes
<1>4. \A o \in Savers \ {s} : job'[o].at \in {"done", "failed"}
  BY <1>1, <1>2 DEF Free
<1>5. (Free("cli") \/ Free("ui"))'
  BY <1>4 DEF Free, Savers
<1>6. ASSUME NEW o \in Savers PROVE JobHolds(ownToml', o, job'[o], home')
  <2>1. CASE o = s
    BY <2>1, <1>2 DEF SaveTo, Beside
  <2>2. CASE o # s
    BY <2>2, <1>4 DEF JobHolds
  <2> QED BY <2>1, <2>2
<1>7. ((\A o \in Savers : Free(o)) => PointsRight(ownToml, home.toml, home.conf))'
  BY <1>2 DEF Free, SaveTo, Beside
<1>8. FailureRestores
  BY <1>1, <1>2 DEF FailureRestores, SaveTo, Free
<1> QED BY <1>3, <1>5, <1>6, <1>7, <1>8 DEF SaveInv, SaveTo

(* Whether a catalog was published meanwhile does not matter to a job. *)
LEMMA JobMet ==
    ASSUME NEW j \in JobType, NEW b \in BOOLEAN
    PROVE  /\ [j EXCEPT !.met = b] \in JobType /\ [j EXCEPT !.met = b].at = j.at
           /\ \A own, s, d : JobHolds(own, s, j, d) => JobHolds(own, s, [j EXCEPT !.met = b], d)
<1> DEFINE k == [j EXCEPT !.met = b]
<1>1. /\ k \in JobType /\ k.kind = j.kind /\ k.at = j.at /\ k.base = j.base /\ k.want = j.want
      /\ k.touches = j.touches /\ k.began = j.began /\ k.saved = j.saved /\ k.source = j.source
      /\ k.expected = j.expected /\ k.restarts = j.restarts
  BY DEF JobType
<1> HIDE DEF k
<1>2. ASSUME NEW own, NEW s, NEW d, JobHolds(own, s, j, d) PROVE JobHolds(own, s, k, d)
  <2>1. Placed(s, j) => Placed(s, k)
    BY <1>1 DEF Placed
  <2>2. Waiting(j, d) => Waiting(k, d)
    BY <1>1 DEF Waiting, Wants
  <2>3. Remembers(own, j) => Remembers(own, k)
    BY <1>1 DEF Remembers
  <2>4. Written(own, s, j, d) => Written(own, s, k, d)
    BY <1>1 DEF Written
  <2>5. Spares(j, d) => Spares(k, d)
    BY <1>1 DEF Spares
  <2> QED BY <1>1, <1>2, <2>1, <2>2, <2>3, <2>4, <2>5 DEF JobHolds
<1> QED BY <1>1, <1>2 DEF k

LEMMA OvertakenJobs ==
    ASSUME SaveInv, job' \in {job, Overtaken}
    PROVE  /\ job' \in [Savers -> JobType]
           /\ \A s \in Savers :
                /\ job'[s].at = job[s].at
                /\ \A d : JobHolds(ownToml, s, job[s], d) => JobHolds(ownToml, s, job'[s], d)
<1>1. job \in [Savers -> JobType]
  BY DEF SaveInv, SettingsTypes
<1>2. CASE job' = job
  BY <1>1, <1>2
<1>3. CASE job' = Overtaken
  <2>1. ASSUME NEW s \in Savers
        PROVE  /\ job'[s] \in JobType /\ job'[s].at = job[s].at
               /\ \A d : JobHolds(ownToml, s, job[s], d) => JobHolds(ownToml, s, job'[s], d)
    <3> DEFINE b == ~Free(s)
    <3>1. job[s] \in JobType /\ job'[s] = [job[s] EXCEPT !.met = b]
      BY <1>1, <1>3 DEF Overtaken
    <3>2. b \in BOOLEAN
      BY DEF Free
    <3> HIDE DEF b
    <3> QED BY <3>1, <3>2, JobMet
  <2>3. \A s \in Savers : job'[s] \in JobType
    BY <2>1
  <2>5. job' \in [Savers -> JobType]
    BY <1>3, <2>3 DEF Overtaken
  <2> QED BY <2>1, <2>5
<1> QED BY <1>2, <1>3

(* A step of the gateway or of the user. *)
LEMMA AsideKeeps ==
    ASSUME SaveInv, job' \in {job, Overtaken}, Beside, home' \in DiskType, Agree(home'), home'.conf = home.conf,
           \/ home'.toml = home.toml
           \/ /\ home'.toml.edits = home.toml.edits + 1
              /\ home'.toml.pointer \in {home.toml.pointer, "user"}
    PROVE  SaveInv' /\ FailureRestores
<1>1. SettingsTypes'
  BY OvertakenJobs DEF Beside, SaveInv, SettingsTypes
<1>at. \A o \in Savers : job'[o].at = job[o].at
  BY OvertakenJobs
<1>2. ASSUME NEW o \in Savers PROVE JobHolds(ownToml', o, job'[o], home')
  <2>1. JobHolds(ownToml, o, job[o], home) /\ home \in DiskType /\ job[o] \in JobType
    BY DEF SaveInv, SettingsTypes
  <2>2. JobHolds(ownToml, o, job[o], home')
    BY <2>1, JobStill, JobEdited
  <2> QED BY <2>2, OvertakenJobs DEF Beside
<1>3. (Free("cli") \/ Free("ui"))'
  BY <1>at DEF SaveInv, Free, Savers
<1>4. ((\A o \in Savers : Free(o)) => PointsRight(ownToml, home.toml, home.conf))'
  BY <1>at DEF SaveInv, Free, Beside, PointsRight
<1>5. FailureRestores
  BY <1>at DEF FailureRestores
<1> QED BY <1>1, <1>2, <1>3, <1>4, <1>5 DEF SaveInv

LEMMA KickedGw ==
    ASSUME gw \in GwType
    PROVE  /\ Booting \in GwType /\ Down \in GwType
           /\ \A ok \in BOOLEAN : Kicked(ok) => gw' \in GwType
<1>1. Default \in Settings
  BY DEF Default, Settings, Bit
<1> HIDE DEF Default
<1>2. Booting \in GwType /\ Down \in GwType
  BY <1>1 DEF Booting, Down, GwType
<1> QED BY <1>2 DEF Kicked

-----------------------------------------------------------------------------
LEMMA UndoneGw ==
    ASSUME gw \in GwType, NEW j
    PROVE  Undone(j) \in GwType /\ Undone(j).at = gw.at /\ Undone(j).conf = gw.conf
<1>1. gw.lost \union {"catalog"} \in SUBSET Losses /\ gw.lost \in SUBSET Losses
  BY DEF GwType, Losses
<1> QED BY <1>1 DEF Undone, GwType

(* A job that may put its files back. *)
CanFail(s, j) ==
    /\ ~Free(s) /\ j \in JobType /\ j.began = job[s].began /\ j.kind = job[s].kind
    /\ Agree(j.began) /\ Remembers(ownToml, j)
    /\ s = "cli" => ~j.restarts
    /\ s = "ui" => /\ Spares(j, home) /\ home.toml.edits >= j.began.toml.edits
                   /\ home.conf.static = j.began.conf.static
                   /\ PointsRight(ownToml, home.toml, home.conf)

LEMMA HeldJob ==
    ASSUME SaveInv, NEW s \in Savers
    PROVE  /\ JobHolds(ownToml, s, job[s], home) /\ job[s] \in JobType
           /\ ~Free(s) => \A o \in Savers \ {s} : Free(o)
           /\ home \in DiskType /\ Agree(home) /\ home.conf \in Settings /\ home.selected \in Bit
           /\ home.toml \in TomlType /\ home.toml.edits \in Nat /\ job[s].began.toml.edits \in Nat
           /\ job[s].began \in DiskType /\ job[s].saved \in DiskType /\ job[s].want \in Settings
           /\ job[s].source \in TomlType
           /\ gw \in GwType /\ gw.conf \in Settings /\ timers \in [save : Nat, undo : Nat]
           /\ notes \in BOOLEAN /\ ownToml \in BOOLEAN
BY DEF SaveInv, SettingsTypes, Savers, JobType, DiskType, TomlType, GwType

LEMMA HeldCanFail ==
    ASSUME SaveInv, NEW s \in Savers,
           \/ job[s].at \in {"rebuild", "update", "reload", "restart", "reloaded"}
           \/ job[s].at = "health" /\ job[s].kind = "config"
    PROVE  CanFail(s, job[s])
<1> DEFINE j == job[s]
<1>1. JobHolds(ownToml, s, j, home) /\ j \in JobType
  BY HeldJob
<1>2. ~Free(s) /\ j.at \notin {"done", "failed"}
  BY DEF Free
<1>3. Placed(s, j) /\ Agree(j.began)
  BY <1>1, <1>2 DEF JobHolds
<1>4. j.kind # "switch"
  BY <1>3 DEF Placed, Savers
<1>5. Remembers(ownToml, j)
  BY <1>1, <1>4 DEF JobHolds
<1>6. s = "cli" => ~j.restarts
  BY <1>3 DEF Placed
<1>7. ASSUME s = "ui"
      PROVE  /\ Spares(j, home) /\ home.toml.edits >= j.began.toml.edits
             /\ home.conf.static = j.began.conf.static
             /\ PointsRight(ownToml, home.toml, home.conf)
  <2>1. j.kind # "config" /\ j.at \in {"rebuild", "update", "reload", "restart", "reloaded"}
    BY <1>3, <1>7 DEF Placed
  <2> HIDE DEF j
  <2>2. Spares(j, home) /\ PointsRight(ownToml, home.toml, home.conf)
    BY <1>1, <1>7, <2>1 DEF JobHolds
  <2>3. CASE j.at = "rebuild"
    BY <2>2, <2>3, <1>1 DEF JobHolds, Waiting
  <2>4. CASE j.at # "rebuild"
    BY <2>1, <2>2, <2>4, <1>1 DEF JobHolds, Written
  <2> QED BY <2>2, <2>3, <2>4
<1> QED BY <1>1, <1>2, <1>3, <1>5, <1>6, <1>7 DEF CanFail

LEMMA CliFailsKeeps ==
    ASSUME SaveInv, NEW j, CanFail("cli", j), CliFails(j), UNCHANGED ownToml, notes' \in BOOLEAN
    PROVE  SaveInv' /\ FailureRestores
<1>1. "cli" \in Savers /\ j \in JobType /\ j.saved \in DiskType /\ ~Free("cli")
  BY DEF Savers, CanFail, JobType
<1>2. \A o \in Savers \ {"cli"} : Free(o)
  BY <1>1, HeldJob
<1>3. /\ Agree(j.saved) /\ PointsRight(ownToml, j.saved.toml, j.saved.conf)
      /\ j.saved.conf = j.began.conf /\ Newer(j.saved.toml, j.began.toml)
      /\ j.saved.toml.edits >= j.began.toml.edits /\ Agree(j.began) /\ ~j.restarts
  BY DEF CanFail, Remembers
<1>4. LeftAsFound(job["cli"], j.saved)
  BY <1>3 DEF LeftAsFound, Agree, CanFail, Newer
<1>5. CASE j.kind # "config"
  <2>1. home' = j.saved /\ job' = [job EXCEPT !["cli"] = Resting("failed")]
        /\ UNCHANGED timers /\ gw' = Undone(j)
    BY <1>5 DEF CliFails, CliRestored, Ends
  <2>2. SaveTo("cli", Resting("failed"))
    BY <1>1, <1>2, <1>3, <1>4, <2>1, RestingJob DEF SaveTo
  <2>3. Beside
    BY <1>1, <2>1, HeldJob, UndoneGw DEF Beside
  <2> QED BY <1>1, <2>2, <2>3, SaveToKeeps
<1>6. CASE j.kind = "config"
  <2> DEFINE d == Marked(j.saved)
             k == [j EXCEPT !.at = "undoing"]
  <2>1. PICK ok \in BOOLEAN :
          /\ home' = d /\ UNCHANGED timers /\ Kicked(ok)
          /\ IF ok THEN job' = [job EXCEPT !["cli"] = k]
                   ELSE job' = [job EXCEPT !["cli"] = Resting("failed")]
    BY <1>6 DEF CliFails, CliRestored, Ends
  <2>2. /\ d \in DiskType /\ Agree(d) /\ LeftAsFound(job["cli"], d) /\ d.conf = j.began.conf
        /\ d.toml = j.saved.toml /\ PointsRight(ownToml, d.toml, d.conf)
    BY <1>1, <1>3, <1>4, MarkedFiles DEF Agree, LeftAsFound
  <2>3. gw' \in GwType
    BY <1>1, <2>1, HeldJob, KickedGw
  <2>4. Beside
    BY <1>1, <2>1, <2>3, HeldJob DEF Beside
  <2> HIDE DEF d
  <2>5. k \in JobType /\ k.at = "undoing" /\ k.kind = "config" /\ k.began = j.began /\ k.restarts = j.restarts
    BY <1>1, <1>6 DEF JobType, JobStages
  <2> HIDE DEF k
  <2>6. JobHolds(ownToml, "cli", k, d)
    BY <1>3, <2>2, <2>5 DEF JobHolds, Placed
  <2>7. CASE ok
    <3>1. SaveTo("cli", k)
      BY <1>2, <2>1, <2>2, <2>5, <2>6, <2>7 DEF SaveTo
    <3> QED BY <1>1, <2>4, <3>1, SaveToKeeps
  <2>8. CASE ~ok
    <3>1. SaveTo("cli", Resting("failed"))
      BY <1>2, <2>1, <2>2, <2>8, RestingJob DEF SaveTo
    <3> QED BY <1>1, <2>4, <3>1, SaveToKeeps
  <2> QED BY <2>7, <2>8
<1> QED BY <1>5, <1>6

LEMMA UiFailsKeeps ==
    ASSUME SaveInv, NEW j, CanFail("ui", j), UiFails(j), UNCHANGED ownToml, notes' \in BOOLEAN
    PROVE  SaveInv' /\ FailureRestores
<1>1. "ui" \in Savers /\ j \in JobType /\ j.saved \in DiskType /\ ~Free("ui")
  BY DEF Savers, CanFail, JobType
<1>2. \A o \in Savers \ {"ui"} : Free(o)
  BY <1>1, HeldJob
<1>3. /\ Agree(j.saved) /\ PointsRight(ownToml, j.saved.toml, j.saved.conf)
      /\ j.saved.conf = j.began.conf /\ Newer(j.saved.toml, j.began.toml)
      /\ Agree(j.began) /\ home.toml.edits >= j.began.toml.edits
      /\ home.conf.static = j.began.conf.static /\ PointsRight(ownToml, home.toml, home.conf)
      /\ home.toml = j.expected \/ home.toml.edits > j.began.toml.edits
  BY DEF CanFail, Remembers, Spares
<1>4. home.toml \in TomlType /\ home.toml.edits \in Nat /\ j.began.toml.edits \in Nat
  BY <1>1, HeldJob DEF JobType, DiskType, TomlType
<1> DEFINE t == IF home.toml # j.expected THEN home.toml ELSE j.saved.toml
           d == [j.saved EXCEPT !.toml = t]
<1>5. home' = d /\ job' = [job EXCEPT !["ui"] = Resting("failed")] /\ gw' = Undone(j)
      /\ timers' = IF j.restarts THEN [timers EXCEPT !.undo = @ + 1] ELSE timers
  BY DEF UiFails, UiRestored, Ends
<1>6. /\ t \in TomlType /\ PointsRight(ownToml, t, j.saved.conf)
      /\ t.pointer = j.began.toml.pointer \/ t.edits > j.began.toml.edits
      /\ t.edits = 0 => j.saved.hash = t
  <2>1. CASE home.toml # j.expected
    BY <1>3, <1>4, <2>1 DEF PointsRight
  <2>2. CASE home.toml = j.expected
    BY <1>1, <1>3, <2>2 DEF DiskType, Newer, Agree
  <2> QED BY <2>1, <2>2
<1> HIDE DEF t
<1>7. /\ d \in DiskType /\ d.toml = t /\ d.conf = j.saved.conf /\ d.stateConf = j.saved.stateConf
      /\ d.selected = j.saved.selected /\ d.hash = j.saved.hash
  BY <1>1, <1>6 DEF DiskType
<1> HIDE DEF d
<1>8. Agree(d) /\ LeftAsFound(job["ui"], d) /\ PointsRight(ownToml, d.toml, d.conf)
  BY <1>3, <1>6, <1>7 DEF Agree, LeftAsFound, CanFail
<1>9. SaveTo("ui", Resting("failed"))
  BY <1>2, <1>5, <1>7, <1>8, RestingJob DEF SaveTo
<1>10. Beside
  BY <1>1, <1>5, HeldJob, UndoneGw DEF Beside
<1> QED BY <1>1, <1>9, <1>10, SaveToKeeps

LEMMA FailsKeeps ==
    ASSUME SaveInv, NEW s \in Savers, NEW j, CanFail(s, j), Fails(s, j), UNCHANGED ownToml,
           notes' \in BOOLEAN
    PROVE  SaveInv' /\ FailureRestores
BY CliFailsKeeps, UiFailsKeeps DEF Fails, Savers

(* A job that has written its settings, or is about to, begins the update. *)
SaveReady(s, j, d) ==
    /\ d \in DiskType /\ Agree(d) /\ d.toml = home.toml /\ j.want = d.conf
    /\ s = "cli" => j.kind \in {"sync", "exclude", "config"}
    /\ s = "ui" => j.kind \in UiKinds
    /\ j.kind # "config" => d.conf.static = j.began.conf.static
    /\ ~(j.kind = "config" /\ j.touches) => PointsRight(ownToml, d.toml, d.conf)
    /\ (s = "ui" /\ ~j.restarts) \/ j.kind \in {"sync", "exclude"} => d.conf.switch = j.began.conf.switch
    /\ d.toml.edits >= j.began.toml.edits

LEMMA BeginUpdateKeeps ==
    ASSUME SaveInv, NEW s \in Savers, NEW j, NEW d, CanFail(s, j), SaveReady(s, j, d), BeginUpdate(s, j, d),
           UNCHANGED <<ownToml, notes>>
    PROVE  SaveInv' /\ FailureRestores
<1>1. CASE Refuses(d)
  BY <1>1, FailsKeeps, HeldJob DEF BeginUpdate
<1>2. CASE ~Refuses(d)
  <2> DEFINE k == [j EXCEPT !.at = "update", !.source = d.toml]
  <2>1. home' = d /\ job' = [job EXCEPT ![s] = k] /\ UNCHANGED <<gw, timers>>
    BY <1>2 DEF BeginUpdate
  <2>2. /\ k \in JobType /\ k.at = "update" /\ k.source = d.toml /\ k.kind = j.kind /\ k.began = j.began
        /\ k.want = j.want /\ k.saved = j.saved /\ k.expected = j.expected /\ k.restarts = j.restarts
        /\ k.touches = j.touches
    BY DEF CanFail, SaveReady, JobType, DiskType, JobStages
  <2> HIDE DEF k
  <2>3. Placed(s, k)
    BY <2>2 DEF Placed, SaveReady, CanFail, Savers, UiKinds
  <2>4. Written(ownToml, s, k, d)
    BY <1>2, <2>2 DEF Written, SaveReady, Refuses
  <2>5. Remembers(ownToml, k) /\ Agree(k.began) /\ (s = "ui" => Spares(k, d))
    BY <2>2 DEF Remembers, CanFail, Spares, SaveReady
  <2>6. JobHolds(ownToml, s, k, d)
    BY <2>2, <2>3, <2>4, <2>5 DEF JobHolds, SaveReady
  <2>7. SaveTo(s, k)
    BY <2>1, <2>2, <2>6, HeldJob DEF SaveTo, SaveReady, CanFail
  <2>8. Beside
    BY <2>1, HeldJob DEF Beside
  <2> QED BY <2>7, <2>8, SaveToKeeps
<1> QED BY <1>1, <1>2

(* The update leaves config.toml pointing where the settings say.           *)
LEMMA UpdatedFiles ==
    ASSUME SaveInv, NEW s \in Savers, job[s].at = "update", ~Conflict(job[s])
    PROVE  LET u == Updated(job[s]) IN
           /\ u \in DiskType /\ Agree(u) /\ u.conf = home.conf /\ u.pending = home.pending
           /\ u.selected = home.selected /\ u.toml.edits = home.toml.edits
           /\ PointsRight(ownToml, u.toml, u.conf)
           /\ u.merged = IF home.conf.static THEN Merge(home.conf, home.selected) ELSE home.merged
<1> DEFINE j == job[s]
           d == PublishCatalog(home, j.want)
           t == Pointed(j.source, j.want)
           u == Updated(j)
<1>1. /\ home \in DiskType /\ Agree(home) /\ j.source \in TomlType /\ j.want \in Settings
      /\ JobHolds(ownToml, s, j, home) /\ ownToml \in BOOLEAN
  BY HeldJob
<1>2. /\ j.want = home.conf /\ home.toml.pointer \in {j.source.pointer, "user"}
      /\ j.source.pointer = "user" => ownToml
  BY <1>1 DEF JobHolds, Written
<1>3. /\ d \in DiskType /\ d.conf = home.conf /\ d.pending = home.pending /\ d.stateConf = home.stateConf
      /\ d.hash = home.hash /\ d.toml = home.toml /\ d.selected = home.selected
      /\ d.merged = IF home.conf.static THEN Merge(home.conf, home.selected) ELSE home.merged
  BY <1>1, <1>2, Published
<1>4. t \in TomlType /\ t.edits = j.source.edits /\ PointsRight(ownToml, t, home.conf)
  BY <1>1, <1>2, PointedToml
<1> HIDE DEF d, t, j
<1>5. CASE t # j.source
  <2>1. home.toml = j.source
    BY <1>5 DEF Conflict, Changes, t, j
  <2>2. u = [d EXCEPT !.toml = t, !.hash = IF @ = j.source THEN t ELSE @]
    BY <1>5 DEF Updated, Changes, t, d, j
  <2>3. /\ u \in DiskType /\ u.toml = t /\ u.conf = d.conf /\ u.pending = d.pending /\ u.stateConf = d.stateConf
        /\ u.selected = d.selected /\ u.merged = d.merged /\ u.hash = IF d.hash = j.source THEN t ELSE d.hash
    BY <1>3, <1>4, <2>2 DEF DiskType
  <2> HIDE DEF u
  <2> QED BY <1>1, <1>3, <1>4, <2>1, <2>3 DEF Agree, u, j
<1>6. CASE t = j.source
  <2>1. u = d
    BY <1>6 DEF Updated, Changes, t, d, j
  <2>2. PointsRight(ownToml, home.toml, home.conf)
    BY <1>2, <1>4, <1>6 DEF PointsRight
  <2> HIDE DEF u
  <2> QED BY <1>1, <1>3, <2>1, <2>2 DEF Agree, u, j
<1> QED BY <1>5, <1>6

-----------------------------------------------------------------------------
(* A job begins, while nobody else saves. *)
Opens(s, kind, at, want, touches) ==
    /\ <<s, kind, at>> \in {<<"cli", "sync", "fetch">>, <<"cli", "exclude", "prompt">>,
                            <<"cli", "config", "write">>, <<"cli", "restart", "write">>,
                            <<"cli", "switch", "prompt">>, <<"ui", "uimodels", "fetch">>,
                            <<"ui", "uiconfig", "fetch">>, <<"ui", "uiswitch", "write">>}
    /\ kind # "config" \/ ~touches => want.static = home.conf.static
    /\ kind \in {"sync", "exclude", "restart", "uimodels"} => want.switch = home.conf.switch
    /\ kind \notin {"sync", "uimodels", "uiconfig"} => want.models = home.conf.models
    /\ kind \in {"sync", "config", "restart", "switch", "uimodels"} => want.excluded = home.conf.excluded
    /\ kind \in {"uimodels", "uiconfig"} => touches
    /\ kind = "uiswitch" /\ want.excluded # home.conf.excluded => touches

LEMMA EnterKeeps ==
    ASSUME ~Overlap, SaveInv, NEW s \in Savers, NEW kind, NEW at, NEW want \in Settings,
           NEW touches \in BOOLEAN, Opens(s, kind, at, want, touches),
           Enter(s, Job(kind, at, want, touches)), UNCHANGED <<ownToml, home, gw, notes, timers>>
    PROVE  SaveInv' /\ FailureRestores
<1> DEFINE j == Job(kind, at, want, touches)
<1>1. \A o \in Savers : Free(o)
  BY DEF Enter
<1>2. SettingsTypes /\ Agree(home) /\ PointsRight(ownToml, home.toml, home.conf) /\ home.toml.edits \in Nat
  BY <1>1, HeldJob DEF SaveInv
<1>3. kind \in CliKinds \union UiKinds /\ at \in JobStages /\ at \in {"fetch", "prompt", "write"}
  BY DEF Opens, CliKinds, UiKinds, JobStages
<1>4. /\ j \in JobType /\ j.at = at /\ j.base = home.conf /\ j.began = home /\ j.kind = kind
      /\ j.want = want /\ j.touches = touches /\ j.restarts = FALSE
  <2>1. home \in DiskType /\ home.conf \in Settings
    BY <1>2 DEF SettingsTypes, DiskType
  <2> HIDE DEF Nothing
  <2> QED BY <1>3, <2>1, NothingTyped DEF j, Job, JobType
<1>5. job' = [job EXCEPT ![s] = j]
  BY DEF Enter
<1> HIDE DEF j
<1>6. Placed(s, j)
  BY <1>4 DEF Placed, Opens
<1>7. Waiting(j, home)
  BY <1>2, <1>4 DEF Waiting, Newer, Wants, Opens
<1>8. JobHolds(ownToml, s, j, home)
  BY <1>2, <1>3, <1>4, <1>6, <1>7 DEF JobHolds
<1>9. SaveTo(s, j)
  BY <1>1, <1>2, <1>3, <1>4, <1>5, <1>8, HeldJob DEF SaveTo
<1>10. Beside
  BY HeldJob DEF Beside
<1> QED BY <1>9, <1>10, SaveToKeeps

(* A job ends and leaves the files as they are. *)
LEMMA EndsKeeps ==
    ASSUME SaveInv, NEW s \in Savers, ~Free(s), NEW at \in {"done", "failed"}, Ends(s, at), Beside,
           home' \in DiskType, Agree(home'), PointsRight(ownToml, home'.toml, home'.conf),
           at = "failed" /\ job[s].kind \notin {"switch", "restart"} => LeftAsFound(job[s], home')
    PROVE  SaveInv' /\ FailureRestores
<1>1. SaveTo(s, Resting(at))
  BY HeldJob, RestingJob DEF SaveTo, Ends
<1> QED BY <1>1, SaveToKeeps

LEMMA RestartsKeeps ==
    ASSUME SaveInv, NEW j \in JobType, NEW d \in DiskType, ~Free("cli"),
           j.began = job["cli"].began, j.kind = job["cli"].kind, j.kind \in {"config", "restart", "switch"},
           ~j.restarts, Agree(j.began), j.kind # "switch" => Remembers(ownToml, j),
           j.want = d.conf, Agree(d), d.toml = home.toml, d.toml.edits >= j.began.toml.edits,
           j.kind # "config" => d.conf.static = j.began.conf.static,
           ~(j.kind = "config" /\ j.touches) => PointsRight(ownToml, d.toml, d.conf),
           Restarts(j, d), UNCHANGED <<ownToml, notes>>
    PROVE  SaveInv' /\ FailureRestores
<1> DEFINE m == Marked(d)
           k == [j EXCEPT !.at = "health"]
<1>1. "cli" \in Savers
  BY DEF Savers
<1>2. m \in DiskType /\ Agree(m) /\ m.toml = d.toml /\ m.conf = d.conf
  BY MarkedFiles DEF Agree
<1>3. PICK ok \in BOOLEAN :
        IF ok
        THEN /\ home' = m /\ gw' = Booting /\ UNCHANGED timers
             /\ job' = [job EXCEPT !["cli"] = k]
        ELSE IF j.kind = "config" THEN CliFails(j)
        ELSE home' = m /\ Ends("cli", "failed") /\ UNCHANGED <<gw, timers>>
  BY DEF Restarts
<1> HIDE DEF m
<1>4. CASE ok
  <2>1. /\ k \in JobType /\ k.at = "health" /\ k.kind = j.kind /\ k.began = j.began /\ k.want = j.want
        /\ k.saved = j.saved /\ k.restarts = j.restarts /\ k.touches = j.touches
    BY DEF JobType, JobStages
  <2>2. home' = m /\ gw' = Booting /\ UNCHANGED timers /\ job' = [job EXCEPT !["cli"] = k]
    BY <1>3, <1>4
  <2> HIDE DEF k
  <2>3. Written(ownToml, "cli", k, m)
    BY <1>2, <2>1 DEF Written
  <2>4. k.kind # "switch" => Remembers(ownToml, k)
    BY <2>1 DEF Remembers
  <2>5. JobHolds(ownToml, "cli", k, m)
    BY <1>2, <2>1, <2>3, <2>4 DEF JobHolds, Placed
  <2>6. SaveTo("cli", k)
    BY <1>1, <1>2, <2>1, <2>2, <2>5, HeldJob DEF SaveTo
  <2>7. Beside
    BY <1>1, <2>2, HeldJob, KickedGw DEF Beside
  <2> QED BY <1>1, <2>6, <2>7, SaveToKeeps
<1>5. CASE ~ok /\ j.kind = "config"
  <2>1. CanFail("cli", j)
    BY <1>5 DEF CanFail
  <2> QED BY <1>1, <1>3, <1>5, <2>1, CliFailsKeeps, HeldJob
<1>6. CASE ~ok /\ j.kind # "config"
  <2>1. Beside
    BY <1>1, <1>3, <1>6, HeldJob DEF Beside
  <2> QED BY <1>1, <1>2, <1>3, <1>6, <2>1, EndsKeeps
<1> QED BY <1>4, <1>5, <1>6

-----------------------------------------------------------------------------
(* The steps of the gateway and of the user leave what is saved alone. *)
LEMMA GatewaySteps ==
    ASSUME SaveInv,
           \/ GwLoad \/ GwClear \/ GwReady \/ GwReload \/ GwExit \/ EditToml
           \/ \E k \in {"save", "undo"} : TimerFires(k)
    PROVE  SaveInv' /\ FailureRestores
<1>1. /\ home \in DiskType /\ Agree(home) /\ home.conf \in Settings /\ gw \in GwType /\ gw.conf \in Settings
      /\ ownToml \in BOOLEAN /\ notes \in BOOLEAN /\ timers \in [save : Nat, undo : Nat]
      /\ home.toml \in TomlType /\ home.toml.edits \in Nat
  BY HeldJob DEF Savers
<1>2. \A c \in Settings : Reloaded(c, home) \in Settings
  BY <1>1 DEF Reloaded, Settings
<1>3. \A c \in Settings : /\ PublishCatalog(home, c) \in DiskType /\ Agree(PublishCatalog(home, c))
                          /\ PublishCatalog(home, c).conf = home.conf
                          /\ PublishCatalog(home, c).toml = home.toml
  BY <1>1, Published DEF Agree
<1>4. CASE GwLoad
  <2>1. Beside
    BY <1>1, <1>4 DEF GwLoad, Beside, GwType, Losses
  <2> QED BY <1>1, <1>4, <2>1, AsideKeeps DEF GwLoad
<1>5. CASE GwClear
  <2>m. gw.lost \in SUBSET Losses /\ gw.lost \union {"mark"} \in SUBSET Losses
    BY <1>1 DEF GwType, Losses
  <2>1. Beside
    BY <1>1, <1>5, <2>m DEF GwClear, Beside, GwType
  <2>2. home' \in DiskType /\ home'.conf = home.conf /\ home'.toml = home.toml /\ Agree(home')
    BY <1>1, <1>5 DEF GwClear, DiskType, Agree
  <2> QED BY <1>5, <2>1, <2>2, AsideKeeps DEF GwClear
<1>6. CASE GwReady
  <2>1. Beside
    BY <1>1, <1>6 DEF GwReady, Beside, GwType
  <2> QED BY <1>1, <1>3, <1>6, <2>1, AsideKeeps DEF GwReady
<1>7. CASE GwReload
  <2>1. gw' \in GwType /\ gw'.conf \in Settings
    BY <1>1, <1>2, <1>7 DEF GwReload, GwType
  <2>2. Beside
    BY <1>1, <1>7, <2>1 DEF GwReload, Beside
  <2> QED BY <1>3, <1>7, <2>1, <2>2, AsideKeeps DEF GwReload
<1>8. CASE GwExit
  <2>1. Beside
    BY <1>1, <1>8, KickedGw DEF GwExit, Beside
  <2> QED BY <1>1, <1>8, <2>1, AsideKeeps DEF GwExit
<1>9. CASE EditToml
  <2>1. PICK p \in {home.toml.pointer, "user"} :
          home' = [home EXCEPT !.toml = [edits |-> home.toml.edits + 1, pointer |-> p]]
    BY <1>9 DEF EditToml
  <2>2. [edits |-> home.toml.edits + 1, pointer |-> p] \in TomlType
    BY <1>1, <2>1 DEF TomlType, Pointers
  <2>3. /\ home' \in DiskType /\ Agree(home') /\ home'.conf = home.conf
        /\ home'.toml.edits = home.toml.edits + 1 /\ home'.toml.pointer = p
    BY <1>1, <2>1, <2>2 DEF DiskType, Agree
  <2>4. Beside
    BY <1>1, <1>9 DEF EditToml, Beside
  <2> QED BY <1>9, <2>1, <2>3, <2>4, AsideKeeps DEF EditToml
<1>10. ASSUME NEW k \in {"save", "undo"}, TimerFires(k) PROVE SaveInv' /\ FailureRestores
  <2>1. timers' \in [save : Nat, undo : Nat]
    BY <1>1, <1>10 DEF TimerFires
  <2>3. gw.lost \in SUBSET Losses /\ gw.lost \union {"mark"} \in SUBSET Losses
    BY <1>1 DEF GwType, Losses
  <2>4. [gw EXCEPT !.lost = @ \union {"mark"}] \in GwType
    BY <1>1, <2>3 DEF GwType
  <2>2. Beside
    BY <1>1, <1>10, <2>1, <2>4, KickedGw DEF TimerFires, Beside
  <2> QED BY <1>1, <1>10, <2>2, AsideKeeps DEF TimerFires
<1> QED BY <1>4, <1>5, <1>6, <1>7, <1>8, <1>9, <1>10

(* A command or a save begins. *)
LEMMA SaveBegins ==
    ASSUME ~Overlap, SaveInv,
           \/ Sync \/ Exclude \/ Config \/ RestartService \/ SwitchAccount
           \/ UiModels \/ UiConfig \/ UiSwitch
    PROVE  SaveInv' /\ FailureRestores
<1>1. SettingsTypes /\ home.conf \in Settings /\ "cli" \in Savers /\ "ui" \in Savers
  BY HeldJob DEF Savers, SaveInv
<1>2. CASE Sync
  <2>1. PICK m \in Bit : Enter("cli", Job("sync", "fetch", [home.conf EXCEPT !.models = m], TRUE))
    BY <1>2 DEF Sync
  <2> DEFINE w == [home.conf EXCEPT !.models = m]
  <2>2. /\ w \in Settings /\ w.static = home.conf.static /\ w.switch = home.conf.switch
        /\ w.excluded = home.conf.excluded
    BY <1>1 DEF Settings
  <2> HIDE DEF w
  <2>3. Opens("cli", "sync", "fetch", w, TRUE)
    BY <1>1, <2>2 DEF Opens
  <2> QED BY <1>1, <1>2, <2>1, <2>2, <2>3, EnterKeeps DEF Sync, w
<1>3. CASE Exclude
  <2>1. PICK e \in Bit : Enter("cli", Job("exclude", "prompt", [home.conf EXCEPT !.excluded = e], TRUE))
    BY <1>3 DEF Exclude
  <2> DEFINE w == [home.conf EXCEPT !.excluded = e]
  <2>2. /\ w \in Settings /\ w.static = home.conf.static /\ w.switch = home.conf.switch
        /\ w.models = home.conf.models
    BY <1>1 DEF Settings
  <2> HIDE DEF w
  <2>3. Opens("cli", "exclude", "prompt", w, TRUE)
    BY <1>1, <2>2 DEF Opens
  <2> QED BY <1>1, <1>3, <2>1, <2>2, <2>3, EnterKeeps DEF Exclude, w
<1>4. CASE Config
  <2>1. PICK static \in BOOLEAN, switch \in Bit, touches \in BOOLEAN :
          /\ static # home.conf.static => touches
          /\ Enter("cli", Job("config", "write", [home.conf EXCEPT !.static = static, !.switch = switch], touches))
    BY <1>4 DEF Config
  <2> DEFINE w == [home.conf EXCEPT !.static = static, !.switch = switch]
  <2>2. /\ w \in Settings /\ w.static = static /\ w.models = home.conf.models
        /\ w.excluded = home.conf.excluded
    BY <1>1 DEF Settings
  <2> HIDE DEF w
  <2>3. Opens("cli", "config", "write", w, touches)
    BY <1>1, <2>1, <2>2 DEF Opens
  <2> QED BY <1>1, <1>4, <2>1, <2>2, <2>3, EnterKeeps DEF Config, w
<1>5. CASE RestartService
  <2>1. Opens("cli", "restart", "write", home.conf, FALSE)
    BY <1>1 DEF Opens
  <2> QED BY <1>1, <1>5, <2>1, EnterKeeps DEF RestartService
<1>6. CASE SwitchAccount
  <2>1. PICK a \in Bit : Enter("cli", Job("switch", "prompt", [home.conf EXCEPT !.switch = a], FALSE))
    BY <1>6 DEF SwitchAccount
  <2> DEFINE w == [home.conf EXCEPT !.switch = a]
  <2>2. /\ w \in Settings /\ w.static = home.conf.static /\ w.models = home.conf.models
        /\ w.excluded = home.conf.excluded
    BY <1>1 DEF Settings
  <2> HIDE DEF w
  <2>3. Opens("cli", "switch", "prompt", w, FALSE)
    BY <1>1, <2>2 DEF Opens
  <2> QED BY <1>1, <1>6, <2>1, <2>2, <2>3, EnterKeeps DEF SwitchAccount, w
<1>7. CASE UiModels
  <2>1. PICK m \in Bit : Enter("ui", Job("uimodels", "fetch", [home.conf EXCEPT !.models = m], TRUE))
    BY <1>7 DEF UiModels
  <2> DEFINE w == [home.conf EXCEPT !.models = m]
  <2>2. /\ w \in Settings /\ w.static = home.conf.static /\ w.switch = home.conf.switch
        /\ w.excluded = home.conf.excluded
    BY <1>1 DEF Settings
  <2> HIDE DEF w
  <2>3. Opens("ui", "uimodels", "fetch", w, TRUE)
    BY <1>1, <2>2 DEF Opens
  <2> QED BY <1>1, <1>7, <2>1, <2>2, <2>3, EnterKeeps DEF UiModels, w
<1>8. CASE UiConfig
  <2>1. PICK switch \in Bit, models \in Bit, excluded \in Bit :
          Enter("ui", Job("uiconfig", "fetch",
                          [home.conf EXCEPT !.switch = switch, !.models = models, !.excluded = excluded], TRUE))
    BY <1>8 DEF UiConfig
  <2> DEFINE w == [home.conf EXCEPT !.switch = switch, !.models = models, !.excluded = excluded]
  <2>2. w \in Settings /\ w.static = home.conf.static
    BY <1>1 DEF Settings
  <2> HIDE DEF w
  <2>3. Opens("ui", "uiconfig", "fetch", w, TRUE)
    BY <1>1, <2>2 DEF Opens
  <2> QED BY <1>1, <1>8, <2>1, <2>2, <2>3, EnterKeeps DEF UiConfig, w
<1>9. CASE UiSwitch
  <2>1. PICK switch \in Bit, excluded \in Bit, touches \in BOOLEAN :
          /\ excluded # home.conf.excluded => touches
          /\ Enter("ui", Job("uiswitch", "write",
                             [home.conf EXCEPT !.switch = switch, !.excluded = excluded], touches))
    BY <1>9 DEF UiSwitch
  <2> DEFINE w == [home.conf EXCEPT !.switch = switch, !.excluded = excluded]
  <2>2. /\ w \in Settings /\ w.static = home.conf.static /\ w.models = home.conf.models
        /\ w.excluded = excluded
    BY <1>1 DEF Settings
  <2> HIDE DEF w
  <2>3. Opens("ui", "uiswitch", "write", w, touches)
    BY <1>1, <2>1, <2>2 DEF Opens
  <2>4. UNCHANGED <<ownToml, home, gw, notes, timers>>
    BY <1>9 DEF UiSwitch
  <2> QED BY <1>1, <2>1, <2>2, <2>3, <2>4, EnterKeeps DEF w
<1> QED BY <1>2, <1>3, <1>4, <1>5, <1>6, <1>7, <1>8, <1>9

(* What is known of a job that has not written yet, and of one that has. *)
LEMMA HeldWaiting ==
    ASSUME SaveInv, NEW s \in Savers, job[s].at \in {"fetch", "prompt", "write", "rebuild"}
    PROVE  /\ ~Free(s) /\ Placed(s, job[s]) /\ Agree(job[s].began) /\ ~job[s].restarts
           /\ job[s].base = home.conf /\ job[s].began.conf = home.conf /\ Wants(job[s])
           /\ Newer(home.toml, job[s].began.toml) /\ home.toml.edits >= job[s].began.toml.edits
           /\ PointsRight(ownToml, home.toml, home.conf)
           /\ LeftAsFound(job[s], home)
<1> DEFINE j == job[s]
<1>1. JobHolds(ownToml, s, j, home) /\ Agree(home)
  BY HeldJob
<1>2. j.at \in {"fetch", "prompt", "write", "rebuild"}
  OBVIOUS
<1>3. ~Free(s)
  BY DEF Free
<1> HIDE DEF j
<1>4. Placed(s, j) /\ Agree(j.began) /\ Waiting(j, home) /\ PointsRight(ownToml, home.toml, home.conf)
  BY <1>1, <1>2 DEF JobHolds
<1>5. ~j.restarts
  BY <1>2, <1>4 DEF Placed
<1>6. LeftAsFound(j, home)
  BY <1>1, <1>4 DEF Waiting, LeftAsFound, Newer, Agree
<1> QED BY <1>3, <1>4, <1>5, <1>6 DEF Waiting, j

LEMMA HeldWritten ==
    ASSUME SaveInv, NEW s \in Savers,
           job[s].at \in {"health", "update", "reload", "restart", "reloaded"}
    PROVE  /\ ~Free(s) /\ Placed(s, job[s]) /\ Agree(job[s].began) /\ Written(ownToml, s, job[s], home)
           /\ job[s].kind # "switch" => Remembers(ownToml, job[s])
           /\ ~(job[s].kind = "config" /\ job[s].touches /\ job[s].at \in {"health", "update"})
                => PointsRight(ownToml, home.toml, home.conf)
<1>1. JobHolds(ownToml, s, job[s], home)
  BY HeldJob
<1> QED BY <1>1 DEF JobHolds, Free

(* The variants of a job with the files it remembers. *)
LEMMA RememberedFiles ==
    ASSUME SaveInv, NEW s \in Savers, job[s].at \in {"fetch", "prompt", "write", "rebuild"},
           NEW k \in JobType, k.began = job[s].began, k.saved = home
    PROVE  Remembers(ownToml, k)
BY HeldWaiting, HeldJob DEF Remembers

(* The steps of commands. *)
LEMMA CommandSteps ==
    ASSUME SaveInv,
           \/ SyncFetched \/ SyncWrites \/ ExcludeWrites \/ Canceled \/ WritesAndRestarts \/ AccountChosen
    PROVE  SaveInv' /\ FailureRestores
<1> DEFINE j == job["cli"]
<1>1. /\ "cli" \in Savers /\ j \in JobType /\ home \in DiskType /\ Agree(home) /\ home.conf \in Settings
      /\ home.selected \in Bit /\ j.want \in Settings /\ home.toml.edits \in Nat
      /\ gw \in GwType /\ timers \in [save : Nat, undo : Nat] /\ notes \in BOOLEAN
      /\ JobHolds(ownToml, "cli", j, home)
  BY HeldJob DEF Savers
<1>2. CASE SyncFetched
  <2> DEFINE k == [j EXCEPT !.saved = home, !.at = "rebuild", !.met = FALSE]
  <2>1. j.at = "fetch" /\ job' = [job EXCEPT !["cli"] = k] /\ UNCHANGED <<ownToml, home, gw, notes, timers>>
    BY <1>1, <1>2 DEF SyncFetched, SaveInv, SettingsTypes
  <2>2. /\ k \in JobType /\ k.at = "rebuild" /\ k.saved = home /\ k.began = j.began /\ k.kind = j.kind
        /\ k.base = j.base /\ k.want = j.want /\ k.touches = j.touches /\ k.restarts = j.restarts
    BY <1>1 DEF JobType, JobStages
  <2>3. Remembers(ownToml, k)
    BY <1>1, <2>1, <2>2, RememberedFiles
  <2>w. /\ ~Free("cli") /\ Placed("cli", j) /\ Agree(j.began) /\ ~j.restarts
        /\ j.base = home.conf /\ j.began.conf = home.conf /\ Wants(j)
        /\ Newer(home.toml, j.began.toml) /\ home.toml.edits >= j.began.toml.edits
        /\ PointsRight(ownToml, home.toml, home.conf)
    BY <1>1, <2>1, HeldWaiting
  <2> HIDE DEF k, j
  <2>4. Waiting(k, home)
    BY <2>w, <2>2 DEF Waiting, Wants
  <2>5. Placed("cli", k)
    BY <2>w, <2>1, <2>2 DEF Placed
  <2>6. JobHolds(ownToml, "cli", k, home)
    BY <2>w, <2>2, <2>3, <2>4, <2>5 DEF JobHolds
  <2>7. SaveTo("cli", k)
    BY <1>1, <2>w, <2>1, <2>2, <2>6, HeldJob DEF SaveTo
  <2>8. Beside
    BY <1>1, <2>1 DEF Beside
  <2> QED BY <1>1, <2>7, <2>8, SaveToKeeps
<1>3. CASE SyncWrites
  <2> DEFINE h == [home EXCEPT !.selected = j.want.models]
             d == Wrote(h, j.want)
  <2>1. /\ j.kind = "sync" /\ j.at = "rebuild" /\ BeginUpdate("cli", j, d)
        /\ UNCHANGED <<ownToml, notes>>
    BY <1>3 DEF SyncWrites
  <2>2. CanFail("cli", j)
    BY <1>1, <2>1, HeldCanFail
  <2>w. /\ j.base = home.conf /\ j.began.conf = home.conf /\ Wants(j)
        /\ home.toml.edits >= j.began.toml.edits /\ PointsRight(ownToml, home.toml, home.conf)
    BY <1>1, <2>1, HeldWaiting
  <2>3. h \in DiskType /\ h.selected = j.want.models /\ h.toml = home.toml /\ h.hash = home.hash
    BY <1>1 DEF DiskType, Settings
  <2> HIDE DEF h
  <2>4. /\ d \in DiskType /\ d.conf = j.want /\ d.stateConf = j.want /\ d.hash = home.hash
        /\ d.toml = home.toml /\ d.selected = j.want.models
    BY <1>1, <2>3, WroteFiles
  <2> HIDE DEF d, j
  <2>5. SaveReady("cli", j, d)
    BY <1>1, <2>1, <2>w, <2>4 DEF SaveReady, Agree, Wants, PointsRight
  <2> QED BY <1>1, <2>1, <2>2, <2>5, BeginUpdateKeeps
<1>4. CASE ExcludeWrites
  <2> DEFINE k == [j EXCEPT !.saved = home, !.met = FALSE]
             d == Wrote(home, k.want)
  <2>1. /\ k.kind = "exclude" /\ k.at = "prompt" /\ BeginUpdate("cli", k, d)
        /\ UNCHANGED <<ownToml, notes>>
    BY <1>4 DEF ExcludeWrites
  <2>2. /\ k \in JobType /\ k.saved = home /\ k.began = j.began /\ k.kind = j.kind /\ k.at = j.at
        /\ k.base = j.base /\ k.want = j.want /\ k.touches = j.touches /\ k.restarts = j.restarts
    BY <1>1 DEF JobType
  <2>w. /\ ~Free("cli") /\ Agree(j.began) /\ ~j.restarts
        /\ j.base = home.conf /\ j.began.conf = home.conf /\ Wants(j)
        /\ home.toml.edits >= j.began.toml.edits
        /\ PointsRight(ownToml, home.toml, home.conf)
    BY <1>1, <2>1, <2>2, HeldWaiting
  <2>3. Remembers(ownToml, k)
    BY <1>1, <2>1, <2>2, RememberedFiles
  <2>4. CanFail("cli", k)
    BY <2>2, <2>3, <2>w DEF CanFail
  <2> HIDE DEF k
  <2>5. /\ d \in DiskType /\ d.conf = k.want /\ d.stateConf = k.want /\ d.hash = home.hash
        /\ d.toml = home.toml /\ d.selected = home.selected
    BY <1>1, <2>2, WroteFiles
  <2> HIDE DEF d, j
  <2>6. SaveReady("cli", k, d)
    BY <1>1, <2>1, <2>2, <2>w, <2>5 DEF SaveReady, Agree, Wants, PointsRight
  <2> QED BY <1>1, <2>1, <2>4, <2>6, BeginUpdateKeeps
<1>5. CASE Canceled
  <2>1. j.at = "prompt" /\ Ends("cli", "done") /\ UNCHANGED <<ownToml, home, gw, notes, timers>>
    BY <1>5 DEF Canceled
  <2>2. Beside
    BY <1>1, <2>1 DEF Beside
  <2>3. ~Free("cli") /\ PointsRight(ownToml, home.toml, home.conf)
    BY <1>1, <2>1, HeldWaiting
  <2> QED BY <1>1, <2>1, <2>2, <2>3, EndsKeeps
<1>6. CASE WritesAndRestarts
  <2> DEFINE want == IF j.kind = "restart" THEN home.conf
                     ELSE [home.conf EXCEPT !.static = j.want.static, !.switch = j.want.switch]
             k == [j EXCEPT !.saved = home, !.want = want, !.met = FALSE]
             d == Wrote(home, want)
  <2>1. j.at = "write" /\ Restarts(k, d) /\ UNCHANGED <<ownToml, notes>>
    BY <1>6 DEF WritesAndRestarts
  <2>w. /\ ~Free("cli") /\ Placed("cli", j) /\ Agree(j.began) /\ ~j.restarts
        /\ j.base = home.conf /\ j.began.conf = home.conf /\ Wants(j)
        /\ home.toml.edits >= j.began.toml.edits
        /\ PointsRight(ownToml, home.toml, home.conf)
    BY <1>1, <2>1, HeldWaiting
  <2>2. /\ want \in Settings /\ want.models = home.conf.models
        /\ j.kind # "config" \/ ~j.touches => want.static = home.conf.static
    BY <1>1, <2>w DEF Settings, Wants
  <2>3. j.kind \in {"config", "restart"}
    BY <2>1, <2>w DEF Placed
  <2> HIDE DEF want
  <2>4. /\ k \in JobType /\ k.saved = home /\ k.began = j.began /\ k.kind = j.kind
        /\ k.want = want /\ k.touches = j.touches /\ k.restarts = j.restarts
    BY <1>1, <2>2 DEF JobType
  <2>5. Remembers(ownToml, k)
    BY <1>1, <2>1, <2>4, RememberedFiles
  <2>6. /\ d \in DiskType /\ d.conf = want /\ d.stateConf = want /\ d.hash = home.hash
        /\ d.toml = home.toml /\ d.selected = home.selected
    BY <1>1, <2>2, WroteFiles
  <2> HIDE DEF d, k
  <2>7. Agree(d)
    BY <1>1, <2>2, <2>6 DEF Agree
  <2>8. ~(k.kind = "config" /\ k.touches) => PointsRight(ownToml, d.toml, d.conf)
    BY <2>2, <2>4, <2>6, <2>w DEF PointsRight
  <2>9. /\ ~k.restarts /\ Agree(k.began) /\ k.want = d.conf /\ d.toml.edits >= k.began.toml.edits
        /\ k.kind # "config" => d.conf.static = k.began.conf.static
        /\ k.kind \in {"config", "restart", "switch"}
    BY <2>2, <2>3, <2>4, <2>6, <2>w
  <2> QED BY <2>1, <2>4, <2>5, <2>6, <2>7, <2>8, <2>9, <2>w, RestartsKeeps
<1>7. CASE AccountChosen
  <2> DEFINE d == Wrote(home, j.want)
  <2>1. /\ j.kind = "switch" /\ j.at = "prompt" /\ UNCHANGED <<ownToml, notes>>
        /\ IF j.want = j.base THEN Ends("cli", "done") /\ UNCHANGED <<home, gw, timers>>
           ELSE Restarts(j, d)
    BY <1>7 DEF AccountChosen
  <2>w. /\ ~Free("cli") /\ Agree(j.began) /\ ~j.restarts
        /\ j.base = home.conf /\ j.began.conf = home.conf /\ Wants(j)
        /\ home.toml.edits >= j.began.toml.edits
        /\ PointsRight(ownToml, home.toml, home.conf)
    BY <1>1, <2>1, HeldWaiting
  <2>2. CASE j.want = j.base
    <3>1. Beside
      BY <1>1, <2>1, <2>2 DEF Beside
    <3> QED BY <1>1, <2>1, <2>2, <2>w, <3>1, EndsKeeps
  <2>3. CASE j.want # j.base
    <3>1. /\ d \in DiskType /\ d.conf = j.want /\ d.stateConf = j.want /\ d.hash = home.hash
          /\ d.toml = home.toml /\ d.selected = home.selected
      BY <1>1, WroteFiles
    <3>2. Restarts(j, d)
      BY <2>1, <2>3
    <3> HIDE DEF d
    <3>3. Agree(d) /\ PointsRight(ownToml, d.toml, d.conf) /\ d.conf.static = j.began.conf.static
      BY <1>1, <2>1, <2>w, <3>1 DEF Agree, Wants, PointsRight
    <3> QED BY <1>1, <2>1, <2>w, <3>1, <3>2, <3>3, RestartsKeeps
  <2> QED BY <2>2, <2>3
<1> QED BY <1>2, <1>3, <1>4, <1>5, <1>6, <1>7

LEMMA StopStart == SaveInv /\ (StopService \/ StartService) /\ ~Overlap
                     => SaveInv' /\ FailureRestores
<1> SUFFICES ASSUME SaveInv, StopService \/ StartService, ~Overlap PROVE SaveInv' /\ FailureRestores
  OBVIOUS
<1>1. /\ "cli" \in Savers /\ home \in DiskType /\ Agree(home) /\ gw \in GwType
      /\ timers \in [save : Nat, undo : Nat] /\ notes \in BOOLEAN
  BY HeldJob DEF Savers
<1>2. /\ \A o \in Savers : Free(o)
      /\ job' = [job EXCEPT !["cli"] = Resting("done")] /\ UNCHANGED <<ownToml, home, notes, timers>>
      /\ gw' \in {Down, Booting}
  BY DEF StopService, StartService, Enter
<1>3. PointsRight(ownToml, home.toml, home.conf)
  BY <1>2 DEF SaveInv
<1>4. SaveTo("cli", Resting("done"))
  BY <1>1, <1>2, <1>3, RestingJob DEF SaveTo
<1>5. Beside
  BY <1>1, <1>2, KickedGw DEF Beside
<1> QED BY <1>1, <1>4, <1>5, SaveToKeeps

LEMMA HealthSteps == SaveInv /\ (Healthy \/ Unhealthy) => SaveInv' /\ FailureRestores
<1> SUFFICES ASSUME SaveInv, Healthy \/ Unhealthy PROVE SaveInv' /\ FailureRestores
  OBVIOUS
<1> DEFINE j == job["cli"]
           d == [home EXCEPT !.pending = FALSE]
<1>1. /\ "cli" \in Savers /\ j \in JobType /\ home \in DiskType /\ Agree(home) /\ home.conf \in Settings
      /\ home.toml.edits \in Nat /\ gw \in GwType /\ timers \in [save : Nat, undo : Nat] /\ notes \in BOOLEAN
      /\ JobHolds(ownToml, "cli", j, home)
  BY HeldJob DEF Savers
<1>2. /\ d \in DiskType /\ d.conf = home.conf /\ d.stateConf = home.stateConf /\ d.toml = home.toml
      /\ d.hash = home.hash /\ d.selected = home.selected
  BY <1>1 DEF DiskType
<1>3. j.at \in {"health", "undoing"} /\ UNCHANGED <<ownToml, notes>>
  BY DEF Healthy, Unhealthy
<1>4. ~Free("cli")
  BY <1>3 DEF Free
<1> HIDE DEF d
<1>5. Agree(d) /\ Agree(home)
  BY <1>1, <1>2 DEF Agree
<1>6. ASSUME j.at = "undoing" PROVE LeftAsFound(j, home) /\ PointsRight(ownToml, home.toml, home.conf)
  BY <1>1, <1>6 DEF JobHolds, LeftAsFound, Newer, Agree
<1>7. ASSUME j.at = "health", ~(j.kind = "config" /\ j.touches) PROVE PointsRight(ownToml, home.toml, home.conf)
  BY <1>1, <1>7, HeldWritten
<1>8. ASSUME j.at = "undoing", home'.conf = home.conf, home'.stateConf = home.stateConf,
             home'.selected = home.selected, home'.toml = home.toml
      PROVE  LeftAsFound(j, home')
  BY <1>6, <1>8 DEF LeftAsFound
<1>9. CASE Healthy /\ j.at = "health" /\ j.kind = "config" /\ j.touches
  <2>1. BeginUpdate("cli", j, d)
    BY <1>9 DEF Healthy, d
  <2>2. CanFail("cli", j)
    BY <1>1, <1>9, HeldCanFail
  <2>3. SaveReady("cli", j, d)
    BY <1>1, <1>2, <1>5, <1>9, HeldWritten DEF SaveReady, Written
  <2> QED BY <1>1, <1>3, <2>1, <2>2, <2>3, BeginUpdateKeeps
<1>10. CASE Healthy /\ ~(j.at = "health" /\ j.kind = "config" /\ j.touches)
  <2>1. /\ home' = d /\ UNCHANGED <<gw, timers>>
        /\ Ends("cli", IF j.at = "undoing" THEN "failed" ELSE "done")
    BY <1>10 DEF Healthy, d
  <2>2. Beside
    BY <1>1, <1>3, <2>1 DEF Beside
  <2>3. PointsRight(ownToml, d.toml, d.conf)
    BY <1>2, <1>3, <1>6, <1>7, <1>10
  <2>4. CASE j.at = "undoing"
    <3>1. LeftAsFound(j, d)
      BY <1>2, <1>6, <2>4 DEF LeftAsFound
    <3> QED BY <1>1, <1>2, <1>4, <1>5, <2>1, <2>2, <2>3, <2>4, <3>1, EndsKeeps
  <2>5. CASE j.at # "undoing"
    BY <1>1, <1>2, <1>4, <1>5, <2>1, <2>2, <2>3, <2>5, EndsKeeps
  <2> QED BY <2>4, <2>5
<1>11. CASE Unhealthy /\ j.at = "health" /\ j.kind = "config"
  <2>1. CliFails(j) /\ CanFail("cli", j)
    BY <1>1, <1>11, HeldCanFail DEF Unhealthy
  <2> QED BY <1>1, <1>3, <2>1, CliFailsKeeps
<1>12. CASE Unhealthy /\ ~(j.at = "health" /\ j.kind = "config")
  <2>1. Ends("cli", "failed") /\ UNCHANGED <<home, gw, timers>>
    BY <1>12 DEF Unhealthy
  <2>2. Beside
    BY <1>1, <1>3, <2>1 DEF Beside
  <2>3. PointsRight(ownToml, home.toml, home.conf)
    BY <1>3, <1>6, <1>7, <1>12
  <2>4. j.kind \notin {"switch", "restart"} => j.at = "undoing"
    BY <1>1, <1>3, <1>12 DEF JobHolds, Placed
  <2>5. j.kind \notin {"switch", "restart"} => LeftAsFound(j, home')
    BY <1>6, <2>1, <2>4 DEF LeftAsFound
  <2> QED BY <1>1, <1>4, <2>1, <2>2, <2>3, <2>5, EndsKeeps
<1> QED BY <1>9, <1>10, <1>11, <1>12

(* The steps that commands and saves share. *)
LEMMA SharedSteps ==
    ASSUME SaveInv, NEW s \in Savers,
           \/ FetchFails(s) \/ RebuildFails(s) \/ UpdateDone(s) \/ UpdateFails(s)
           \/ ReloadAnswered(s) \/ ReloadMissed(s)
    PROVE  SaveInv' /\ FailureRestores
<1> DEFINE j == job[s]
<1>1. /\ j \in JobType /\ home \in DiskType /\ Agree(home) /\ home.conf \in Settings
      /\ home.toml.edits \in Nat /\ gw \in GwType /\ gw.conf \in Settings
      /\ timers \in [save : Nat, undo : Nat] /\ notes \in BOOLEAN
      /\ JobHolds(ownToml, s, j, home)
  BY HeldJob
<1>2. CASE FetchFails(s)
  <2>1. j.at = "fetch" /\ Ends(s, "failed") /\ UNCHANGED <<ownToml, home, gw, notes, timers>>
    BY <1>2 DEF FetchFails
  <2>2. Beside
    BY <1>1, <2>1 DEF Beside
  <2>3. ~Free(s) /\ PointsRight(ownToml, home.toml, home.conf) /\ LeftAsFound(j, home)
    BY <2>1, HeldWaiting
  <2>4. LeftAsFound(j, home')
    BY <2>1, <2>3 DEF LeftAsFound
  <2> QED BY <1>1, <2>1, <2>2, <2>3, <2>4, EndsKeeps
<1>3. CASE RebuildFails(s)
  <2>1. CanFail(s, j) /\ Fails(s, j) /\ UNCHANGED <<ownToml, notes>>
    BY <1>3, HeldCanFail DEF RebuildFails
  <2> QED BY <1>1, <2>1, FailsKeeps
<1>4. CASE UpdateFails(s)
  <2>1. CanFail(s, j) /\ Fails(s, j) /\ UNCHANGED <<ownToml, notes>>
    BY <1>4, HeldCanFail DEF UpdateFails
  <2> QED BY <1>1, <2>1, FailsKeeps
<1>5. CASE UpdateDone(s)
  <2> DEFINE u == Updated(j)
             k == [j EXCEPT !.at = "reload", !.expected = u.toml]
  <2>1. /\ j.at = "update" /\ ~Conflict(j) /\ home' = u /\ UNCHANGED <<ownToml, gw, notes, timers>>
    BY <1>5 DEF UpdateDone
  <2>2. \/ Ends(s, "done")
        \/ j.kind # "config" /\ ~j.restarts /\ job' = [job EXCEPT ![s].at = "reload", ![s].expected = home'.toml]
    BY <1>5 DEF UpdateDone
  <2>3. /\ u \in DiskType /\ Agree(u) /\ u.conf = home.conf /\ u.toml.edits = home.toml.edits
        /\ PointsRight(ownToml, u.toml, u.conf)
    BY <2>1, UpdatedFiles
  <2>4. Beside
    BY <1>1, <2>1 DEF Beside
  <2>w. /\ ~Free(s) /\ Placed(s, j) /\ Agree(j.began) /\ Written(ownToml, s, j, home)
        /\ j.kind # "switch" => Remembers(ownToml, j)
    BY <2>1, HeldWritten
  <2> HIDE DEF u
  <2>5. CASE Ends(s, "done")
    BY <1>1, <2>1, <2>3, <2>4, <2>5, <2>w, EndsKeeps
  <2>6. CASE j.kind # "config" /\ ~j.restarts /\ job' = [job EXCEPT ![s].at = "reload", ![s].expected = home'.toml]
    <3>1. job' = [job EXCEPT ![s] = k]
      BY <2>1, <2>6 DEF SaveInv, SettingsTypes
    <3>2. /\ k \in JobType /\ k.at = "reload" /\ k.expected = u.toml /\ k.kind = j.kind /\ k.began = j.began
          /\ k.want = j.want /\ k.saved = j.saved /\ k.restarts = j.restarts
      BY <1>1, <2>3 DEF JobType, JobStages, DiskType
    <3> HIDE DEF k, j
    <3>3. Placed(s, k)
      BY <2>1, <2>6, <2>w, <3>2 DEF Placed, Savers
    <3>4. Written(ownToml, s, k, u)
      BY <2>3, <2>w, <3>2 DEF Written
    <3>5. JobHolds(ownToml, s, k, u)
      BY <2>3, <2>w, <3>2, <3>3, <3>4 DEF JobHolds, Remembers, Spares
    <3>6. SaveTo(s, k)
      BY <2>1, <2>3, <2>w, <3>1, <3>2, <3>5, HeldJob DEF SaveTo
    <3> QED BY <2>4, <3>6, SaveToKeeps
  <2> QED BY <2>2, <2>5, <2>6
<1>6. CASE ReloadAnswered(s)
  <2>1. /\ j.at = "reload" /\ gw' = [gw EXCEPT !.conf = Reloaded(@, home)]
        /\ home' = PublishCatalog(home, gw'.conf) /\ Ends(s, "done") /\ UNCHANGED <<ownToml, notes, timers>>
    BY <1>6 DEF ReloadAnswered
  <2>2. Reloaded(gw.conf, home) \in Settings
    BY <1>1 DEF Reloaded, Settings
  <2>3. gw' \in GwType /\ gw'.conf \in Settings
    BY <1>1, <2>1, <2>2 DEF GwType
  <2>4. home' \in DiskType /\ home'.conf = home.conf /\ home'.toml = home.toml /\ Agree(home')
    BY <1>1, <2>1, <2>3, Published DEF Agree
  <2>5. Beside
    BY <1>1, <2>1, <2>3 DEF Beside
  <2>6. ~Free(s) /\ PointsRight(ownToml, home.toml, home.conf)
    BY <2>1, HeldWritten
  <2> QED BY <2>1, <2>4, <2>5, <2>6, EndsKeeps
<1>7. CASE ReloadMissed(s)
  <2>1. /\ j.at = "reload" /\ notes' = TRUE /\ UNCHANGED ownToml
        /\ IF s = "cli" THEN Ends(s, "done") /\ UNCHANGED <<home, gw, timers>> ELSE UiFails(j)
    BY <1>7 DEF ReloadMissed
  <2>2. CASE s = "cli"
    <3>1. Beside
      BY <1>1, <2>1, <2>2 DEF Beside
    <3>2. ~Free(s) /\ PointsRight(ownToml, home.toml, home.conf)
      BY <2>1, HeldWritten
    <3> QED BY <1>1, <2>1, <2>2, <3>1, <3>2, EndsKeeps
  <2>3. CASE s = "ui"
    BY <2>1, <2>3, HeldCanFail, UiFailsKeeps
  <2> QED BY <2>2, <2>3 DEF Savers
<1> QED BY <1>2, <1>3, <1>4, <1>5, <1>6, <1>7

(* The steps of the Web UI. *)
LEMMA RememberedJob ==
    ASSUME SaveInv, job["ui"].at \in {"fetch", "write"}
    PROVE  LET j == job["ui"] k == Remember(j) IN
           /\ k \in JobType /\ k.at = "rebuild" /\ k.saved = home /\ k.expected = home.toml
           /\ k.began = j.began /\ k.kind = j.kind /\ k.base = j.base /\ k.want = j.want
           /\ k.touches = j.touches /\ k.restarts = j.restarts
           /\ Remembers(ownToml, k) /\ Waiting(k, home) /\ Spares(k, home)
<1> DEFINE j == job["ui"]
           k == Remember(j)
<1>1. j \in JobType /\ home \in DiskType /\ "ui" \in Savers
  BY HeldJob DEF Savers
<1>2. /\ k \in JobType /\ k.at = "rebuild" /\ k.saved = home /\ k.expected = home.toml
      /\ k.began = j.began /\ k.kind = j.kind /\ k.base = j.base /\ k.want = j.want
      /\ k.touches = j.touches /\ k.restarts = j.restarts
  BY <1>1 DEF Remember, JobType, JobStages, DiskType
<1>w. /\ j.base = home.conf /\ j.began.conf = home.conf /\ Wants(j)
      /\ Newer(home.toml, j.began.toml) /\ home.toml.edits >= j.began.toml.edits
  BY <1>1, HeldWaiting
<1>3. Remembers(ownToml, k)
  BY <1>1, <1>2, RememberedFiles
<1> HIDE DEF k, j
<1>4. Waiting(k, home) /\ Spares(k, home)
  BY <1>2, <1>w DEF Waiting, Wants, Spares
<1> QED BY <1>2, <1>3, <1>4 DEF k, j

LEMMA UiFetchedKeeps == SaveInv /\ UiFetched => SaveInv' /\ FailureRestores
<1> SUFFICES ASSUME SaveInv, UiFetched PROVE SaveInv' /\ FailureRestores
  OBVIOUS
<1> DEFINE j == job["ui"]
           k == Remember(j)
<1>1. /\ "ui" \in Savers /\ home \in DiskType /\ Agree(home) /\ gw \in GwType
      /\ timers \in [save : Nat, undo : Nat] /\ notes \in BOOLEAN
  BY HeldJob DEF Savers
<1>2. /\ j.at = "fetch" /\ UNCHANGED <<ownToml, home, gw, notes, timers>>
      /\ Ends("ui", "failed") \/ job' = [job EXCEPT !["ui"] = k]
  BY DEF UiFetched
<1>3. Beside
  BY <1>1, <1>2 DEF Beside
<1>w. ~Free("ui") /\ Placed("ui", j) /\ Agree(j.began) /\ ~j.restarts
      /\ PointsRight(ownToml, home.toml, home.conf) /\ LeftAsFound(j, home)
  BY <1>1, <1>2, HeldWaiting
<1>4. CASE Ends("ui", "failed")
  <2>1. LeftAsFound(j, home')
    BY <1>2, <1>w DEF LeftAsFound
  <2> QED BY <1>1, <1>2, <1>3, <1>4, <1>w, <2>1, EndsKeeps
<1>5. CASE job' = [job EXCEPT !["ui"] = k]
  <2>1. /\ k \in JobType /\ k.at = "rebuild" /\ k.began = j.began /\ k.kind = j.kind /\ k.restarts = j.restarts
        /\ Remembers(ownToml, k) /\ Waiting(k, home) /\ Spares(k, home)
    BY <1>2, RememberedJob
  <2> HIDE DEF k, j
  <2>2. Placed("ui", k)
    BY <1>2, <1>w, <2>1 DEF Placed
  <2>3. JobHolds(ownToml, "ui", k, home)
    BY <1>w, <2>1, <2>2 DEF JobHolds
  <2>4. SaveTo("ui", k)
    BY <1>1, <1>2, <1>5, <1>w, <2>1, <2>3, HeldJob DEF SaveTo
  <2> QED BY <1>1, <1>3, <2>4, SaveToKeeps
<1> QED BY <1>2, <1>4, <1>5

LEMMA UiLateSteps == SaveInv /\ (UiReloaded \/ UiUpdates \/ UiGivesUp) => SaveInv' /\ FailureRestores
<1> SUFFICES ASSUME SaveInv, UiReloaded \/ UiUpdates \/ UiGivesUp PROVE SaveInv' /\ FailureRestores
  OBVIOUS
<1> DEFINE j == job["ui"]
<1>1. /\ "ui" \in Savers /\ j \in JobType /\ home \in DiskType /\ Agree(home) /\ home.conf \in Settings
      /\ home.toml.edits \in Nat /\ gw \in GwType /\ gw.conf \in Settings
      /\ timers \in [save : Nat, undo : Nat] /\ notes \in BOOLEAN
  BY HeldJob DEF Savers
<1>2. j.at \in {"restart", "reloaded"}
  BY DEF UiReloaded, UiUpdates, UiGivesUp
<1>w. /\ ~Free("ui") /\ Placed("ui", j) /\ Agree(j.began) /\ Written(ownToml, "ui", j, home)
      /\ PointsRight(ownToml, home.toml, home.conf)
      /\ JobHolds(ownToml, "ui", j, home) /\ CanFail("ui", j)
  BY <1>1, <1>2, HeldWritten, HeldCanFail, HeldJob
<1>3. CASE UiReloaded
  <2> DEFINE k == [j EXCEPT !.at = "reloaded"]
  <2>1. /\ j.at = "restart" /\ gw' = [gw EXCEPT !.conf = Reloaded(@, home)]
        /\ home' = PublishCatalog(home, gw'.conf) /\ UNCHANGED <<ownToml, notes, timers>>
        /\ job' = [job EXCEPT !["ui"] = k]
    BY <1>1, <1>3 DEF UiReloaded, SaveInv, SettingsTypes
  <2>2. Reloaded(gw.conf, home) \in Settings
    BY <1>1 DEF Reloaded, Settings
  <2>3. gw' \in GwType /\ gw'.conf \in Settings
    BY <1>1, <2>1, <2>2 DEF GwType
  <2>4. home' \in DiskType /\ home'.conf = home.conf /\ home'.toml = home.toml /\ Agree(home')
    BY <1>1, <2>1, <2>3, Published DEF Agree
  <2>5. Beside
    BY <1>1, <2>1, <2>3 DEF Beside
  <2>6. /\ k \in JobType /\ k.at = "reloaded" /\ k.kind = j.kind /\ k.began = j.began /\ k.want = j.want
        /\ k.saved = j.saved /\ k.restarts = j.restarts /\ k.expected = j.expected /\ k.touches = j.touches
    BY <1>1 DEF JobType, JobStages
  <2> HIDE DEF k, j
  <2>7. Placed("ui", k)
    BY <1>w, <2>1, <2>6 DEF Placed
  <2>8. JobHolds(ownToml, "ui", k, home)
    BY <1>w, <2>1, <2>6, <2>7 DEF JobHolds, Written, Remembers, Spares
  <2>9. JobHolds(ownToml, "ui", k, home')
    BY <2>4, <2>8, JobStill
  <2>10. SaveTo("ui", k)
    BY <1>1, <1>w, <2>1, <2>4, <2>6, <2>9, HeldJob DEF SaveTo
  <2> QED BY <1>1, <2>5, <2>10, SaveToKeeps
<1>4. CASE UiUpdates
  <2>1. BeginUpdate("ui", j, home) /\ UNCHANGED <<ownToml, notes>>
    BY <1>4 DEF UiUpdates
  <2>2. SaveReady("ui", j, home)
    BY <1>1, <1>2, <1>w DEF SaveReady, Placed, Written, UiKinds
  <2> QED BY <1>1, <1>w, <2>1, <2>2, BeginUpdateKeeps
<1>5. CASE UiGivesUp
  BY <1>5, <1>w, UiFailsKeeps DEF UiGivesUp
<1> QED BY <1>3, <1>4, <1>5

(* What a save writes into config.json.                                     *)
LEMMA AppliedSettings ==
    ASSUME NEW j \in JobType, NEW c \in Settings, j.base = c, Wants(j), j.kind \in UiKinds
    PROVE  /\ Applied(j, c) \in Settings /\ Applied(j, c).static = c.static
           /\ j.kind = "uiswitch" => Applied(j, c).models = c.models
           /\ j.kind = "uimodels" => Applied(j, c) = j.want
           /\ j.kind = "uiswitch" /\ ~j.touches => Applied(j, c).excluded = c.excluded
<1>1. j.want \in Settings
  BY DEF JobType
<1> DEFINE w == j.want
<1>2. Applied(j, c) =
        [c EXCEPT !.switch = IF w.switch # c.switch THEN w.switch ELSE @,
                  !.models = IF j.kind # "uiswitch" THEN w.models ELSE @,
                  !.excluded = IF w.excluded # c.excluded THEN w.excluded ELSE @]
  BY DEF Applied
<1>3. j.kind = "uimodels" => w.static = c.static /\ w.switch = c.switch /\ w.excluded = c.excluded
  BY DEF Wants
<1>4. j.kind = "uiswitch" /\ ~j.touches => w.excluded = c.excluded
  BY DEF Wants
<1>5. j.kind # "config" /\ (j.kind = "uiswitch" => w.models = c.models)
  BY DEF Wants, UiKinds
<1>6. /\ Applied(j, c) \in Settings /\ Applied(j, c).static = c.static
      /\ Applied(j, c).switch = w.switch /\ Applied(j, c).excluded = w.excluded
      /\ Applied(j, c).models = IF j.kind # "uiswitch" THEN w.models ELSE c.models
  BY <1>1, <1>2 DEF Settings
<1>7. ASSUME j.kind = "uimodels" PROVE Applied(j, c) = j.want
  BY <1>1, <1>3, <1>6, <1>7 DEF Settings
<1> QED BY <1>4, <1>6, <1>7

LEMMA UiWritesKeeps == SaveInv /\ UiWrites => SaveInv' /\ FailureRestores
<1> SUFFICES ASSUME SaveInv, UiWrites PROVE SaveInv' /\ FailureRestores
  OBVIOUS
<1> DEFINE j0 == job["ui"]
           was == IF j0.at = "write" THEN Remember(j0) ELSE j0
           c == Applied(was, home.conf)
           w1 == Wrote(home, c)
           w == IF was.kind = "uiswitch" THEN w1 ELSE [w1 EXCEPT !.selected = c.models]
           j == [was EXCEPT !.restarts = c.switch # home.conf.switch,
                            !.want = IF was.kind = "uimodels" THEN @ ELSE c]
<1>1. /\ "ui" \in Savers /\ j0 \in JobType /\ home \in DiskType /\ Agree(home) /\ home.conf \in Settings
      /\ home.toml.edits \in Nat /\ gw \in GwType /\ timers \in [save : Nat, undo : Nat] /\ notes \in BOOLEAN
      /\ JobHolds(ownToml, "ui", j0, home)
  BY HeldJob DEF Savers
<1>2. j0.at \in {"rebuild", "write"} /\ UiWrite(was) /\ UNCHANGED <<ownToml, notes>>
  BY DEF UiWrites
<1>w. /\ ~Free("ui") /\ Placed("ui", j0) /\ Agree(j0.began) /\ ~j0.restarts
      /\ j0.base = home.conf /\ j0.began.conf = home.conf /\ Wants(j0)
      /\ Newer(home.toml, j0.began.toml) /\ home.toml.edits >= j0.began.toml.edits
      /\ PointsRight(ownToml, home.toml, home.conf)
  BY <1>1, <1>2, HeldWaiting
<1>3. /\ was \in JobType /\ was.at = "rebuild" /\ was.began = j0.began /\ was.kind = j0.kind
      /\ was.base = home.conf /\ was.want = j0.want /\ was.touches = j0.touches /\ ~was.restarts
      /\ Remembers(ownToml, was) /\ Waiting(was, home) /\ Spares(was, home)
  <2>1. CASE j0.at = "write"
    <3>1. was = Remember(job["ui"])
      BY <2>1
    <3> HIDE DEF was
    <3> QED BY <1>w, <2>1, <3>1, RememberedJob
  <2>2. CASE j0.at = "rebuild"
    <3>1. was = j0
      BY <2>2
    <3> HIDE DEF was, j0
    <3>2. j0.kind # "switch"
      BY <1>w DEF Placed
    <3> QED BY <1>1, <1>w, <2>2, <3>1, <3>2 DEF JobHolds
  <2> QED BY <1>2, <2>1, <2>2
<1>4. was.kind \in UiKinds
  BY <1>w, <1>3 DEF Placed, UiKinds
<1> HIDE DEF was, j0
<1>5. /\ c \in Settings /\ c.static = home.conf.static
      /\ was.kind = "uiswitch" => c.models = home.conf.models
      /\ was.kind = "uimodels" => c = was.want
  BY <1>1, <1>3, <1>4, AppliedSettings DEF Waiting
<1> HIDE DEF c
<1>6. /\ w1 \in DiskType /\ w1.conf = c /\ w1.stateConf = c /\ w1.pending = home.pending
      /\ w1.hash = home.hash /\ w1.toml = home.toml /\ w1.selected = home.selected
  BY <1>1, <1>5, WroteFiles
<1> HIDE DEF w1
<1>7. /\ w \in DiskType /\ w.conf = c /\ w.stateConf = c /\ w.hash = home.hash /\ w.toml = home.toml
      /\ w.selected = IF was.kind = "uiswitch" THEN home.selected ELSE c.models
  BY <1>5, <1>6 DEF DiskType, Settings
<1> HIDE DEF w
<1>8. Agree(w) /\ PointsRight(ownToml, w.toml, w.conf)
  BY <1>1, <1>5, <1>7, <1>w DEF Agree, PointsRight
<1>9. /\ j \in JobType /\ j.began = was.began /\ j.kind = was.kind /\ j.saved = was.saved /\ j.expected = was.expected
      /\ j.want = c /\ j.restarts = (c.switch # home.conf.switch) /\ j.touches = was.touches
  BY <1>3, <1>5 DEF JobType
<1> DEFINE m == Marked(w)
           k == [j EXCEPT !.at = "restart"]
<1>10. IF j.restarts
       THEN /\ home' = m /\ timers' = [timers EXCEPT !.save = @ + 1] /\ UNCHANGED gw
            /\ IF j.touches THEN job' = [job EXCEPT !["ui"] = k] ELSE Ends("ui", "done")
       ELSE IF j.touches THEN BeginUpdate("ui", j, w)
       ELSE home' = w /\ Ends("ui", "done") /\ UNCHANGED <<gw, timers>>
  BY <1>2 DEF UiWrite, w, w1, c
<1> HIDE DEF j
<1>11. Remembers(ownToml, j) /\ Spares(j, home)
  BY <1>3, <1>9 DEF Remembers, Spares
<1>12. m \in DiskType /\ Agree(m) /\ m.conf = c /\ m.toml = home.toml /\ PointsRight(ownToml, m.toml, m.conf)
  BY <1>7, <1>8, MarkedFiles DEF Agree
<1> HIDE DEF m
<1>13. CASE j.restarts
  <2>1. timers' \in [save : Nat, undo : Nat]
    BY <1>1, <1>10, <1>13
  <2>2. Beside
    BY <1>1, <1>2, <1>10, <1>13, <2>1 DEF Beside
  <2>3. CASE j.touches
    <3>1. /\ k \in JobType /\ k.at = "restart" /\ k.began = j.began /\ k.kind = j.kind /\ k.saved = j.saved
          /\ k.expected = j.expected /\ k.want = j.want /\ k.restarts
      BY <1>9, <1>13 DEF JobType, JobStages
    <3>2. job' = [job EXCEPT !["ui"] = k] /\ home' = m
      BY <1>10, <1>13, <2>3
    <3> HIDE DEF k
    <3>3. Placed("ui", k)
      BY <1>4, <1>9, <1>13, <1>w, <3>1 DEF Placed, UiKinds
    <3>4. Written(ownToml, "ui", k, m)
      BY <1>3, <1>4, <1>5, <1>9, <1>12, <1>w, <3>1 DEF Written, UiKinds
    <3>5. Remembers(ownToml, k) /\ Spares(k, m) /\ Agree(k.began)
      BY <1>3, <1>9, <1>11, <1>12, <1>w, <3>1 DEF Remembers, Spares
    <3>6. JobHolds(ownToml, "ui", k, m)
      BY <1>12, <3>1, <3>3, <3>4, <3>5 DEF JobHolds
    <3>7. SaveTo("ui", k)
      BY <1>1, <1>12, <1>w, <3>1, <3>2, <3>6, HeldJob DEF SaveTo
    <3> QED BY <1>1, <2>2, <3>7, SaveToKeeps
  <2>4. CASE ~j.touches
    BY <1>1, <1>10, <1>12, <1>13, <1>w, <2>2, <2>4, EndsKeeps
  <2> QED BY <2>3, <2>4
<1>14. CASE ~j.restarts /\ j.touches
  <2>1. CanFail("ui", j)
    BY <1>3, <1>9, <1>11, <1>w DEF CanFail, j0
  <2>2. SaveReady("ui", j, w)
    BY <1>3, <1>4, <1>5, <1>7, <1>8, <1>9, <1>14, <1>w DEF SaveReady
  <2> QED BY <1>1, <1>2, <1>10, <1>14, <2>1, <2>2, BeginUpdateKeeps
<1>15. CASE ~j.restarts /\ ~j.touches
  <2>1. home' = w /\ Ends("ui", "done") /\ UNCHANGED <<gw, timers>>
    BY <1>10, <1>15
  <2>2. Beside
    BY <1>1, <1>2, <2>1 DEF Beside
  <2> QED BY <1>1, <1>7, <1>8, <1>w, <2>1, <2>2, EndsKeeps
<1> QED BY <1>13, <1>14, <1>15

-----------------------------------------------------------------------------
LEMMA SaveInvInit == SettingsInit => SaveInv
<1> SUFFICES ASSUME SettingsInit PROVE SaveInv
  OBVIOUS
<1>1. PICK static \in BOOLEAN :
        LET c == [Default EXCEPT !.static = static]
            t == [edits |-> 0, pointer |-> IF static /\ ~ownToml THEN "managed" ELSE "none"]
        IN /\ home = [conf |-> c, pending |-> FALSE, stateConf |-> c, hash |-> t,
                      toml |-> t, selected |-> 0, merged |-> Merge(c, 0)]
           /\ gw = [at |-> "up", conf |-> c, lost |-> {}]
  BY DEF SettingsInit
<1> DEFINE c == [Default EXCEPT !.static = static]
           t == [edits |-> 0, pointer |-> IF static /\ ~ownToml THEN "managed" ELSE "none"]
<1>2. c \in Settings /\ c.models = 0 /\ c.static = static
  BY DEF Default, Settings, Bit
<1>3. t \in TomlType /\ t.pointer = IF static /\ ~ownToml THEN "managed" ELSE "none"
  BY DEF TomlType, Pointers
<1> HIDE DEF c, t
<1>4. Merge(c, 0) \in Merges
  BY <1>2 DEF Merge, Merges, Settings, Bit
<1>5. home = [conf |-> c, pending |-> FALSE, stateConf |-> c, hash |-> t, toml |-> t, selected |-> 0,
              merged |-> Merge(c, 0)] /\ gw = [at |-> "up", conf |-> c, lost |-> {}]
  BY <1>1 DEF c, t
<1>6. home \in DiskType /\ gw \in GwType
  BY <1>2, <1>3, <1>4, <1>5 DEF DiskType, GwType, Bit, Losses
<1>7. job = [s \in Savers |-> Resting("done")] /\ notes = FALSE /\ timers = [save |-> 0, undo |-> 0]
      /\ ownToml \in BOOLEAN
  BY DEF SettingsInit
<1>8. SettingsTypes
  BY <1>6, <1>7, RestingJob DEF SettingsTypes
<1>9. \A s \in Savers : JobHolds(ownToml, s, job[s], home) /\ Free(s)
  BY <1>7, RestingJob DEF Free
<1>10. Agree(home) /\ PointsRight(ownToml, home.toml, home.conf)
  BY <1>2, <1>3, <1>5, <1>7 DEF Agree, PointsRight
<1> QED BY <1>8, <1>9, <1>10 DEF SaveInv, Savers

LEMMA SaveInvStep ==
    ~Overlap /\ SaveInv /\ [SettingsNext]_settingVars
      => SaveInv' /\ (FailureRestores \/ UNCHANGED settingVars)
<1> SUFFICES ASSUME ~Overlap, SaveInv, [SettingsNext]_settingVars
             PROVE  SaveInv' /\ (FailureRestores \/ UNCHANGED settingVars)
  OBVIOUS
<1>1. CASE UNCHANGED settingVars
  <2>1. UNCHANGED <<ownToml, home, gw, notes, timers, job>>
    BY <1>1 DEF settingVars
  <2>2. Beside /\ home' \in DiskType /\ Agree(home')
    BY <2>1, HeldJob DEF Beside, Savers
  <2> QED BY <1>1, <2>1, <2>2, AsideKeeps
<1>2. CASE SettingsNext
  <2>1. CASE \/ GwLoad \/ GwClear \/ GwReady \/ GwReload \/ GwExit \/ EditToml
             \/ \E k \in {"save", "undo"} : TimerFires(k)
    BY <2>1, GatewaySteps
  <2>2. CASE Sync \/ Exclude \/ Config \/ RestartService \/ SwitchAccount \/ UiModels \/ UiConfig \/ UiSwitch
    BY <2>2, SaveBegins
  <2>3. CASE SyncFetched \/ SyncWrites \/ ExcludeWrites \/ Canceled \/ WritesAndRestarts \/ AccountChosen
    BY <2>3, CommandSteps
  <2>4. CASE StopService \/ StartService
    BY <2>4, StopStart
  <2>5. CASE Healthy \/ Unhealthy
    BY <2>5, HealthSteps
  <2>6. CASE \E s \in Savers : FetchFails(s) \/ RebuildFails(s) \/ UpdateDone(s) \/ UpdateFails(s)
                               \/ ReloadAnswered(s) \/ ReloadMissed(s)
    BY <2>6, SharedSteps
  <2>7. CASE UiFetched \/ UiWrites \/ UiReloaded \/ UiUpdates \/ UiGivesUp
    BY <2>7, UiFetchedKeeps, UiWritesKeeps, UiLateSteps
  <2> QED BY <1>2, <2>1, <2>2, <2>3, <2>4, <2>5, <2>6, <2>7 DEF SettingsNext
<1> QED BY <1>1, <1>2

(* A save that fails leaves the settings, the list of models and the        *)
(* pointer as it found them, whatever the gateway and the user do meanwhile *)
(* and however many saves there are, so long as no command runs beside a    *)
(* save of the Web UI.                                                      *)
THEOREM SavesRestore == ~Overlap => (SettingsSpec => FailedSaveRestores)
<1> SUFFICES ASSUME ~Overlap PROVE SettingsSpec => FailedSaveRestores
  OBVIOUS
<1>1. SaveInv /\ [SettingsNext]_settingVars => SaveInv'
  BY SaveInvStep
<1>2. SaveInv /\ [SettingsNext]_settingVars =>
        [\A s \in Savers :
           LET j == job[s] IN
           j.at \notin {"done", "failed"} /\ job'[s].at = "failed" /\ j.kind \notin {"switch", "restart"} =>
             /\ home'.conf = j.began.conf /\ home'.stateConf = j.began.conf
             /\ home'.selected = j.began.selected
             /\ \/ home'.toml.pointer = j.began.toml.pointer
                \/ home'.toml.edits > j.began.toml.edits]_settingVars
  BY SaveInvStep DEF FailureRestores, LeftAsFound
<1> QED BY <1>1, <1>2, SaveInvInit, PTL DEF SettingsSpec, FailedSaveRestores

-----------------------------------------------------------------------------
(* The service runs with what has been saved, or is due to start again.     *)
SameModes(c, e) == c.static = e.static /\ c.switch = e.switch

(* The catalog is made of the settings, or of those that the gateway runs   *)
(* with, and of the selected models.                                        *)
Cat(d, g) == d.conf.static => \E c \in {d.conf, g.conf} : d.merged = Merge(c, d.selected)

(* A save that takes its files back without a restart when it fails.        *)
Revocable(j) == j.at \in {"rebuild", "update", "reload"} /\ j.kind # "config" /\ ~j.restarts

(* With k the job under way and u restarts due after saves that failed: a   *)
(* gateway that has read config.json has its modes, unless its restart is   *)
(* marked or the mark got lost; a gateway that a command waits for has them *)
(* all the same; one that is up has published its catalog, unless a save is *)
(* just being made; and a save that may be taken back remembers a home of   *)
(* which the same can be said, unless the gateway has published since.      *)
ServiceOK(k, d, g, u) ==
    /\ g.at \in {"loaded", "serving", "up"} /\ u = 0 =>
         SameModes(g.conf, d.conf) \/ d.pending \/ "mark" \in g.lost
    /\ k.at \in {"health", "undoing"} =>
         /\ g.at # "down" /\ (g.at # "starting" => SameModes(g.conf, d.conf))
         /\ g.at = "up" => Cat(d, g)
    /\ g.at = "up" /\ u = 0 /\ ~d.pending /\ g.lost = {} /\ k.at # "update" => Cat(d, g)
    /\ Revocable(k) =>
         /\ d.pending => k.saved.pending
         /\ g.at = "up" /\ u = 0 /\ ~k.saved.pending /\ g.lost = {} /\ ~k.met => Cat(k.saved, g)

RunningInv ==
    \A s \in Savers : (\A o \in Savers \ {s} : Free(o)) => ServiceOK(job[s], home, gw, timers.undo)

LEMMA ServiceHeld ==
    ASSUME SaveInv, RunningInv, NEW s \in Savers, ~Free(s)
    PROVE  ServiceOK(job[s], home, gw, timers.undo)
BY HeldJob DEF RunningInv

(* A step of the one saver there is. *)
LEMMA ServiceTo ==
    ASSUME SaveInv, NEW s \in Savers, NEW k, \A o \in Savers \ {s} : Free(o), job' = [job EXCEPT ![s] = k],
           ServiceOK(k, home', gw', timers'.undo)
    PROVE  RunningInv'
<1>1. job'[s] = k /\ \A o \in Savers \ {s} : job'[o].at \in {"done", "failed"}
  BY DEF SaveInv, SettingsTypes, Free
<1>2. ASSUME NEW o \in Savers, o # s, k.at \in {"done", "failed"}
      PROVE  ServiceOK(job'[o], home', gw', timers'.undo)
  BY <1>1, <1>2 DEF ServiceOK, Revocable
<1>3. ASSUME NEW o \in Savers, (\A p \in Savers \ {o} : Free(p))'
      PROVE  ServiceOK(job'[o], home', gw', timers'.undo)
  <2>1. CASE o = s
    BY <1>1, <2>1
  <2>2. CASE o # s
    <3>1. k.at \in {"done", "failed"}
      BY <1>1, <1>3, <2>2 DEF Free
    <3> QED BY <1>2, <2>2, <3>1
  <2> QED BY <2>1, <2>2
<1> QED BY <1>3 DEF RunningInv

(* A step of the gateway or of the user. *)
LEMMA ServiceAside ==
    ASSUME SaveInv, RunningInv, UNCHANGED job,
           \A k \in JobType : ServiceOK(k, home, gw, timers.undo) => ServiceOK(k, home', gw', timers'.undo)
    PROVE  RunningInv'
BY DEF RunningInv, SaveInv, SettingsTypes, Free

(* The gateway publishes: a job under way is told so. *)
LEMMA ServiceOvertakes ==
    ASSUME SaveInv, RunningInv, job' = Overtaken,
           \A k, l \in JobType :
             ServiceOK(k, home, gw, timers.undo) /\ l.at = k.at /\ (Revocable(l) => l.met /\ Revocable(k) /\ l.saved = k.saved)
               => ServiceOK(l, home', gw', timers'.undo)
    PROVE  RunningInv'
<1>1. job \in [Savers -> JobType] /\ job' \in [Savers -> JobType]
  BY OvertakenJobs DEF SaveInv, SettingsTypes
<1>2. ASSUME NEW s \in Savers
      PROVE  /\ job'[s].at = job[s].at
             /\ Revocable(job'[s]) => job'[s].met /\ Revocable(job[s]) /\ job'[s].saved = job[s].saved
  <2> DEFINE b == ~Free(s)
             k == job[s]
             l == [k EXCEPT !.met = b]
  <2>1. k \in JobType /\ job'[s] = l
    BY <1>1 DEF Overtaken
  <2>2. b \in BOOLEAN /\ (k.at \in {"rebuild", "update", "reload"} => b)
    BY DEF Free
  <2> HIDE DEF b, k
  <2>3. l.at = k.at /\ l.kind = k.kind /\ l.restarts = k.restarts /\ l.saved = k.saved /\ l.met = b
    BY <2>1 DEF JobType
  <2> HIDE DEF l
  <2> QED BY <2>1, <2>2, <2>3 DEF Revocable, k
<1>3. ASSUME NEW s \in Savers, (\A o \in Savers \ {s} : Free(o))'
      PROVE  ServiceOK(job'[s], home', gw', timers'.undo)
  <2>1. \A o \in Savers \ {s} : Free(o)
    BY <1>2, <1>3 DEF Free
  <2> QED BY <1>1, <1>2, <2>1 DEF RunningInv
<1> QED BY <1>3 DEF RunningInv

(* When the gateway is about to start, or a restart is due, nothing is said.*)
LEMMA Kicks ==
    ASSUME NEW k, NEW d, NEW g, NEW u, ~Revocable(k),
           \/ g.at = "starting"
           \/ g.at = "down" /\ k.at \notin {"health", "undoing"}
           \/ (u # 0 \/ d.pending) /\ k.at \notin {"health", "undoing"}
    PROVE  ServiceOK(k, d, g, u)
BY DEF ServiceOK

LEMMA AfterRest ==
    ASSUME NEW at \in {"done", "failed"}
    PROVE  ~Revocable(Resting(at)) /\ Resting(at).at = at
BY DEF Revocable, Resting

(* What a gateway runs with after a reload. *)
LEMMA ReloadedSettings ==
    ASSUME NEW c \in Settings, home.conf \in Settings
    PROVE  Reloaded(c, home) \in Settings /\ SameModes(Reloaded(c, home), c)
BY DEF Reloaded, Settings, SameModes

(* A gateway that publishes makes the catalog of its settings. *)
LEMMA PublishServes ==
    ASSUME NEW d \in DiskType, NEW g, NEW k, NEW l, NEW u, NEW e, NEW h,
           ServiceOK(k, d, g, u), g.at \in {"serving", "up"},
           h.at = "up", h.conf \in Settings, SameModes(h.conf, g.conf), h.lost = g.lost,
           e = PublishCatalog(d, h.conf), l.at = k.at,
           Revocable(l) => l.met /\ Revocable(k) /\ l.saved = k.saved
    PROVE  ServiceOK(l, e, h, u)
<1>1. /\ e.conf = d.conf /\ e.selected = d.selected /\ e.pending = d.pending
      /\ e.merged = IF h.conf.static THEN Merge(h.conf, d.selected) ELSE d.merged
  BY Published
<1>2. SameModes(g.conf, d.conf) => SameModes(h.conf, e.conf)
  BY <1>1 DEF SameModes
<1>3. SameModes(h.conf, e.conf) => Cat(e, h)
  BY <1>1 DEF SameModes, Cat
<1> QED BY <1>1, <1>2, <1>3 DEF ServiceOK

LEMMA GatewayServes ==
    ASSUME SaveInv, RunningInv,
           \/ GwLoad \/ GwClear \/ GwReady \/ GwReload \/ GwExit \/ EditToml
           \/ \E k \in {"save", "undo"} : TimerFires(k)
    PROVE  RunningInv'
<1>1. /\ home \in DiskType /\ home.conf \in Settings /\ gw \in GwType /\ gw.conf \in Settings
      /\ timers \in [save : Nat, undo : Nat]
  BY HeldJob DEF Savers
<1>2. CASE GwLoad
  <2>1. gw' = [at |-> "loaded", conf |-> home.conf, lost |-> {}] /\ UNCHANGED <<home, timers, job>>
        /\ gw.at = "starting"
    BY <1>2 DEF GwLoad
  <2>2. ASSUME NEW k \in JobType, ServiceOK(k, home, gw, timers.undo)
        PROVE  ServiceOK(k, home', gw', timers'.undo)
    BY <2>1, <2>2 DEF ServiceOK, SameModes
  <2> QED BY <2>1, <2>2, ServiceAside
<1>3. CASE GwClear
  <2>1. /\ gw.at = "loaded" /\ gw'.at = "serving" /\ gw'.conf = gw.conf /\ UNCHANGED <<timers, job>>
        /\ home'.conf = home.conf /\ home'.pending = FALSE
        /\ gw'.lost = IF home.pending /\ Behind THEN gw.lost \union {"mark"} ELSE gw.lost
    BY <1>1, <1>3 DEF GwClear, GwType, DiskType
  <2>2. ~Behind <=> SameModes(gw.conf, home.conf)
    BY DEF Behind, SameModes
  <2>3. ASSUME NEW k \in JobType, ServiceOK(k, home, gw, timers.undo)
        PROVE  ServiceOK(k, home', gw', timers'.undo)
    BY <2>1, <2>2, <2>3 DEF ServiceOK
  <2> QED BY <2>1, <2>3, ServiceAside
<1>4. CASE GwReady
  <2>1. /\ gw.at = "serving" /\ gw'.at = "up" /\ gw'.conf = gw.conf /\ gw'.lost = gw.lost
        /\ UNCHANGED timers /\ job' = Overtaken /\ home' = PublishCatalog(home, gw'.conf)
    BY <1>1, <1>4 DEF GwReady, GwType
  <2>2. SameModes(gw'.conf, gw.conf)
    BY <2>1 DEF SameModes
  <2> QED BY <1>1, <2>1, <2>2, PublishServes, ServiceOvertakes
<1>5. CASE GwReload
  <2>1. /\ gw.at = "up" /\ gw'.at = "up" /\ gw'.conf = Reloaded(gw.conf, home) /\ gw'.lost = gw.lost
        /\ UNCHANGED timers /\ job' = Overtaken /\ home' = PublishCatalog(home, gw'.conf)
    BY <1>1, <1>5 DEF GwReload, GwType
  <2>2. gw'.conf \in Settings /\ SameModes(gw'.conf, gw.conf)
    BY <1>1, <2>1, ReloadedSettings
  <2> QED BY <1>1, <2>1, <2>2, PublishServes, ServiceOvertakes
<1>6. CASE GwExit
  <2>1. gw'.at = "starting" /\ UNCHANGED <<home, timers, job>>
    BY <1>6 DEF GwExit, Booting
  <2>2. ASSUME NEW k \in JobType, ServiceOK(k, home, gw, timers.undo)
        PROVE  ServiceOK(k, home', gw', timers'.undo)
    BY <2>1, <2>2 DEF ServiceOK
  <2> QED BY <2>1, <2>2, ServiceAside
<1>7. CASE EditToml
  <2>1. /\ UNCHANGED <<gw, timers, job>> /\ home'.conf = home.conf /\ home'.selected = home.selected
        /\ home'.pending = home.pending /\ home'.merged = home.merged
    BY <1>1, <1>7 DEF EditToml, DiskType
  <2>2. ASSUME NEW k \in JobType, ServiceOK(k, home, gw, timers.undo)
        PROVE  ServiceOK(k, home', gw', timers'.undo)
    BY <2>1, <2>2 DEF ServiceOK, Cat
  <2> QED BY <2>1, <2>2, ServiceAside
<1>8. ASSUME NEW t \in {"save", "undo"}, TimerFires(t) PROVE RunningInv'
  <2>1. UNCHANGED <<home, job>> /\ (t = "save" => timers'.undo = timers.undo)
    BY <1>1, <1>8 DEF TimerFires
  <2>2. \/ gw'.at = "starting"
        \/ gw' = gw /\ t = "save"
        \/ gw'.at = gw.at /\ gw'.conf = gw.conf /\ "mark" \in gw'.lost
    BY <1>1, <1>8 DEF TimerFires, Booting, GwType
  <2>3. ASSUME NEW k \in JobType, ServiceOK(k, home, gw, timers.undo)
        PROVE  ServiceOK(k, home', gw', timers'.undo)
    BY <2>1, <2>2, <2>3 DEF ServiceOK, Cat
  <2> QED BY <2>1, <2>3, ServiceAside
<1> QED BY <1>2, <1>3, <1>4, <1>5, <1>6, <1>7, <1>8

(* A job begins, or ends without having written anything. *)
LEMMA CalmServes ==
    ASSUME SaveInv, RunningInv, NEW s \in Savers, \A o \in Savers \ {s} : Free(o),
           job[s].at # "update",
           NEW k, job' = [job EXCEPT ![s] = k], k.at \notin {"rebuild", "update", "reload", "health", "undoing"},
           UNCHANGED <<home, gw, timers>>
    PROVE  RunningInv'
<1>1. ServiceOK(job[s], home, gw, timers.undo)
  BY DEF RunningInv
<1>2. ServiceOK(k, home', gw', timers'.undo)
  BY <1>1 DEF ServiceOK, Revocable
<1> QED BY <1>2, ServiceTo

LEMMA BeginsServes ==
    ASSUME ~Overlap, SaveInv, RunningInv,
           \/ Sync \/ Exclude \/ Config \/ RestartService \/ SwitchAccount
           \/ UiModels \/ UiConfig \/ UiSwitch
    PROVE  RunningInv'
<1>1. PICK s \in Savers, kind \in CliKinds \union UiKinds, at \in {"fetch", "prompt", "write"} :
        \E want, touches : Enter(s, Job(kind, at, want, touches))
  BY DEF Sync, Exclude, Config, RestartService, SwitchAccount, UiModels, UiConfig, UiSwitch,
         Savers, CliKinds, UiKinds
<1>2. PICK want, touches : Enter(s, Job(kind, at, want, touches))
  BY <1>1
<1> DEFINE k == Job(kind, at, want, touches)
<1>3. /\ \A o \in Savers : Free(o)
      /\ job' = [job EXCEPT ![s] = k] /\ k.at = at
  BY <1>2 DEF Enter, Job
<1>4. UNCHANGED <<home, gw, timers>>
  BY DEF Sync, Exclude, Config, RestartService, SwitchAccount, UiModels, UiConfig, UiSwitch
<1>5. job[s].at \in {"done", "failed"}
  BY <1>3 DEF Free
<1> HIDE DEF k
<1> QED BY <1>3, <1>4, <1>5, CalmServes

(* What a save remembers will do for the gateway as it is. *)
TakesBack(j) ==
    /\ home.pending => j.saved.pending
    /\ SameModes(j.saved.conf, home.conf)
    /\ gw.at = "up" /\ timers.undo = 0 /\ ~j.saved.pending /\ gw.lost = {} /\ ~j.met => Cat(j.saved, gw)

(* A save puts back what it remembers, or asks for a restart. *)
LEMMA FailServes ==
    ASSUME SaveInv, RunningInv, NEW s \in Savers, NEW j, CanFail(s, j), Fails(s, j),
           j.kind = "config" \/ j.restarts \/ TakesBack(j)
    PROVE  RunningInv'
<1>1. /\ \A o \in Savers \ {s} : Free(o)
      /\ timers \in [save : Nat, undo : Nat] /\ j \in JobType /\ j.saved \in DiskType /\ gw \in GwType
  BY HeldJob DEF CanFail, JobType
<1>2. /\ ~Revocable(Resting("failed")) /\ Resting("failed").at = "failed"
  BY AfterRest
<1>3. CASE j.kind = "config" /\ s = "cli"
  <2>1. PICK ok \in BOOLEAN :
          /\ home' = Marked(j.saved) /\ UNCHANGED timers /\ Kicked(ok)
          /\ IF ok THEN job' = [job EXCEPT !["cli"] = [j EXCEPT !.at = "undoing"]]
             ELSE job' = [job EXCEPT !["cli"] = Resting("failed")]
    BY <1>3 DEF Fails, CliFails, CliRestored, Ends
  <2>2. CASE ok
    <3>1. gw'.at = "starting" /\ ~Revocable([j EXCEPT !.at = "undoing"])
      BY <1>1, <2>1, <2>2 DEF Kicked, Booting, Revocable, JobType
    <3>2. ServiceOK([j EXCEPT !.at = "undoing"], home', gw', timers'.undo)
      BY <3>1, Kicks
    <3> QED BY <1>1, <1>3, <2>1, <2>2, <3>2, ServiceTo
  <2>3. CASE ~ok
    <3>1. home'.pending
      BY <1>1, <2>1, <2>3, MarkedFiles
    <3>2. ServiceOK(Resting("failed"), home', gw', timers'.undo)
      BY <1>2, <3>1, Kicks
    <3> QED BY <1>1, <1>3, <2>1, <2>3, <3>2, ServiceTo
  <2> QED BY <2>2, <2>3
<1>4. CASE j.restarts /\ s = "ui"
  <2>1. /\ job' = [job EXCEPT !["ui"] = Resting("failed")]
        /\ timers' = [timers EXCEPT !.undo = @ + 1]
    BY <1>4 DEF Fails, UiFails, Ends
  <2>2. timers'.undo # 0
    BY <1>1, <2>1
  <2>3. ServiceOK(Resting("failed"), home', gw', timers'.undo)
    BY <1>2, <2>2, Kicks
  <2> QED BY <1>1, <1>4, <2>1, <2>3, ServiceTo
<1>5. CASE ~(j.kind = "config" /\ s = "cli") /\ ~(j.restarts /\ s = "ui")
  <2>1. j.kind # "config" /\ ~j.restarts
    <3>1. job[s].at \notin {"done", "failed"} /\ JobHolds(ownToml, s, job[s], home)
      BY HeldJob DEF CanFail, Free
    <3>2. s = "ui" => j.kind # "config"
      BY <3>1 DEF JobHolds, Placed, CanFail
    <3> QED BY <1>5, <3>2 DEF CanFail, Savers
  <2>2. TakesBack(j) /\ RunningInv /\ ServiceOK(job[s], home, gw, timers.undo)
    BY <2>1, ServiceHeld DEF CanFail
  <2>4. /\ job' = [job EXCEPT ![s] = Resting("failed")] /\ UNCHANGED timers /\ gw' = Undone(j)
        /\ home'.conf = j.saved.conf /\ home'.pending = j.saved.pending
        /\ home'.selected = j.saved.selected /\ home'.merged = j.saved.merged
    <3>1. CASE s = "cli"
      BY <2>1, <3>1 DEF Fails, CliFails, CliRestored, Ends
    <3>2. CASE s = "ui"
      BY <1>1, <2>1, <3>2 DEF Fails, UiFails, UiRestored, Ends, DiskType
    <3> QED BY <3>1, <3>2 DEF Savers
  <2>5. /\ gw'.at = gw.at /\ gw'.conf = gw.conf
        /\ gw'.lost = IF j.met THEN gw.lost \union {"catalog"} ELSE gw.lost
    BY <1>1, <2>4 DEF Undone, GwType
  <2>6. Cat(j.saved, gw) <=> Cat(home', gw')
    BY <2>4, <2>5 DEF Cat
  <2>7. SameModes(gw.conf, home.conf) => SameModes(gw'.conf, home'.conf)
    BY <2>2, <2>4, <2>5 DEF SameModes, TakesBack
  <2>8. ServiceOK(Resting("failed"), home', gw', timers'.undo)
    BY <1>2, <2>2, <2>4, <2>5, <2>6, <2>7 DEF ServiceOK, TakesBack
  <2> QED BY <1>1, <2>4, <2>8, ServiceTo
<1> QED BY <1>3, <1>4, <1>5

(* The update begins: of a save that may be taken back, or not.             *)
LEMMA BeginUpdateServes ==
    ASSUME SaveInv, RunningInv, NEW s \in Savers, NEW j, NEW d, CanFail(s, j), d \in DiskType,
           BeginUpdate(s, j, d),
           j.kind = "config" \/ j.restarts \/ TakesBack(j),
           NEW k, k = [j EXCEPT !.at = "update", !.source = d.toml], ServiceOK(k, d, gw, timers.undo)
    PROVE  RunningInv'
<1>1. CASE Refuses(d)
  BY <1>1, FailServes DEF BeginUpdate
<1>2. CASE ~Refuses(d)
  <2>1. home' = d /\ job' = [job EXCEPT ![s] = k] /\ UNCHANGED <<gw, timers>>
    BY <1>2 DEF BeginUpdate
  <2>2. \A o \in Savers \ {s} : Free(o)
    BY HeldJob DEF CanFail
  <2> QED BY <2>1, <2>2, ServiceTo
<1> QED BY <1>1, <1>2

LEMMA HeldTakesBack ==
    ASSUME SaveInv, RunningInv, NEW s \in Savers, Revocable(job[s])
    PROVE  TakesBack(job[s])
<1> DEFINE j == job[s]
<1>1. /\ j.at \in {"rebuild", "update", "reload"} /\ j.kind # "config" /\ ~j.restarts
  BY DEF Revocable
<1>2. ~Free(s) /\ JobHolds(ownToml, s, j, home)
  BY <1>1, HeldJob DEF Free
<1>3. ServiceOK(j, home, gw, timers.undo)
  BY <1>2, ServiceHeld
<1>4. SameModes(j.saved.conf, home.conf)
  <2>1. Placed(s, j)
    BY <1>1, <1>2 DEF JobHolds
  <2>2. j.kind # "switch" /\ (s = "ui" \/ j.kind \in {"sync", "exclude"})
    BY <1>1, <2>1 DEF Placed, Savers
  <2>3. j.saved.conf = j.began.conf
    BY <1>1, <1>2, <2>2 DEF JobHolds, Remembers
  <2>4. CASE j.at = "rebuild"
    BY <1>2, <2>3, <2>4 DEF JobHolds, Waiting, SameModes
  <2>5. CASE j.at \in {"update", "reload"}
    BY <1>1, <1>2, <2>2, <2>3, <2>5 DEF JobHolds, Written, SameModes
  <2> QED BY <1>1, <2>4, <2>5
<1> QED BY <1>3, <1>4 DEF TakesBack, ServiceOK

(* A save that is only being made: what it writes keeps the modes. *)
Keeping(s, j, d) ==
    /\ j \in JobType /\ job[s].at \in {"fetch", "prompt", "write", "rebuild"}
    /\ j.kind # "config" /\ ~j.restarts /\ SameModes(d.conf, home.conf) /\ d.pending = home.pending
    /\ j.saved = home \/ (j.saved = job[s].saved /\ j.met = job[s].met /\ Revocable(job[s]))

LEMMA SavesServe ==
    ASSUME SaveInv, RunningInv, NEW s \in Savers, NEW j, NEW d, Keeping(s, j, d),
           NEW k, k = [j EXCEPT !.at = "update", !.source = d.toml]
    PROVE  TakesBack(j) /\ ServiceOK(k, d, gw, timers.undo)
<1> USE DEF Keeping
<1>1. ~Free(s)
  BY DEF Free
<1>2. ServiceOK(job[s], home, gw, timers.undo)
  BY <1>1, ServiceHeld
<1>3. TakesBack(j)
  <2>1. CASE j.saved = home
    BY <1>2, <2>1 DEF TakesBack, ServiceOK, SameModes
  <2>2. CASE j.saved = job[s].saved /\ j.met = job[s].met /\ Revocable(job[s])
    BY <2>2, HeldTakesBack DEF TakesBack
  <2> QED BY <2>1, <2>2
<1>4. /\ k.at = "update" /\ k.kind = j.kind /\ k.restarts = j.restarts /\ k.saved = j.saved
      /\ k.met = j.met
  BY DEF JobType
<1>5. SameModes(gw.conf, home.conf) => SameModes(gw.conf, d.conf)
  BY DEF SameModes
<1>6. ServiceOK(k, d, gw, timers.undo)
  BY <1>2, <1>3, <1>4, <1>5 DEF ServiceOK, TakesBack
<1> QED BY <1>3, <1>6

LEMMA RestartsServes ==
    ASSUME SaveInv, RunningInv, NEW j \in JobType, NEW d \in DiskType, ~Free("cli"),
           j.kind = "config" => CanFail("cli", j), Restarts(j, d)
    PROVE  RunningInv'
<1>1. "cli" \in Savers /\ \A o \in Savers \ {"cli"} : Free(o)
  BY HeldJob DEF Savers
<1>2. PICK ok \in BOOLEAN :
        IF ok
        THEN /\ home' = Marked(d) /\ gw' = Booting /\ UNCHANGED timers
             /\ job' = [job EXCEPT !["cli"] = [j EXCEPT !.at = "health"]]
        ELSE IF j.kind = "config" THEN CliFails(j)
        ELSE home' = Marked(d) /\ Ends("cli", "failed") /\ UNCHANGED <<gw, timers>>
  BY DEF Restarts
<1>3. CASE ok
  <2>1. gw'.at = "starting" /\ ~Revocable([j EXCEPT !.at = "health"])
    BY <1>2, <1>3 DEF Booting, Revocable, JobType
  <2>2. ServiceOK([j EXCEPT !.at = "health"], home', gw', timers'.undo)
    BY <2>1, Kicks
  <2> QED BY <1>1, <1>2, <1>3, <2>2, ServiceTo
<1>4. CASE ~ok /\ j.kind = "config"
  BY <1>1, <1>2, <1>4, FailServes DEF Fails
<1>5. CASE ~ok /\ j.kind # "config"
  <2>1. home'.pending /\ job' = [job EXCEPT !["cli"] = Resting("failed")] /\ UNCHANGED <<gw, timers>>
    BY <1>2, <1>5, MarkedFiles DEF Ends
  <2>2. ServiceOK(Resting("failed"), home', gw', timers'.undo)
    BY <2>1, AfterRest, Kicks
  <2> QED BY <1>1, <2>1, <2>2, ServiceTo
<1> QED BY <1>3, <1>4, <1>5

LEMMA CommandsServe ==
    ASSUME SaveInv, RunningInv,
           \/ SyncFetched \/ SyncWrites \/ ExcludeWrites \/ Canceled \/ WritesAndRestarts \/ AccountChosen
    PROVE  RunningInv'
<1> DEFINE j == job["cli"]
<1>1. /\ "cli" \in Savers /\ j \in JobType /\ home \in DiskType /\ home.conf \in Settings /\ j.want \in Settings
      /\ JobHolds(ownToml, "cli", j, home)
  BY HeldJob DEF Savers
<1>2. /\ j.at \in {"fetch", "rebuild", "prompt", "write"}
  BY DEF SyncFetched, SyncWrites, ExcludeWrites, Canceled, WritesAndRestarts, AccountChosen
<1>w. /\ ~Free("cli") /\ Placed("cli", j) /\ ~j.restarts /\ Agree(j.began)
      /\ j.base = home.conf /\ j.began.conf = home.conf /\ Wants(j)
  BY <1>1, <1>2, HeldWaiting
<1>o. \A o \in Savers \ {"cli"} : Free(o)
  BY <1>1, <1>w, HeldJob
<1>h. ServiceOK(j, home, gw, timers.undo)
  BY <1>1, <1>w, ServiceHeld
<1>3. CASE SyncFetched
  <2> DEFINE k == [j EXCEPT !.saved = home, !.at = "rebuild", !.met = FALSE]
  <2>1. /\ j.at = "fetch" /\ job' = [job EXCEPT !["cli"] = k] /\ UNCHANGED <<home, gw, timers>>
    BY <1>1, <1>3 DEF SyncFetched, SaveInv, SettingsTypes
  <2>2. k.at = "rebuild" /\ k.saved = home
    BY <1>1 DEF JobType
  <2> HIDE DEF k, j
  <2>3. ServiceOK(k, home, gw, timers.undo)
    BY <1>h, <2>1, <2>2 DEF ServiceOK
  <2> QED BY <1>1, <1>o, <2>1, <2>3, ServiceTo
<1>4. CASE SyncWrites
  <2> DEFINE h == [home EXCEPT !.selected = j.want.models]
             d == Wrote(h, j.want)
  <2>1. /\ j.kind = "sync" /\ j.at = "rebuild" /\ BeginUpdate("cli", j, d)
    BY <1>4 DEF SyncWrites
  <2>2. h \in DiskType /\ h.pending = home.pending
    BY <1>1 DEF DiskType, Settings
  <2> HIDE DEF h
  <2>3. d \in DiskType /\ d.conf = j.want /\ d.pending = home.pending
    BY <1>1, <2>2, WroteFiles
  <2> HIDE DEF d
  <2>4. SameModes(d.conf, home.conf) /\ Revocable(j)
    BY <1>w, <2>1, <2>3 DEF SameModes, Wants, Revocable
  <2>u. PICK u : u = [j EXCEPT !.at = "update", !.source = d.toml]
    OBVIOUS
  <2>5. TakesBack(j) /\ ServiceOK(u, d, gw, timers.undo)
    <3>1. Keeping("cli", j, d)
      BY <1>1, <1>w, <2>1, <2>3, <2>4 DEF Keeping
    <3> QED BY <1>1, <2>u, <3>1, SavesServe
  <2> QED BY <1>1, <2>1, <2>3, <2>5, <2>u, HeldCanFail, BeginUpdateServes
<1>5. CASE ExcludeWrites
  <2> DEFINE k == [j EXCEPT !.saved = home, !.met = FALSE]
             d == Wrote(home, k.want)
  <2>1. /\ k.kind = "exclude" /\ k.at = "prompt" /\ BeginUpdate("cli", k, d)
    BY <1>5 DEF ExcludeWrites
  <2>2. /\ k \in JobType /\ k.saved = home /\ k.began = j.began /\ k.kind = j.kind /\ k.at = j.at
        /\ k.want = j.want /\ k.restarts = j.restarts
    BY <1>1 DEF JobType
  <2>3. Remembers(ownToml, k)
    BY <1>1, <2>1, <2>2, RememberedFiles
  <2>4. CanFail("cli", k)
    BY <1>w, <2>2, <2>3 DEF CanFail
  <2> HIDE DEF k
  <2>5. d \in DiskType /\ d.conf = k.want /\ d.pending = home.pending
    BY <1>1, <2>2, WroteFiles
  <2> HIDE DEF d
  <2>6. SameModes(d.conf, home.conf)
    BY <1>w, <2>1, <2>2, <2>5 DEF SameModes, Wants
  <2>u. PICK u : u = [k EXCEPT !.at = "update", !.source = d.toml]
    OBVIOUS
  <2>7. TakesBack(k) /\ ServiceOK(u, d, gw, timers.undo)
    <3>1. Keeping("cli", k, d)
      BY <1>1, <1>w, <2>1, <2>2, <2>5, <2>6 DEF Keeping
    <3> QED BY <1>1, <2>u, <3>1, SavesServe
  <2> QED BY <1>1, <2>1, <2>4, <2>5, <2>7, <2>u, BeginUpdateServes
<1>6. CASE Canceled
  <2>1. j.at = "prompt" /\ job' = [job EXCEPT !["cli"] = Resting("done")] /\ UNCHANGED <<home, gw, timers>>
    BY <1>6 DEF Canceled, Ends
  <2> QED BY <1>1, <1>o, <2>1, AfterRest, CalmServes
<1>7. CASE WritesAndRestarts
  <2> DEFINE want == IF j.kind = "restart" THEN home.conf
                     ELSE [home.conf EXCEPT !.static = j.want.static, !.switch = j.want.switch]
             k == [j EXCEPT !.saved = home, !.want = want, !.met = FALSE]
             d == Wrote(home, want)
  <2>1. j.at = "write" /\ Restarts(k, d)
    BY <1>7 DEF WritesAndRestarts
  <2>2. want \in Settings
    BY <1>1 DEF Settings
  <2> HIDE DEF want
  <2>3. /\ k \in JobType /\ k.saved = home /\ k.began = j.began /\ k.kind = j.kind /\ k.restarts = j.restarts
    BY <1>1, <2>2 DEF JobType
  <2>4. d \in DiskType
    BY <1>1, <2>2, WroteFiles
  <2>5. Remembers(ownToml, k)
    BY <1>1, <2>1, <2>3, RememberedFiles
  <2>6. CanFail("cli", k)
    BY <1>w, <2>3, <2>5 DEF CanFail
  <2> HIDE DEF k, d
  <2> QED BY <1>w, <2>1, <2>3, <2>4, <2>6, RestartsServes
<1>8. CASE AccountChosen
  <2>1. /\ j.kind = "switch" /\ j.at = "prompt"
        /\ IF j.want = j.base
           THEN job' = [job EXCEPT !["cli"] = Resting("done")] /\ UNCHANGED <<home, gw, timers>>
           ELSE Restarts(j, Wrote(home, j.want))
    BY <1>8 DEF AccountChosen, Ends
  <2>2. CASE j.want = j.base
    BY <1>1, <1>o, <2>1, <2>2, AfterRest, CalmServes
  <2>3. CASE j.want # j.base
    <3>1. Wrote(home, j.want) \in DiskType
      BY <1>1, WroteFiles
    <3> QED BY <1>1, <1>w, <2>1, <2>3, <3>1, RestartsServes
  <2> QED BY <2>2, <2>3
<1> QED BY <1>3, <1>4, <1>5, <1>6, <1>7, <1>8

LEMMA StopStartServes ==
    ASSUME ~Overlap, SaveInv, RunningInv, StopService \/ StartService
    PROVE  RunningInv'
<1>1. /\ "cli" \in Savers /\ \A o \in Savers \ {"cli"} : Free(o)
      /\ job' = [job EXCEPT !["cli"] = Resting("done")] /\ gw'.at \in {"down", "starting"}
  BY DEF Savers, StopService, StartService, Enter, Down, Booting
<1>2. ServiceOK(Resting("done"), home', gw', timers'.undo)
  BY <1>1, AfterRest, Kicks
<1> QED BY <1>1, <1>2, ServiceTo

LEMMA HealthServes == SaveInv /\ RunningInv /\ (Healthy \/ Unhealthy) => RunningInv'
<1> SUFFICES ASSUME SaveInv, RunningInv, Healthy \/ Unhealthy PROVE RunningInv'
  OBVIOUS
<1> DEFINE j == job["cli"]
           d == [home EXCEPT !.pending = FALSE]
<1>1. /\ "cli" \in Savers /\ j \in JobType /\ home \in DiskType
  BY HeldJob DEF Savers
<1>2. /\ d \in DiskType /\ d.conf = home.conf /\ d.pending = FALSE /\ d.selected = home.selected
      /\ d.merged = home.merged
  BY <1>1 DEF DiskType
<1>3. j.at \in {"health", "undoing"}
  BY DEF Healthy, Unhealthy
<1>4. ~Free("cli")
  BY <1>3 DEF Free
<1>o. \A o \in Savers \ {"cli"} : Free(o)
  BY <1>1, <1>4, HeldJob
<1>h. ServiceOK(j, home, gw, timers.undo)
  BY <1>1, <1>4, ServiceHeld
<1> HIDE DEF d
<1>5. ASSUME NEW k, k.at = "update" => k.kind = "config",
             k.at \notin {"rebuild", "reload", "health", "undoing"}, gw.at = "up"
      PROVE  ServiceOK(k, d, gw, timers.undo)
  <2>1. ~Revocable(k)
    BY <1>5 DEF Revocable
  <2>2. SameModes(gw.conf, d.conf) /\ Cat(d, gw)
    BY <1>2, <1>3, <1>5, <1>h DEF ServiceOK, SameModes, Cat
  <2> QED BY <1>2, <1>5, <2>1, <2>2 DEF ServiceOK
<1>6. CASE Healthy /\ j.at = "health" /\ j.kind = "config" /\ j.touches
  <2>1. BeginUpdate("cli", j, d) /\ gw.at = "up"
    BY <1>6 DEF Healthy, d
  <2>2. CanFail("cli", j)
    BY <1>1, <1>6, HeldCanFail
  <2>3. PICK k : k = [j EXCEPT !.at = "update", !.source = d.toml]
    OBVIOUS
  <2>4. k.at = "update" /\ k.kind = "config"
    BY <1>1, <1>6, <2>3 DEF JobType
  <2>5. ServiceOK(k, d, gw, timers.undo)
    BY <1>5, <2>1, <2>4
  <2> QED BY <1>1, <1>2, <1>6, <2>1, <2>2, <2>3, <2>5, BeginUpdateServes
<1>7. CASE Healthy /\ ~(j.at = "health" /\ j.kind = "config" /\ j.touches)
  <2> DEFINE at == IF j.at = "undoing" THEN "failed" ELSE "done"
  <2>1. /\ home' = d /\ UNCHANGED <<gw, timers>> /\ gw.at = "up"
        /\ job' = [job EXCEPT !["cli"] = Resting(at)]
    BY <1>7 DEF Healthy, d, Ends
  <2>2. at \in {"done", "failed"}
    OBVIOUS
  <2> HIDE DEF at
  <2>3. Resting(at).at = at
    BY <2>2, AfterRest
  <2>4. ServiceOK(Resting(at), d, gw, timers.undo)
    BY <1>5, <2>1, <2>2, <2>3
  <2> QED BY <1>1, <1>o, <2>1, <2>4, ServiceTo
<1>8. CASE Unhealthy /\ j.at = "health" /\ j.kind = "config"
  <2>1. CliFails(j) /\ CanFail("cli", j)
    BY <1>1, <1>8, HeldCanFail DEF Unhealthy
  <2> QED BY <1>1, <1>8, <2>1, FailServes DEF Fails
<1>9. CASE Unhealthy /\ ~(j.at = "health" /\ j.kind = "config")
  <2>1. /\ job' = [job EXCEPT !["cli"] = Resting("failed")] /\ UNCHANGED <<home, gw, timers>> /\ gw.at # "up"
    BY <1>9 DEF Unhealthy, Ends
  <2>2. ServiceOK(Resting("failed"), home', gw', timers'.undo)
    BY <1>h, <2>1, AfterRest DEF ServiceOK
  <2> QED BY <1>1, <1>o, <2>1, <2>2, ServiceTo
<1> QED BY <1>6, <1>7, <1>8, <1>9

(* A reload publishes what the gateway has loaded. *)
LEMMA ReloadServes ==
    ASSUME SaveInv, NEW j, NEW k, ServiceOK(j, home, gw, timers.undo),
           j.at \notin {"update", "health", "undoing"}, k.at \notin {"update", "health", "undoing"}, ~Revocable(k),
           gw.at = "up", gw' = [gw EXCEPT !.conf = Reloaded(@, home)],
           home' = PublishCatalog(home, gw'.conf), UNCHANGED timers
    PROVE  ServiceOK(k, home', gw', timers'.undo)
<1>1. /\ home \in DiskType /\ home.conf \in Settings /\ gw \in GwType /\ gw.conf \in Settings
  BY HeldJob DEF Savers
<1>2. gw'.at = "up" /\ gw'.conf = Reloaded(gw.conf, home) /\ gw'.lost = gw.lost
  BY <1>1 DEF GwType
<1>3. gw'.conf \in Settings /\ SameModes(gw'.conf, gw.conf)
  BY <1>1, <1>2, ReloadedSettings
<1>4. /\ home'.conf = home.conf /\ home'.selected = home.selected /\ home'.pending = home.pending
      /\ home'.merged = IF gw'.conf.static THEN Merge(gw'.conf, home.selected) ELSE home.merged
  BY <1>1, <1>3, Published
<1>5. SameModes(gw.conf, home.conf) => SameModes(gw'.conf, home'.conf) /\ Cat(home', gw')
  BY <1>3, <1>4 DEF SameModes, Cat
<1> QED BY <1>2, <1>4, <1>5 DEF ServiceOK

LEMMA SharedServe ==
    ASSUME SaveInv, RunningInv, NEW s \in Savers,
           \/ FetchFails(s) \/ RebuildFails(s) \/ UpdateDone(s) \/ UpdateFails(s)
           \/ ReloadAnswered(s) \/ ReloadMissed(s)
    PROVE  RunningInv'
<1> DEFINE j == job[s]
<1>1. /\ j \in JobType /\ home \in DiskType /\ home.conf \in Settings /\ JobHolds(ownToml, s, j, home)
  BY HeldJob
<1>2. j.at \in {"fetch", "rebuild", "update", "reload"}
  BY DEF FetchFails, RebuildFails, UpdateDone, UpdateFails, ReloadAnswered, ReloadMissed
<1>3. ~Free(s)
  BY <1>2 DEF Free
<1>o. \A o \in Savers \ {s} : Free(o)
  BY <1>3, HeldJob
<1>h. ServiceOK(j, home, gw, timers.undo)
  BY <1>3, ServiceHeld
<1>p. Placed(s, j)
  BY <1>1, <1>2 DEF JobHolds
<1>r. j.at \in {"rebuild", "reload"} => Revocable(j)
  BY <1>p DEF Placed, Revocable, Savers
<1>4. CASE FetchFails(s)
  <2>1. j.at = "fetch" /\ job' = [job EXCEPT ![s] = Resting("failed")] /\ UNCHANGED <<home, gw, timers>>
    BY <1>4 DEF FetchFails, Ends
  <2> QED BY <1>o, <2>1, AfterRest, CalmServes
<1>5. ASSUME Fails(s, j), j.at \in {"rebuild", "update", "reload"} PROVE RunningInv'
  <2>1. CanFail(s, j)
    BY <1>5, HeldCanFail
  <2>2. j.kind = "config" \/ j.restarts \/ Revocable(j)
    BY <1>5 DEF Revocable
  <2> QED BY <1>5, <2>1, <2>2, HeldTakesBack, FailServes
<1>6. CASE RebuildFails(s) \/ UpdateFails(s)
  BY <1>5, <1>6 DEF RebuildFails, UpdateFails
<1>7. CASE UpdateDone(s)
  <2> DEFINE u == Updated(j)
             k == [j EXCEPT !.at = "reload", !.expected = u.toml]
  <2>1. /\ j.at = "update" /\ ~Conflict(j) /\ home' = u /\ UNCHANGED <<gw, timers>>
    BY <1>7 DEF UpdateDone
  <2>2. \/ job' = [job EXCEPT ![s] = Resting("done")]
        \/ j.kind # "config" /\ ~j.restarts /\ job' = [job EXCEPT ![s].at = "reload", ![s].expected = home'.toml]
    BY <1>7 DEF UpdateDone, Ends
  <2>3. /\ u.conf = home.conf /\ u.pending = home.pending /\ u.selected = home.selected
        /\ u.merged = IF home.conf.static THEN Merge(home.conf, home.selected) ELSE home.merged
    BY <2>1, UpdatedFiles
  <2>c. Cat(u, gw)
    BY <2>3 DEF Cat
  <2> HIDE DEF u
  <2>4. CASE job' = [job EXCEPT ![s] = Resting("done")]
    <3>1. ServiceOK(Resting("done"), u, gw, timers.undo)
      BY <1>h, <2>1, <2>3, <2>c, AfterRest DEF ServiceOK, SameModes
    <3> QED BY <1>o, <2>1, <2>4, <3>1, ServiceTo
  <2>5. CASE j.kind # "config" /\ ~j.restarts /\ job' = [job EXCEPT ![s].at = "reload", ![s].expected = home'.toml]
    <3>1. job' = [job EXCEPT ![s] = k]
      BY <2>1, <2>5 DEF SaveInv, SettingsTypes
    <3>2. k.at = "reload" /\ k.saved = j.saved /\ k.met = j.met /\ Revocable(j)
      BY <1>1, <2>1, <2>5 DEF JobType, Revocable
    <3> HIDE DEF k, j
    <3>3. ServiceOK(k, u, gw, timers.undo)
      BY <1>h, <2>1, <2>3, <2>c, <3>2 DEF ServiceOK, SameModes
    <3> QED BY <1>o, <2>1, <3>1, <3>3, ServiceTo
  <2> QED BY <2>2, <2>4, <2>5
<1>8. CASE ReloadAnswered(s)
  <2>1. /\ j.at = "reload" /\ gw.at = "up" /\ gw' = [gw EXCEPT !.conf = Reloaded(@, home)]
        /\ home' = PublishCatalog(home, gw'.conf) /\ UNCHANGED timers
        /\ job' = [job EXCEPT ![s] = Resting("done")]
    BY <1>8 DEF ReloadAnswered, Ends
  <2>2. ServiceOK(Resting("done"), home', gw', timers'.undo)
    BY <1>h, <2>1, AfterRest, ReloadServes
  <2> QED BY <1>o, <2>1, <2>2, ServiceTo
<1>9. CASE ReloadMissed(s)
  <2>1. /\ j.at = "reload"
        /\ IF s = "cli" THEN job' = [job EXCEPT ![s] = Resting("done")] /\ UNCHANGED <<home, gw, timers>>
           ELSE UiFails(j)
    BY <1>9 DEF ReloadMissed, Ends
  <2>2. CASE s = "cli"
    BY <1>o, <2>1, <2>2, AfterRest, CalmServes
  <2>3. CASE s # "cli"
    BY <1>5, <2>1, <2>3 DEF Fails
  <2> QED BY <2>2, <2>3
<1> QED BY <1>4, <1>6, <1>7, <1>8, <1>9

LEMMA UiLateServes ==
    SaveInv /\ RunningInv /\ (UiReloaded \/ UiUpdates \/ UiGivesUp) => RunningInv'
<1> SUFFICES ASSUME SaveInv, RunningInv, UiReloaded \/ UiUpdates \/ UiGivesUp PROVE RunningInv'
  OBVIOUS
<1> DEFINE j == job["ui"]
<1>1. /\ "ui" \in Savers /\ j \in JobType /\ home \in DiskType
  BY HeldJob DEF Savers
<1>2. j.at \in {"restart", "reloaded"}
  BY DEF UiReloaded, UiUpdates, UiGivesUp
<1>3. ~Free("ui") /\ Placed("ui", j) /\ CanFail("ui", j)
  BY <1>1, <1>2, HeldWritten, HeldCanFail
<1>o. \A o \in Savers \ {"ui"} : Free(o)
  BY <1>1, <1>3, HeldJob
<1>h. ServiceOK(j, home, gw, timers.undo)
  BY <1>1, <1>3, ServiceHeld
<1>r. j.restarts
  BY <1>2, <1>3 DEF Placed
<1>4. CASE UiReloaded
  <2> DEFINE k == [j EXCEPT !.at = "reloaded"]
  <2>1. /\ j.at = "restart" /\ gw.at = "up" /\ gw' = [gw EXCEPT !.conf = Reloaded(@, home)]
        /\ home' = PublishCatalog(home, gw'.conf) /\ UNCHANGED timers
        /\ job' = [job EXCEPT !["ui"] = k]
    BY <1>1, <1>4 DEF UiReloaded, SaveInv, SettingsTypes
  <2>2. k.at = "reloaded" /\ ~Revocable(k)
    BY <1>1 DEF JobType, Revocable
  <2> HIDE DEF k
  <2>3. ServiceOK(k, home', gw', timers'.undo)
    BY <1>h, <2>1, <2>2, ReloadServes
  <2> QED BY <1>1, <1>o, <2>1, <2>3, ServiceTo
<1>5. CASE UiUpdates
  <2>1. BeginUpdate("ui", j, home) /\ j.at = "reloaded"
    BY <1>5 DEF UiUpdates
  <2>2. PICK k : k = [j EXCEPT !.at = "update", !.source = home.toml]
    OBVIOUS
  <2>3. k.at = "update" /\ k.restarts
    BY <1>1, <1>r, <2>2 DEF JobType
  <2>4. ServiceOK(k, home, gw, timers.undo)
    BY <1>h, <2>1, <2>3 DEF ServiceOK, Revocable
  <2> QED BY <1>1, <1>3, <1>r, <2>1, <2>2, <2>4, BeginUpdateServes
<1>6. CASE UiGivesUp
  <2>1. UiFails(j)
    BY <1>6 DEF UiGivesUp
  <2> QED BY <1>1, <1>3, <1>r, <2>1, FailServes DEF Fails
<1> QED BY <1>4, <1>5, <1>6

LEMMA UiSavesServe == SaveInv /\ RunningInv /\ (UiFetched \/ UiWrites) => RunningInv'
<1> SUFFICES ASSUME SaveInv, RunningInv, UiFetched \/ UiWrites PROVE RunningInv'
  OBVIOUS
<1> DEFINE j0 == job["ui"]
<1>1. /\ "ui" \in Savers /\ j0 \in JobType /\ home \in DiskType /\ home.conf \in Settings
      /\ timers \in [save : Nat, undo : Nat] /\ JobHolds(ownToml, "ui", j0, home)
  BY HeldJob DEF Savers
<1>2. j0.at \in {"fetch", "rebuild", "write"}
  BY DEF UiFetched, UiWrites
<1>w. /\ ~Free("ui") /\ Placed("ui", j0) /\ Agree(j0.began) /\ ~j0.restarts
      /\ j0.base = home.conf /\ j0.began.conf = home.conf /\ Wants(j0)
      /\ home.toml.edits >= j0.began.toml.edits /\ PointsRight(ownToml, home.toml, home.conf)
  BY <1>1, <1>2, HeldWaiting
<1>o. \A o \in Savers \ {"ui"} : Free(o)
  BY <1>1, <1>w, HeldJob
<1>h. ServiceOK(j0, home, gw, timers.undo)
  BY <1>1, <1>w, ServiceHeld
<1>3. CASE UiFetched
  <2> DEFINE k == Remember(j0)
  <2>1. /\ j0.at = "fetch" /\ UNCHANGED <<home, gw, timers>>
        /\ job' = [job EXCEPT !["ui"] = Resting("failed")] \/ job' = [job EXCEPT !["ui"] = k]
    BY <1>3 DEF UiFetched, Ends
  <2>2. k.at = "rebuild" /\ k.saved = home
    BY <2>1, RememberedJob
  <2> HIDE DEF k
  <2>3. CASE job' = [job EXCEPT !["ui"] = Resting("failed")]
    BY <1>1, <1>o, <2>1, <2>3, AfterRest, CalmServes
  <2>4. CASE job' = [job EXCEPT !["ui"] = k]
    <3>1. ServiceOK(k, home, gw, timers.undo)
      BY <1>2, <1>h, <2>1, <2>2 DEF ServiceOK
    <3> QED BY <1>1, <1>o, <2>1, <2>4, <3>1, ServiceTo
  <2> QED BY <2>1, <2>3, <2>4
<1>4. CASE UiWrites
  <2> DEFINE was == IF j0.at = "write" THEN Remember(j0) ELSE j0
             c == Applied(was, home.conf)
             w1 == Wrote(home, c)
             w == IF was.kind = "uiswitch" THEN w1 ELSE [w1 EXCEPT !.selected = c.models]
             j == [was EXCEPT !.restarts = c.switch # home.conf.switch,
                              !.want = IF was.kind = "uimodels" THEN @ ELSE c]
             m == Marked(w)
             k == [j EXCEPT !.at = "restart"]
  <2>1. j0.at \in {"rebuild", "write"} /\ UiWrite(was)
    BY <1>4 DEF UiWrites
  <2>2. /\ was \in JobType /\ was.at = "rebuild" /\ was.began = j0.began /\ was.kind = j0.kind
        /\ was.base = home.conf /\ was.touches = j0.touches
        /\ Remembers(ownToml, was) /\ Spares(was, home) /\ Wants(was)
        /\ (was.saved = home \/ (was.saved = j0.saved /\ was.met = j0.met /\ j0.at = "rebuild"))
    <3>1. CASE j0.at = "write"
      <4>1. was = Remember(job["ui"])
        BY <3>1
      <4> HIDE DEF was
      <4> QED BY <1>w, <3>1, <4>1, RememberedJob DEF Waiting
    <3>2. CASE j0.at = "rebuild"
      <4>1. was = j0
        BY <3>2
      <4> HIDE DEF was, j0
      <4>2. j0.kind # "switch"
        BY <1>w DEF Placed
      <4> QED BY <1>1, <1>w, <3>2, <4>1, <4>2 DEF JobHolds, Waiting
    <3> HIDE DEF was, j0
    <3> QED BY <2>1, <3>1, <3>2
  <2>3. was.kind \in UiKinds
    BY <1>w, <2>2 DEF Placed, UiKinds
  <2>4. UiWrite(was) /\ (j0.at = "rebuild" => Revocable(j0))
    BY <1>w, <2>1 DEF Placed, Revocable
  <2> HIDE DEF was
  <2>5. /\ c \in Settings /\ c.static = home.conf.static
        /\ was.kind = "uiswitch" => c.models = home.conf.models
        /\ was.kind = "uimodels" => c = was.want
        /\ was.kind = "uiswitch" /\ ~was.touches => c.excluded = home.conf.excluded
        /\ was.kind # "uiswitch" => was.touches
    BY <1>1, <2>2, <2>3, AppliedSettings DEF Wants, UiKinds
  <2> HIDE DEF c
  <2>6. /\ w1 \in DiskType /\ w1.conf = c /\ w1.pending = home.pending /\ w1.merged = home.merged
        /\ w1.selected = home.selected /\ w1.toml = home.toml /\ w1.hash = home.hash /\ w1.stateConf = c
    BY <1>1, <2>5, WroteFiles
  <2> HIDE DEF w1
  <2>7. /\ w \in DiskType /\ w.conf = c /\ w.pending = home.pending /\ w.merged = home.merged
        /\ w.toml = home.toml
        /\ was.kind = "uiswitch" => w.selected = home.selected
    BY <2>5, <2>6 DEF DiskType, Settings
  <2> HIDE DEF w
  <2>8. /\ j \in JobType /\ j.began = was.began /\ j.kind = was.kind /\ j.saved = was.saved
        /\ j.met = was.met /\ j.expected = was.expected /\ j.restarts = (c.switch # home.conf.switch) /\ j.touches = was.touches
    BY <2>2, <2>5 DEF JobType
  <2>9. IF j.restarts
        THEN /\ home' = m /\ timers' = [timers EXCEPT !.save = @ + 1] /\ UNCHANGED gw
             /\ job' = [job EXCEPT !["ui"] = IF j.touches THEN k ELSE Resting("done")]
        ELSE IF j.touches THEN BeginUpdate("ui", j, w)
        ELSE home' = w /\ job' = [job EXCEPT !["ui"] = Resting("done")] /\ UNCHANGED <<gw, timers>>
    BY <2>4 DEF UiWrite, w, w1, c, Ends
  <2>10. k.at = "restart"
    BY <2>8 DEF JobType
  <2> HIDE DEF j, k
  <2>11. CASE j.restarts
    <3>1. home'.pending = TRUE /\ timers'.undo = timers.undo /\ gw' = gw
      BY <1>1, <2>7, <2>9, <2>11, MarkedFiles
    <3> DEFINE l == IF j.touches THEN k ELSE Resting("done")
    <3>2. l.at \in {"restart", "done"}
      BY <2>10, AfterRest
    <3>3. job' = [job EXCEPT !["ui"] = l]
      BY <2>9, <2>11
    <3> HIDE DEF l
    <3>4. ServiceOK(l, home', gw', timers'.undo)
      BY <3>1, <3>2, Kicks DEF Revocable
    <3> QED BY <1>1, <1>o, <3>3, <3>4, ServiceTo
  <2>12. CASE ~j.restarts
    <3>1. c.switch = home.conf.switch /\ SameModes(w.conf, home.conf)
      BY <2>5, <2>7, <2>8, <2>12 DEF SameModes
    <3>2. CASE j.touches
      <4>1. BeginUpdate("ui", j, w)
        BY <2>9, <2>12, <3>2
      <4>2. CanFail("ui", j)
        BY <1>w, <2>2, <2>8, <2>12 DEF CanFail, Remembers, Spares
      <4>3. Keeping("ui", j, w)
        BY <1>2, <2>2, <2>3, <2>4, <2>7, <2>8, <2>12, <3>1 DEF Keeping, UiKinds
      <4>4. PICK u : u = [j EXCEPT !.at = "update", !.source = w.toml]
        OBVIOUS
      <4>5. TakesBack(j) /\ ServiceOK(u, w, gw, timers.undo)
        BY <1>1, <4>3, <4>4, SavesServe
      <4> QED BY <1>1, <2>7, <4>1, <4>2, <4>4, <4>5, BeginUpdateServes
    <3>3. CASE ~j.touches
      <4>1. home' = w /\ job' = [job EXCEPT !["ui"] = Resting("done")] /\ UNCHANGED <<gw, timers>>
        BY <2>9, <2>12, <3>3
      <4>2. was.kind = "uiswitch"
        BY <2>5, <2>8, <3>3
      <4>3. c = home.conf
        BY <1>1, <2>5, <2>8, <3>1, <3>3, <4>2 DEF Settings
      <4>4. ServiceOK(Resting("done"), w, gw, timers.undo)
        BY <1>2, <1>h, <2>1, <2>7, <4>2, <4>3, AfterRest DEF ServiceOK, Cat
      <4> QED BY <1>1, <1>o, <4>1, <4>4, ServiceTo
    <3> QED BY <3>2, <3>3
  <2> QED BY <2>11, <2>12
<1> QED BY <1>3, <1>4

-----------------------------------------------------------------------------
LEMMA RunningInvInit == SettingsInit => RunningInv
<1> SUFFICES ASSUME SettingsInit PROVE RunningInv
  OBVIOUS
<1>1. PICK c, t : /\ home = [conf |-> c, pending |-> FALSE, stateConf |-> c, hash |-> t,
                             toml |-> t, selected |-> 0, merged |-> Merge(c, 0)]
                  /\ gw = [at |-> "up", conf |-> c, lost |-> {}]
  BY DEF SettingsInit
<1>2. /\ home.conf = c /\ home.merged = Merge(home.conf, home.selected) /\ gw.conf = c /\ gw.at = "up"
  BY <1>1
<1>3. job = [s \in Savers |-> Resting("done")]
  BY DEF SettingsInit
<1>4. ServiceOK(Resting("done"), home, gw, timers.undo)
  BY <1>2, AfterRest DEF ServiceOK, SameModes, Cat
<1> QED BY <1>3, <1>4 DEF RunningInv

LEMMA RunningInvStep ==
    ~Overlap /\ SaveInv /\ RunningInv /\ [SettingsNext]_settingVars => RunningInv'
<1> SUFFICES ASSUME ~Overlap, SaveInv, RunningInv, [SettingsNext]_settingVars PROVE RunningInv'
  OBVIOUS
<1>1. CASE UNCHANGED settingVars
  BY <1>1 DEF settingVars, RunningInv, Free
<1>2. CASE SettingsNext
  <2>1. CASE \/ GwLoad \/ GwClear \/ GwReady \/ GwReload \/ GwExit \/ EditToml
             \/ \E k \in {"save", "undo"} : TimerFires(k)
    BY <2>1, GatewayServes
  <2>2. CASE Sync \/ Exclude \/ Config \/ RestartService \/ SwitchAccount \/ UiModels \/ UiConfig \/ UiSwitch
    BY <2>2, BeginsServes
  <2>3. CASE SyncFetched \/ SyncWrites \/ ExcludeWrites \/ Canceled \/ WritesAndRestarts \/ AccountChosen
    BY <2>3, CommandsServe
  <2>4. CASE StopService \/ StartService
    BY <2>4, StopStartServes
  <2>5. CASE Healthy \/ Unhealthy
    BY <2>5, HealthServes
  <2>6. CASE \E s \in Savers : FetchFails(s) \/ RebuildFails(s) \/ UpdateDone(s) \/ UpdateFails(s)
                               \/ ReloadAnswered(s) \/ ReloadMissed(s)
    BY <2>6, SharedServe
  <2>7. CASE UiFetched \/ UiWrites \/ UiReloaded \/ UiUpdates \/ UiGivesUp
    BY <2>7, UiSavesServe, UiLateServes
  <2> QED BY <1>2, <2>1, <2>2, <2>3, <2>4, <2>5, <2>6, <2>7 DEF SettingsNext
<1> QED BY <1>1, <1>2

LEMMA InvAtRest == SaveInv /\ RunningInv => HomeAtRest
<1> SUFFICES ASSUME SaveInv, RunningInv, AtRest PROVE HomeAtRest
  BY DEF HomeAtRest, FilesAgree, DueIsMarked
<1>1. /\ \A s \in Savers : Free(s)
      /\ timers.undo = 0 /\ "cli" \in Savers
  BY DEF AtRest, Savers
<1>2. ServiceOK(job["cli"], home, gw, timers.undo)
  BY <1>1 DEF RunningInv
<1>3. job["cli"].at \in {"done", "failed"}
  BY <1>1 DEF Free
<1>4. /\ gw.at = "up" => SameModes(gw.conf, home.conf) \/ home.pending \/ "mark" \in gw.lost
      /\ gw.at = "up" /\ ~home.pending /\ gw.lost = {} => Cat(home, gw)
  BY <1>1, <1>2, <1>3 DEF ServiceOK
<1>5. Agree(home) /\ PointsRight(ownToml, home.toml, home.conf) /\ home.toml \in TomlType /\ ownToml \in BOOLEAN
  BY <1>1, HeldJob DEF SaveInv
<1>6. ~Refuses(home) => home.toml = Pointed(home.toml, home.conf)
  BY <1>5 DEF Refuses, PointsRight, Pointed, TomlType
<1>7. FilesAgree
  BY <1>4, <1>5, <1>6 DEF FilesAgree, Agree, Cat
<1>8. DueIsMarked
  BY <1>4 DEF DueIsMarked, Behind, SameModes
<1> QED BY <1>7, <1>8 DEF HomeAtRest

(* When nothing is under way the files agree, and the gateway runs with     *)
(* them or its restart is marked, however many saves, failures, restarts,   *)
(* edits and exits there were, unless the gateway has cleared a mark that   *)
(* was not for it or the restart after a failed save has failed too, and so *)
(* long as no command runs beside a save of the Web UI (restartGatewayOnce, *)
(* modelSaveRollback, clearPendingRestart).                                 *)
THEOREM HomesRest == ~Overlap => (SettingsSpec => []HomeAtRest)
<1> SUFFICES ASSUME ~Overlap PROVE SettingsSpec => []HomeAtRest
  OBVIOUS
<1>1. SaveInv /\ [SettingsNext]_settingVars => SaveInv'
  BY SaveInvStep
<1>2. SaveInv /\ RunningInv /\ [SettingsNext]_settingVars => RunningInv'
  BY RunningInvStep
<1> QED BY <1>1, <1>2, SaveInvInit, RunningInvInit, InvAtRest, PTL DEF SettingsSpec
=============================================================================
