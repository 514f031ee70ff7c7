---------------------------- MODULE CatalogProofs ----------------------------
(***************************************************************************)
(* Theorems about the logins and catalogs of two plugins: CodebuddyCatalog *)
(* and CodebuddyLogins, for any families, accounts, callers, files,        *)
(* requests and bounds; QoderCatalog, for any logins, models and callers.  *)
(*                                                                         *)
(* Qoder: who waits for a demanded refresh saw a forced fetch begin or one *)
(* is due, and between the two readings of the login there is one change   *)
(* at most.                                                                *)
(***************************************************************************)
EXTENDS CodebuddyLogins, CodebuddyCatalog, QoderCatalog, FiniteSetTheorems, WellFoundedInduction, TLAPS


(* What the file and memory hold is of a type. *)
LEMMA EntryFields ==
    ASSUME CatalogTypeOK, NEW f \in Families
    PROVE  /\ cached[f] # NoEntry => cached[f] \in Entries
           /\ disk[f] # NoEntry => disk[f] \in Entries
           /\ account[f] \in Keys \union {NoKey}
BY DEF CatalogTypeOK

LEMMA EntryMade ==
    ASSUME CatalogTypeOK, NEW key \in Keys, NEW e, e = [key |-> key, of |-> key, at |-> clock]
    PROVE  e \in Entries /\ e # NoEntry
BY CatalogAssumption DEF CatalogTypeOK, Entries, CatalogAssumption

LEMMA LookedType == CatalogTypeOK => Looked \in [Families -> Entries \union {NoEntry}]
BY DEF CatalogTypeOK, Looked

LEMMA RereadType ==
    ASSUME CatalogTypeOK, NEW reload \in BOOLEAN
    PROVE  Reread(reload) \in [Families -> Entries \union {NoEntry}]
BY DEF CatalogTypeOK, Reread

LEMMA ToFetchType ==
    ASSUME CatalogTypeOK, NEW force
    PROVE  ToFetch(force) \subseteq Targets
BY DEF CatalogTypeOK, ToFetch, Targets, Available

LEMMA CatalogTypesInit == CatalogInit => CatalogTypeOK
<1> SUFFICES ASSUME CatalogInit PROVE CatalogTypeOK
  OBVIOUS
<1>1. Uncalled \in [phase : Phases, kind : Kinds] /\ Uncalled.phase = "idle"
  BY DEF Uncalled, Phases, Kinds
<1>2. Quiet \in [on : BOOLEAN, force : BOOLEAN, todo : SUBSET Targets] /\ Quiet.todo = {} /\ Quiet.force = FALSE
  BY DEF Quiet
<1>3. Waiting = {}
  BY <1>1 DEF CatalogInit, Waiting
<1>4. account \in [Families -> Keys \union {NoKey}] /\ manual \in BOOLEAN
  BY DEF CatalogInit
<1>5. {cached, disk} \subseteq [Families -> Entries \union {NoEntry}]
  BY DEF CatalogInit
<1>6. /\ retryAt \in [Families -> 0..(MaxTime + Cooldown)] /\ clock \in 0..MaxTime
      /\ switches \in 0..MaxSwitches
  BY CatalogAssumption DEF CatalogInit, CatalogAssumption
<1>7. /\ callers \in [Callers -> [phase : Phases, kind : Kinds]]
      /\ newest \in [Families -> Keys \union {NoKey}] /\ forcedSince \subseteq Callers
  BY <1>1 DEF CatalogInit
<1>8. round = Quiet /\ pending = FALSE
  BY DEF CatalogInit
<1> QED
  BY <1>2, <1>3, <1>4, <1>5, <1>6, <1>7, <1>8 DEF CatalogTypeOK

LEMMA CatalogTypesStep == CatalogTypeOK /\ [CatalogNext]_catalogVars => CatalogTypeOK'
<1> SUFFICES ASSUME CatalogTypeOK, [CatalogNext]_catalogVars PROVE CatalogTypeOK'
  OBVIOUS
<1> USE DEF CatalogTypeOK
<1>a. /\ Uncalled \in [phase : Phases, kind : Kinds] /\ Uncalled.phase = "idle"
      /\ Quiet \in [on : BOOLEAN, force : BOOLEAN, todo : SUBSET Targets]
      /\ Quiet.todo = {} /\ Quiet.force = FALSE /\ Quiet.on = FALSE
  BY DEF Uncalled, Phases, Kinds, Quiet
<1>b. /\ {MaxTime, MaxSwitches, Cooldown} \subseteq Nat
      /\ \A f \in Families : Accounts[f] \subseteq Keys \union {NoKey}
  BY CatalogAssumption DEF CatalogAssumption
<1>1. ASSUME NEW f \in Families, NEW key \in Accounts[f], Switch(f, key) PROVE CatalogTypeOK'
  <2>1. Kept(f) \in Keys \union {NoKey}
    BY DEF Kept, OnFile, InMemory, Entries
  <2> QED
    BY <1>1, <1>b, <2>1 DEF Switch, Waiting
<1>2. CASE CatalogTick
  BY <1>2, <1>b DEF CatalogTick, Waiting
<1>3. CASE Restart
  <2>1. callers' \in [Callers -> [phase : Phases, kind : Kinds]] /\ Waiting' = {}
    BY <1>3, <1>a DEF Restart, Waiting, Phases, Kinds, Asking
  <2>2. newest' \in [Families -> Keys \union {NoKey}]
    BY <1>3 DEF Restart, OnFile, Entries
  <2> QED
    <3>1. /\ round' = Quiet /\ pending' = FALSE /\ manual' \in BOOLEAN /\ forcedSince' = {}
          /\ UNCHANGED <<account, disk, clock, switches>>
      BY <1>3 DEF Restart
    <3>2. /\ cached' \in [Families -> Entries \union {NoEntry}]
          /\ retryAt' \in [Families -> 0..(MaxTime + Cooldown)]
      BY <1>3, <1>b DEF Restart
    <3> QED
      BY <1>a, <2>1, <2>2, <3>1, <3>2
<1>4. ASSUME NEW c \in Callers, NEW kind \in Calls, Call(c, kind) PROVE CatalogTypeOK'
  <2>1. kind \in Kinds
    BY CatalogAssumption DEF CatalogAssumption, Kinds
  <2>2. callers' \in [Callers -> [phase : Phases, kind : Kinds]]
    BY <1>4, <2>1 DEF Call, Phases, Asking
  <2>3. Waiting' \subseteq Waiting
    BY <1>4 DEF Call, Waiting
  <2> QED
    BY <1>4, <2>2, <2>3 DEF Call
<1>5. ASSUME NEW c \in Callers, PassOn(c) PROVE CatalogTypeOK'
  <2>1. callers' \in [Callers -> [phase : Phases, kind : Kinds]] /\ Waiting' \subseteq Waiting
    BY <1>5 DEF PassOn, Advanced, Phases, Asking, Waiting
  <2> QED
    BY <1>5, <2>1 DEF PassOn
<1>6. ASSUME NEW c \in Callers, Join(c) PROVE CatalogTypeOK'
  <2>1. callers' \in [Callers -> [phase : Phases, kind : Kinds]]
    BY <1>6 DEF Join, Advanced, Phases, Asking
  <2> QED
    BY <1>6, <2>1 DEF Join
<1>7. ASSUME NEW c \in Callers, Start(c) PROVE CatalogTypeOK'
  <2>1. callers' \in [Callers -> [phase : Phases, kind : Kinds]]
    BY <1>7 DEF Start, Advanced, Phases, Asking
  <2>2. round' \in [on : BOOLEAN, force : BOOLEAN, todo : SUBSET Targets]
    BY <1>7, <1>a, ToFetchType DEF Start, Forced
  <2>3. ~round'.on => round'.todo = {} /\ Waiting' = {}
    BY <1>7, <1>a DEF Start, Waiting, Advanced
  <2>4. cached' \in [Families -> Entries \union {NoEntry}]
    BY <1>7, LookedType DEF Start
  <2>5. forcedSince' \subseteq Callers /\ pending' = FALSE
    BY <1>7 DEF Start
  <2> QED
    BY <1>7, <2>1, <2>2, <2>3, <2>4, <2>5 DEF Start
<1>8. ASSUME NEW t \in round.todo, NEW written \in BOOLEAN, FetchOk(t, written) PROVE CatalogTypeOK'
  <2>1. t.family \in Families /\ t.key \in Keys
    BY DEF Targets
  <2> DEFINE e == [key |-> t.key, of |-> t.key, at |-> clock]
  <2>2. e \in Entries
    BY <2>1, EntryMade
  <2>3. cached' = [cached EXCEPT ![t.family] = e]
    BY <1>8 DEF FetchOk
  <2>4. cached' \in [Families -> Entries \union {NoEntry}]
    BY <2>1, <2>2, <2>3
  <2>5. disk' \in [Families -> Entries \union {NoEntry}]
    BY <1>8, <2>4 DEF FetchOk
  <2>6. round' = [round EXCEPT !.todo = @ \ {t}] /\ round.on /\ UNCHANGED <<pending, callers>>
    BY <1>8 DEF FetchOk, First
  <2>7. round' \in [on : BOOLEAN, force : BOOLEAN, todo : SUBSET Targets] /\ round'.on = round.on /\ round'.force = round.force
    BY <2>6
  <2> QED
    BY <1>8, <1>b, <2>1, <2>4, <2>5, <2>6, <2>7 DEF FetchOk
<1>9. ASSUME NEW t \in round.todo, FetchFails(t) PROVE CatalogTypeOK'
  <2>1. t.family \in Families /\ t.key \in Keys
    BY DEF Targets
  <2>2. cached' \in [Families -> Entries \union {NoEntry}] /\ retryAt' \in [Families -> 0..(MaxTime + Cooldown)]
    BY <1>9, <2>1, <1>b DEF FetchFails
  <2>3. round' = [round EXCEPT !.todo = @ \ {t}] /\ round.on /\ UNCHANGED <<pending, callers>>
    BY <1>9 DEF FetchFails, First
  <2>4. round' \in [on : BOOLEAN, force : BOOLEAN, todo : SUBSET Targets] /\ round'.on = round.on /\ round'.force = round.force
    BY <2>3
  <2> QED
    BY <1>9, <2>2, <2>3, <2>4 DEF FetchFails
<1>10. CASE EndRound
  <2>1. cached' \in [Families -> Entries \union {NoEntry}]
    BY <1>10, LookedType DEF EndRound
  <2>2. ToFetch(TRUE) \subseteq Targets
    BY ToFetchType
  <2>3. /\ round' \in [on : BOOLEAN, force : BOOLEAN, todo : SUBSET Targets]
        /\ callers' \in [Callers -> [phase : Phases, kind : Kinds]]
        /\ ~round'.on => round'.todo = {} /\ Waiting' = {}
    <3>1. CASE pending /\ Available # {}
      <4>1. round' = [on |-> TRUE, force |-> TRUE, todo |-> ToFetch(TRUE)] /\ UNCHANGED callers
        BY <1>10, <3>1 DEF EndRound
      <4> QED
        BY <2>2, <4>1
    <3>2. CASE ~(pending /\ Available # {})
      <4>1. /\ round' = Quiet
            /\ callers' = [c \in Callers |-> IF c \in Waiting THEN [callers[c] EXCEPT !.phase = "released"]
                                             ELSE callers[c]]
        BY <1>10, <3>2 DEF EndRound
      <4>2. callers' \in [Callers -> [phase : Phases, kind : Kinds]]
        BY <4>1 DEF Phases, Asking
      <4>3. Waiting' = {}
        BY <4>1 DEF Waiting
      <4> QED
        BY <1>a, <4>1, <4>2, <4>3
    <3> QED
      BY <3>1, <3>2
  <2>5. forcedSince' \subseteq Callers /\ pending' = FALSE
    BY <1>10 DEF EndRound, Waiting
  <2> QED
    BY <1>10, <2>1, <2>3, <2>5 DEF EndRound
<1>11. ASSUME NEW c \in Callers, Deliver(c) PROVE CatalogTypeOK'
  <2>1. callers' \in [Callers -> [phase : Phases, kind : Kinds]] /\ Waiting' \subseteq Waiting
    BY <1>11, <1>a DEF Deliver, Phases, Kinds, Asking, Waiting
  <2>2. cached' \in [Families -> Entries \union {NoEntry}]
    BY <1>11, RereadType DEF Deliver
  <2> QED
    BY <1>11, <2>1, <2>2 DEF Deliver
<1>12. CASE UNCHANGED catalogVars
  BY <1>12 DEF catalogVars, Waiting
<1> QED
  BY <1>1, <1>2, <1>3, <1>4, <1>5, <1>6, <1>7, <1>8, <1>9, <1>10, <1>11, <1>12 DEF CatalogNext

(* Whatever accounts and callers there are, memory, file and round hold    *)
(* what they should, and nobody waits outside a round.                     *)
THEOREM CatalogTypes == CatalogSpec => []CatalogTypeOK
BY CatalogTypesInit, CatalogTypesStep, PTL DEF CatalogSpec

-----------------------------------------------------------------------------
(* Catalogs belong to their account.                                       *)

Honest ==
    \A f \in Families :
       /\ cached[f] # NoEntry => cached[f].of = cached[f].key
       /\ disk[f] # NoEntry => disk[f].of = disk[f].key

LEMMA HonestStep ==
    CatalogTypeOK /\ Honest /\ [CatalogNext]_catalogVars => Honest'
<1> SUFFICES ASSUME CatalogTypeOK, Honest, [CatalogNext]_catalogVars PROVE Honest'
  OBVIOUS
<1> USE DEF Honest
<1>1. CASE UNCHANGED <<cached, disk>>
  BY <1>1
<1>2. CASE Restart
  BY <1>2 DEF Restart
<1>3. ASSUME cached' = Looked, UNCHANGED disk PROVE Honest'
  BY <1>3 DEF Looked
<1>4. ASSUME NEW c \in Callers, Deliver(c) PROVE Honest'
  BY <1>4 DEF Deliver, Reread
<1>5. ASSUME NEW t \in round.todo, NEW written \in BOOLEAN, FetchOk(t, written) PROVE Honest'
  <2>1. t.family \in Families /\ t.key \in Keys
    BY DEF Targets, CatalogTypeOK
  <2>2. cached' = [cached EXCEPT ![t.family] = [key |-> t.key, of |-> t.key, at |-> clock]]
    BY <1>5 DEF FetchOk
  <2>3. \A f \in Families : cached'[f] # NoEntry => cached'[f].of = cached'[f].key
    BY <2>1, <2>2 DEF CatalogTypeOK
  <2>4. \A f \in Families : disk'[f] = disk[f] \/ (disk'[f] = cached'[f] /\ cached'[f] # NoEntry)
    BY <1>5 DEF FetchOk, CatalogTypeOK
  <2> QED
    BY <2>3, <2>4
<1>6. ASSUME NEW t \in round.todo, FetchFails(t) PROVE Honest'
  BY <1>6 DEF FetchFails, CatalogTypeOK
<1>7. CASE EndRound
  BY <1>1, <1>3, <1>7 DEF EndRound
<1> QED
  BY <1>1, <1>2, <1>3, <1>4, <1>5, <1>6, <1>7
  DEF CatalogNext, catalogVars, Switch, CatalogTick, Call, PassOn, Join, Start

(* However accounts change while catalogs are fetched, nobody is given     *)
(* another account's.                                                      *)
THEOREM CatalogsAreOwn == CatalogSpec => OwnCatalog
<1>1. CatalogInit => Honest
  BY DEF CatalogInit, Honest
<1>2. Honest' =>
        \A c \in Callers :
           (callers[c].phase = "released" /\ callers'[c].phase # "released") =>
              \A f \in Served(cached') : cached'[f].of = account[f]
  BY DEF Honest, Served, Available
<1> QED
  BY <1>1, <1>2, CatalogTypes, HonestStep, PTL DEF CatalogSpec, OwnCatalog

-----------------------------------------------------------------------------
(* The last good catalog.                                                  *)

Held(f) ==
    \/ OnDisk(f, account[f]) /\ (cached[f] = NoEntry \/ InMemory(f, account[f]))
    \/ InMemory(f, account[f]) /\ \A t \in round.todo : t.family = f => t.key = account[f]

HeldInv ==
    /\ \A f \in Available : newest[f] = account[f] => Held(f)
    /\ \A t, u \in round.todo : t.family = u.family => t = u

LEMMA ToFetchKeys ==
    ASSUME NEW force
    PROVE  /\ \A t \in ToFetch(force) : t.key = account[t.family]
           /\ \A t, u \in ToFetch(force) : t.family = u.family => t = u
BY DEF ToFetch

LEMMA HeldStep == CatalogTypeOK /\ HeldInv /\ [CatalogNext]_catalogVars => HeldInv'
<1> SUFFICES ASSUME CatalogTypeOK, HeldInv, [CatalogNext]_catalogVars PROVE HeldInv'
  OBVIOUS
<1> USE DEF HeldInv, Held, Available, OnDisk, InMemory
<1>1. CASE UNCHANGED <<account, cached, disk, round, newest>>
  BY <1>1
<1>2. ASSUME NEW f \in Families, NEW key \in Accounts[f], Switch(f, key) PROVE HeldInv'
  <2>1. ASSUME NEW g \in Available', newest'[g] = account'[g] PROVE Held(g)'
    <3>1. CASE g # f
      BY <1>2, <2>1, <3>1 DEF Switch, CatalogTypeOK
    <3>2. CASE g = f
      BY <1>2, <2>1, <3>2 DEF Switch, CatalogTypeOK, Kept, OnFile
    <3> QED
      BY <3>1, <3>2
  <2> QED
    BY <1>2, <2>1 DEF Switch
<1>3. CASE Restart
  <2>1. /\ round' = Quiet /\ UNCHANGED <<account, disk>>
        /\ \A f \in Families : cached'[f] = NoEntry /\ newest'[f] = OnFile(f)
    BY <1>3 DEF Restart
  <2> QED
    BY <2>1 DEF Quiet, OnFile
<1>4. ASSUME cached' = Looked, UNCHANGED <<account, disk, newest>>,
             \/ UNCHANGED round
             \/ round'.todo = {}
             \/ \E force \in BOOLEAN : round'.todo = ToFetch(force)
      PROVE HeldInv'
  <2>1. ASSUME NEW f \in Available', newest'[f] = account'[f] PROVE Held(f)'
    <3>1. f \in Available /\ newest[f] = account[f] /\ Held(f)
      BY <1>4, <2>1
    <3>2. cached'[f] = IF cached[f] = NoEntry /\ OnDisk(f, account[f]) THEN disk[f] ELSE cached[f]
      BY <1>4, <3>1 DEF Looked
    <3>3. UNCHANGED round \/ \A t \in round'.todo : t.key = account[t.family]
      BY <1>4, ToFetchKeys
    <3> QED
      BY <1>4, <3>1, <3>2, <3>3
  <2>2. \A t, u \in round'.todo : t.family = u.family => t = u
    BY <1>4, ToFetchKeys
  <2> QED
    BY <2>1, <2>2
<1>5. ASSUME NEW c \in Callers, Deliver(c) PROVE HeldInv'
  <2>1. /\ UNCHANGED <<account, disk, newest, round>>
        /\ cached' = Reread(callers[c].kind = "reload")
    BY <1>5 DEF Deliver
  <2>2. ASSUME NEW f \in Available', newest'[f] = account'[f] PROVE Held(f)'
    <3>1. f \in Available /\ newest[f] = account[f] /\ Held(f)
      BY <2>1, <2>2
    <3>2. \/ cached'[f] = cached[f] /\ InMemory(f, account[f])
          \/ cached'[f] = disk[f] /\ OnDisk(f, account[f])
      BY <2>1, <3>1 DEF Reread
    <3> QED
      BY <2>1, <3>1, <3>2
  <2> QED
    BY <2>1, <2>2
<1>6. ASSUME NEW t \in round.todo, NEW written \in BOOLEAN, FetchOk(t, written) PROVE HeldInv'
  <2>1. t.family \in Families /\ t.key \in Keys
    BY DEF Targets, CatalogTypeOK
  <2> DEFINE e == [key |-> t.key, of |-> t.key, at |-> clock]
  <2>2. e # NoEntry /\ e.key = t.key
    BY <2>1, EntryMade
  <2>3. /\ cached' = [cached EXCEPT ![t.family] = e] /\ newest' = [newest EXCEPT ![t.family] = t.key]
        /\ round'.todo = round.todo \ {t} /\ UNCHANGED account
    BY <1>6 DEF FetchOk, CatalogTypeOK
  <2>4. \A f \in Families : disk'[f] = disk[f] \/ (disk'[f] = cached'[f] /\ cached'[f] # NoEntry)
    BY <1>6 DEF FetchOk, CatalogTypeOK
  <2>5. ASSUME NEW f \in Available', newest'[f] = account'[f] PROVE Held(f)'
    <3>1. CASE f = t.family
      <4>1. InMemory(f, account[f])'
        BY <2>1, <2>2, <2>3, <2>5, <3>1 DEF CatalogTypeOK
      <4>2. \A u \in round'.todo : u.family # f
        BY <2>3, <3>1
      <4> QED
        BY <4>1, <4>2
    <3>2. CASE f # t.family
      <4>1. cached'[f] = cached[f] /\ f \in Available /\ newest[f] = account[f] /\ Held(f)
        BY <2>1, <2>3, <2>5, <3>2 DEF CatalogTypeOK
      <4> QED
        BY <2>3, <2>4, <4>1
    <3> QED
      BY <3>1, <3>2
  <2> QED
    BY <2>3, <2>5
<1>7. ASSUME NEW t \in round.todo, FetchFails(t) PROVE HeldInv'
  <2>1. t.family \in Families /\ t.key \in Keys
    BY DEF Targets, CatalogTypeOK
  <2>2. /\ cached' = [cached EXCEPT ![t.family] = IF OnDisk(t.family, t.key) THEN disk[t.family] ELSE cached[t.family]]
        /\ round'.todo = round.todo \ {t} /\ UNCHANGED <<account, disk, newest>>
    BY <1>7 DEF FetchFails, CatalogTypeOK
  <2>3. ASSUME NEW f \in Available', newest'[f] = account'[f] PROVE Held(f)'
    <3>1. f \in Available /\ newest[f] = account[f] /\ Held(f)
      BY <2>2, <2>3
    <3>2. CASE f # t.family
      BY <2>1, <2>2, <3>1, <3>2 DEF CatalogTypeOK
    <3>3. CASE f = t.family
      <4>1. cached'[f] = IF OnDisk(f, t.key) THEN disk[f] ELSE cached[f]
        BY <2>1, <2>2, <3>3 DEF CatalogTypeOK
      <4> QED
        BY <2>2, <3>1, <3>3, <4>1
    <3> QED
      BY <3>2, <3>3
  <2> QED
    BY <2>2, <2>3
<1>8. CASE EndRound
  <2>1. UNCHANGED <<account, disk, newest>> /\ (cached' = Looked \/ UNCHANGED cached)
    BY <1>8 DEF EndRound
  <2>2. round'.todo = {} \/ (cached' = Looked /\ round'.todo = ToFetch(TRUE))
    <3>1. CASE pending /\ Available # {}
      <4>1. cached' = Looked
        BY ONLY <1>8, <3>1, SMT DEF EndRound
      <4>2. round' = [on |-> TRUE, force |-> TRUE, todo |-> ToFetch(TRUE)]
        BY ONLY <1>8, <3>1 DEF EndRound
      <4> QED
        BY <4>1, <4>2
    <3>2. CASE ~(pending /\ Available # {})
      <4>1. round' = Quiet
        BY ONLY <1>8, <3>2 DEF EndRound
      <4> QED
        BY <4>1 DEF Quiet
    <3> QED
      BY <3>1, <3>2
  <2>3. CASE cached' = Looked
    BY <1>4, <2>1, <2>2, <2>3
  <2>4. CASE UNCHANGED cached /\ round'.todo = {}
    BY <2>1, <2>4
  <2> QED
    BY <2>1, <2>2, <2>3, <2>4
<1>9. ASSUME NEW c \in Callers, Start(c) PROVE HeldInv'
  <2>1. cached' = Looked /\ UNCHANGED <<account, disk, newest>>
    BY <1>9 DEF Start
  <2>2. Forced(c) \in BOOLEAN
    BY DEF Forced
  <2>3. round'.todo = {} \/ round'.todo = ToFetch(Forced(c))
    BY <1>9 DEF Start, Quiet
  <2> QED
    BY <1>4, <2>1, <2>2, <2>3
<1> QED
  BY <1>1, <1>2, <1>3, <1>5, <1>6, <1>7, <1>8, <1>9
  DEF CatalogNext, catalogVars, CatalogTick, Call, PassOn, Join

(* The last good catalog of an account is served whatever fails.           *)
THEOREM LastGoodKept == CatalogSpec => []LastGoodServed
<1>1. CatalogInit => HeldInv
  BY CatalogAssumption DEF CatalogInit, HeldInv, Available, Quiet, CatalogAssumption
<1>2. CatalogTypeOK /\ HeldInv => LastGoodServed
  BY DEF HeldInv, Held, LastGoodServed, Served, Reread, Available, OnDisk, InMemory
<1> QED
  BY <1>1, <1>2, CatalogTypes, HeldStep, PTL DEF CatalogSpec

-----------------------------------------------------------------------------
(* Forced refreshes.                                                       *)

ForcedInv ==
    \A c \in Callers : Forced(c) =>
       /\ callers[c].phase = "waiting" => round.force \/ pending
       /\ callers[c].phase = "released" => c \in forcedSince

LEMMA ForcedStep == CatalogTypeOK /\ ForcedInv /\ [CatalogNext]_catalogVars => ForcedInv'
<1> SUFFICES ASSUME CatalogTypeOK, ForcedInv, [CatalogNext]_catalogVars PROVE ForcedInv'
  OBVIOUS
<1> USE DEF ForcedInv, Forced
<1>1. ASSUME UNCHANGED <<callers, round, pending, forcedSince>> PROVE ForcedInv'
  BY <1>1
<1>2. CASE Restart
  BY <1>2 DEF Restart, Uncalled
<1>3. ASSUME NEW c \in Callers, NEW kind \in Calls, Call(c, kind) PROVE ForcedInv'
  BY <1>3 DEF Call, CatalogTypeOK
<1>4. ASSUME NEW c \in Callers, PassOn(c) PROVE ForcedInv'
  BY <1>4 DEF PassOn, Advanced, CatalogTypeOK
<1>5. ASSUME NEW c \in Callers, Join(c) PROVE ForcedInv'
  <2>1. /\ callers' = [callers EXCEPT ![c].phase = "waiting"] /\ UNCHANGED <<round, forcedSince>>
        /\ pending' = (pending \/ (Forced(c) /\ ~round.force))
    BY <1>5 DEF Join, Advanced
  <2>2. ASSUME NEW d \in Callers, Forced(d)' PROVE callers'[d].phase = "waiting" => round'.force \/ pending'
    BY <2>1, <2>2 DEF CatalogTypeOK
  <2>3. ASSUME NEW d \in Callers, Forced(d)' PROVE callers'[d].phase = "released" => d \in forcedSince'
    BY <2>1, <2>3 DEF CatalogTypeOK
  <2> QED
    BY <2>2, <2>3
<1>6. ASSUME NEW c \in Callers, Start(c) PROVE ForcedInv'
  <2>1. Waiting = {} /\ ~round.on
    BY <1>6 DEF Start, CatalogTypeOK
  <2>2. CASE ToFetch(Forced(c)) = {}
    <3>1. /\ callers' = [callers EXCEPT ![c].phase = "released"]
          /\ forcedSince' = IF Forced(c) THEN forcedSince \union {c} ELSE forcedSince
      BY <1>6, <2>2 DEF Start, Advanced
    <3> QED
      BY <2>1, <3>1 DEF CatalogTypeOK, Waiting
  <2>3. CASE ToFetch(Forced(c)) # {}
    <3>1. /\ callers' = [callers EXCEPT ![c].phase = "waiting"] /\ UNCHANGED forcedSince
          /\ round'.force <=> Forced(c)
      BY <1>6, <2>3 DEF Start, Advanced
    <3> QED
      BY <2>1, <3>1 DEF CatalogTypeOK, Waiting
  <2> QED
    BY <2>2, <2>3
<1>7. ASSUME NEW t \in round.todo, NEW written \in BOOLEAN, FetchOk(t, written) PROVE ForcedInv'
  BY <1>7 DEF FetchOk, CatalogTypeOK
<1>8. ASSUME NEW t \in round.todo, FetchFails(t) PROVE ForcedInv'
  BY <1>8 DEF FetchFails, CatalogTypeOK
<1>9. CASE EndRound
  <2>1. CASE pending /\ Available # {}
    <3>1. round'.force /\ UNCHANGED callers /\ forcedSince \subseteq forcedSince'
      BY <1>9, <2>1 DEF EndRound
    <3> QED
      BY <3>1
  <2>2. CASE ~(pending /\ Available # {})
    <3>1. callers' = [c \in Callers |-> IF c \in Waiting THEN [callers[c] EXCEPT !.phase = "released"]
                                       ELSE callers[c]]
      BY <1>9, <2>2 DEF EndRound
    <3>2. /\ forcedSince \subseteq forcedSince'
          /\ (round.force \/ pending) => {c \in Waiting : Forced(c)} \subseteq forcedSince'
      BY <1>9, <2>2 DEF EndRound
    <3> QED
      BY <3>1, <3>2 DEF CatalogTypeOK, Waiting
  <2> QED
    BY <2>1, <2>2
<1>10. ASSUME NEW c \in Callers, Deliver(c) PROVE ForcedInv'
  BY <1>10 DEF Deliver, CatalogTypeOK, Uncalled
<1> QED
  BY <1>1, <1>2, <1>3, <1>4, <1>5, <1>6, <1>7, <1>8, <1>9, <1>10
  DEF CatalogNext, catalogVars, Switch, CatalogTick

(* A forced refresh waits for a forced iteration, however many callers     *)
(* join and whichever round they meet.                                     *)
THEOREM ForcedServed == CatalogSpec => []ForcedIsServed
<1>1. CatalogInit => ForcedInv
  BY DEF CatalogInit, ForcedInv, Uncalled, Forced
<1>2. ForcedInv => ForcedIsServed
  BY DEF ForcedInv, ForcedIsServed
<1> QED
  BY <1>1, <1>2, CatalogTypes, ForcedStep, PTL DEF CatalogSpec
-----------------------------------------------------------------------------
(* Logins.                                                                 *)

LEMMA NewestFound == ASSUME NEW d, NEW S, Newest(d, S) # None PROVE Newest(d, S) \in S
<1>1. \E f \in S : Outlasts(d, S, f)
  BY DEF Newest
<1> QED
  BY <1>1 DEF Newest

(* A login that is chosen is one that was found. *)
LEMMA ChosenFound ==
    ASSUME NEW s \in [Files -> Contents], NEW d \in [Files -> Contents], lock \in Locks,
           NEW region \in Regions, NEW product \in Products,
           ForProduct(s, d, region, product) # None
    PROVE  /\ ForProduct(s, d, region, product) \in Logins
           /\ ForProduct(s, d, region, product).region = region
           /\ ForProduct(s, d, region, product).product = product
<1> DEFINE locked == Locked(s, d, lock)
           login  == IF locked # None THEN locked ELSE Automatic(s, region, product)
<1>1. ASSUME NEW S \in SUBSET Found(s), Newest(s, S) # None PROVE s[Newest(s, S)] \in Records
  BY <1>1, NewestFound DEF Found
<1>2. Automatic(s, region, product) \in Records \union {None}
  <2>1. /\ OfProfile(s, region, product) \in SUBSET Found(s)
        /\ UNION {OfProfile(s, region, p) : p \in Products \ {product}} \in SUBSET Found(s)
    BY DEF OfProfile
  <2> QED
    BY <1>1, <2>1 DEF Automatic
<1>3. locked \in Records \union {Broken, None}
  <2> DEFINE selector == Selector(d, lock)
             f == IF selector = None THEN None ELSE Newest(s, OfAccount(s, selector))
  <2>1. CASE lock.kind = "auto"
    BY <2>1 DEF Locked
  <2>2. CASE lock.kind # "auto" /\ f # None
    <3>1. OfAccount(s, selector) \in SUBSET Found(s)
      BY DEF OfAccount
    <3>2. s[f] \in Records
      BY <1>1, <2>2, <3>1
    <3>3. locked = s[f]
      BY <2>2 DEF Locked
    <3> QED
      BY <3>2, <3>3 DEF Contents
  <2>3. CASE lock.kind # "auto" /\ f = None /\ selector = None
    <3>1. lock.kind = "file" /\ lock.file \in Files
      BY <2>3, LoginsAssumption DEF LoginsAssumption, Selector
    <3>2. locked = IF d[lock.file] # Absent THEN d[lock.file] ELSE None
      BY <2>3 DEF Locked
    <3> QED
      BY <3>1, <3>2 DEF Contents
  <2>4. CASE lock.kind # "auto" /\ f = None /\ selector # None
    BY <2>4 DEF Locked
  <2> QED
    BY <2>1, <2>2, <2>3, <2>4
<1>4. login \notin {None, Broken} => login \in Records
  BY <1>2, <1>3
<1>5. /\ login \in Records /\ login.region = region
      /\ ForProduct(s, d, region, product) = [login EXCEPT !.product = product]
  BY <1>4 DEF ForProduct
<1> QED
  BY <1>5, LoginsAssumption DEF LoginsAssumption, Logins

RequestsInv == LoginsTypeOK /\ RegionHolds

LEMMA RequestsStep == RequestsInv /\ [LoginsNext]_loginVars => RequestsInv'
<1> SUFFICES ASSUME RequestsInv, [LoginsNext]_loginVars PROVE RequestsInv'
  OBVIOUS
<1> USE DEF RequestsInv, LoginsTypeOK, RegionHolds
<1>a. /\ MaxWrites \in Nat /\ MaxLosses \in Nat /\ None \notin Files
      /\ Idle \in Calling /\ Idle.phase = "idle"
  BY LoginsAssumption DEF LoginsAssumption, Idle, Calling, Regions, Products, Outcomes
<1>1. ASSUME NEW f \in Files, NEW content \in Contents, WriteLogin(f, content) PROVE RequestsInv'
  BY <1>1, <1>a DEF WriteLogin
<1>2. CASE Expire
  BY <1>2 DEF Expire
<1>3. CASE LoseWatch
  <2>1. losses' \in 0..MaxLosses
    BY <1>3, <1>a DEF LoseWatch
  <2>2. watching /\ watching' = FALSE /\ UNCHANGED <<dir, snap, late, due, lock, closed, req, writes>>
    BY <1>3 DEF LoseWatch
  <2>3. ~closed
    BY <2>2
  <2> QED
    BY <2>1, <2>2, <2>3
<1>4. CASE Debounce
  BY <1>4 DEF Debounce
<1>5. CASE Close
  BY <1>5, <1>a DEF Close, Calling, Outcomes
<1>6. ASSUME NEW l \in Locks, Reopen(l) PROVE RequestsInv'
  BY <1>6 DEF Reopen
<1>7. ASSUME NEW r \in Requests, NEW region \in Regions, NEW product \in Products, Arrive(r, region, product)
      PROVE RequestsInv'
  BY <1>7, <1>a DEF Arrive, Ended, Calling, Outcomes
<1>8. ASSUME NEW r \in Requests, Choose(r) PROVE RequestsInv'
  <2> DEFINE first  == ForProduct(snap, dir, req[r].region, req[r].product)
             second == ForProduct(dir, dir, req[r].region, req[r].product)
  <2>1. /\ req[r] \in Calling /\ req[r].region \in Regions /\ req[r].product \in Products
        /\ req[r].phase = "choosing" /\ ~closed
    BY <1>8 DEF Choose, Calling
  <2>2. \A login \in {first, second} : login # None =>
           login \in Logins /\ login.region = req[r].region /\ login.product = req[r].product
    BY <2>1, ChosenFound
  <2>3. /\ UNCHANGED <<dir, late, lock, closed, writes, losses>>
        /\ watching' = TRUE /\ due' \in BOOLEAN /\ snap' \in [Files -> Contents]
    BY <1>8 DEF Choose, Reconcile
  <2>4. \/ \E login \in {first, second} : login # None /\ req' = Sent(r, login)
        \/ req' = Ended(r, "unavailable")
    BY <1>8 DEF Choose
  <2>5. CASE \E login \in {first, second} : login # None /\ req' = Sent(r, login)
    <3>1. PICK login \in Logins : /\ login # None /\ req' = Sent(r, login)
                                  /\ login.region = req[r].region /\ login.product = req[r].product
      BY <2>2, <2>5
    <3>2. req' = [req EXCEPT ![r].phase = "sent", ![r].login = login]
      BY <3>1 DEF Sent
    <3>3. req' \in [Requests -> Calling]
      BY <2>1, <3>2 DEF Calling
    <3>4. /\ \A q \in Requests \ {r} : req'[q] = req[q]
          /\ req'[r].login = login /\ req'[r].region = req[r].region /\ req'[r].product = req[r].product
      BY <2>1, <3>2 DEF Calling
    <3> QED
      BY <2>1, <2>3, <3>1, <3>3, <3>4
  <2>6. CASE req' = Ended(r, "unavailable")
    BY <1>a, <2>1, <2>3, <2>6 DEF Ended, Calling, Outcomes
  <2> QED
    BY <2>4, <2>5, <2>6
<1>9. ASSUME NEW r \in Requests, NEW phase \in {"served", "failed"}, Answer(r, phase) PROVE RequestsInv'
  BY <1>9, <1>a DEF Answer, Ended, Calling, Outcomes
<1>10. ASSUME NEW r \in Requests, Deny(r) PROVE RequestsInv'
  <2>1. req[r] \in Calling /\ req[r].phase = "sent" /\ ~closed
    BY <1>10 DEF Deny
  <2>2. /\ UNCHANGED <<dir, late, lock, closed, writes, losses>>
        /\ watching' \in BOOLEAN /\ due' \in BOOLEAN /\ snap' \in [Files -> Contents]
    BY <1>10 DEF Deny, Reconcile
  <2>3. req' = Ended(r, "denied") \/ req' = [req EXCEPT ![r].phase = "choosing", ![r].attempt = 1]
    BY <1>10 DEF Deny
  <2>4. CASE req' = Ended(r, "denied")
    BY <1>a, <2>1, <2>2, <2>4 DEF Ended, Calling, Outcomes
  <2>5. CASE req' = [req EXCEPT ![r].phase = "choosing", ![r].attempt = 1]
    <3>1. [req[r] EXCEPT !.phase = "choosing", !.attempt = 1] \in Calling
      <4>1. [req[r] EXCEPT !.phase = "choosing"] \in Calling
        BY <2>1 DEF Calling
      <4>2. ASSUME NEW q \in Calling PROVE [q EXCEPT !.attempt = 1] \in Calling
        BY ONLY q \in Calling DEF Calling
      <4> QED
        BY <4>1, <4>2
    <3>2. (\A q \in Requests \ {r} : req'[q] = req[q]) /\ req'[r] = [req[r] EXCEPT !.phase = "choosing", !.attempt = 1]
      BY <2>5
    <3>3. req'[r].phase = "choosing"
      BY <2>1, <3>2 DEF Calling
    <3>4. req' \in [Requests -> Calling]
      BY <2>5, <3>1
    <3> QED
      BY <2>1, <2>2, <3>2, <3>3, <3>4
  <2> QED
    BY <2>3, <2>4, <2>5
<1>11. ASSUME NEW r \in Requests, Disconnect(r) PROVE RequestsInv'
  BY <1>11, <1>a DEF Disconnect, Ended, Calling, Outcomes
<1>12. CASE UNCHANGED loginVars
  BY <1>12 DEF loginVars
<1> QED
  BY <1>1, <1>2, <1>3, <1>4, <1>5, <1>6, <1>7, <1>8, <1>9, <1>10, <1>11, <1>12 DEF LoginsNext

(* Whatever is on file and configured, a request goes out with a login of  *)
(* the region its model names, to the endpoint of its product, and a       *)
(* closed plugin has no timer, no watcher and no request.                  *)
THEOREM LoginsTypes == LoginsSpec => [](LoginsTypeOK /\ RegionHolds)
<1>1. LoginsInit => RequestsInv
  <2>1. Idle \in Calling /\ Idle.phase = "idle"
    BY DEF Idle, Calling, Regions, Products
  <2>2. ASSUME LoginsInit PROVE /\ watching = TRUE /\ due = FALSE /\ closed = FALSE /\ late = FALSE
                                /\ dir \in [Files -> Contents] /\ snap \in [Files -> Contents]
                                /\ lock \in Locks /\ writes = 0 /\ losses = 0
    BY <2>2 DEF LoginsInit, Opened
  <2>3. ASSUME LoginsInit PROVE req \in [Requests -> Calling] /\ \A r \in Requests : req[r].phase = "idle"
    BY <2>1, <2>3 DEF LoginsInit
  <2> QED
    BY <2>2, <2>3, LoginsAssumption DEF RequestsInv, LoginsTypeOK, RegionHolds, LoginsAssumption
<1> QED
  BY <1>1, RequestsStep, PTL DEF LoginsSpec, RequestsInv

-----------------------------------------------------------------------------
(* Locks, refusals and the list of accounts, which go by the newest login  *)
(* of the files: a finite set with a strict total order has a first        *)
(* element.                                                                *)

(* A finite set with a strict total order has a first element: a set       *)
(* without one that is minimal would have one when an element is put back. *)
Ranks(S, R) ==
    /\ \A a, b \in S : a # b => <<a, b>> \in R \/ <<b, a>> \in R
    /\ \A a, b, c \in S : <<a, b>> \in R /\ <<b, c>> \in R => <<a, c>> \in R

IsFirst(T, R, m) == m \in T /\ \A g \in T \ {m} : <<m, g>> \in R

LEMMA FirstExists ==
    ASSUME NEW S, IsFiniteSet(S), S # {}, NEW R, Ranks(S, R)
    PROVE  \E m : IsFirst(S, R, m)
<1> DEFINE Bad == {T \in FiniteSubsetsOf(S) : T # {} /\ ~\E m : IsFirst(T, R, m)}
<1> SUFFICES ASSUME S \in Bad PROVE FALSE
  BY FS_FiniteSubsetsOfFinite
<1>1. PICK T \in Bad : \A U \in Bad : <<U, T>> \notin StrictSubsetOrdering(S)
  <2>1. Bad \subseteq FiniteSubsetsOf(S) /\ Bad # {}
    OBVIOUS
  <2> HIDE DEF Bad
  <2> QED BY <2>1, FS_StrictSubsetOrderingWellFounded, WFMin
<1>2. PICK x : x \in T
  OBVIOUS
<1>3. T \in SUBSET S /\ T \ {x} \in SUBSET S /\ T \ {x} # T /\ T \ {x} \subseteq T
  BY <1>2 DEF FiniteSubsetsOf
<1>4. T \ {x} \in FiniteSubsetsOf(S) /\ <<T \ {x}, T>> \in StrictSubsetOrdering(S)
  BY <1>3, FS_FiniteSubsetsOfFinite DEF StrictSubsetOrdering
<1>5. CASE T \ {x} = {}
  <2>1. IsFirst(T, R, x)
    BY <1>2, <1>5 DEF IsFirst
  <2> QED BY <2>1
<1>6. CASE T \ {x} # {}
  <2>1. PICK m : IsFirst(T \ {x}, R, m)
    BY <1>1, <1>4, <1>6
  <2>2. m \in S /\ x \in S /\ m # x
    BY <1>2, <1>3, <2>1 DEF IsFirst
  <2>3. CASE <<m, x>> \in R
    <3>1. IsFirst(T, R, m)
      BY <2>1, <2>3 DEF IsFirst
    <3> QED BY <3>1
  <2>4. CASE <<x, m>> \in R
    <3>1. ASSUME NEW g \in T \ {x} PROVE <<x, g>> \in R
      BY <1>3, <2>1, <2>2, <2>4 DEF IsFirst, Ranks
    <3>2. IsFirst(T, R, x)
      BY <1>2, <3>1 DEF IsFirst
    <3> QED BY <3>2
  <2> QED BY <2>2, <2>3, <2>4 DEF Ranks
<1> QED BY <1>5, <1>6

(* Of files with logins one is the newest, and there is only one.          *)
Beats(d, f, g) == Fresher(d[f], d[g]) \/ (f < g /\ ~Fresher(d[g], d[f]))

LEMMA FilesRank ==
    ASSUME NEW d, NEW S \in SUBSET Found(d)
    PROVE  Ranks(S, {s \in S \X S : Beats(d, s[1], s[2])})
<1>1. ASSUME NEW f \in S PROVE f \in Nat /\ d[f].refresh \in Nat /\ d[f].mtime \in Nat
  BY LoginsAssumption DEF Found, LoginsAssumption, Logins
<1>2. ASSUME NEW f \in S, NEW g \in S, f # g PROVE Beats(d, f, g) \/ Beats(d, g, f)
  BY <1>1, <1>2 DEF Beats, Fresher
<1>3. ASSUME NEW f \in S, NEW g \in S, NEW h \in S, Beats(d, f, g), Beats(d, g, h) PROVE Beats(d, f, h)
  BY <1>1, <1>3 DEF Beats, Fresher
<1> HIDE DEF Beats
<1> QED BY <1>2, <1>3 DEF Ranks

LEMMA OneNewest ==
    ASSUME NEW d, NEW S \in SUBSET Found(d), NEW f \in S, NEW g \in S, Outlasts(d, S, f), Outlasts(d, S, g)
    PROVE  f = g
<1>1. ASSUME NEW h \in S PROVE h \in Nat /\ d[h].refresh \in Nat /\ d[h].mtime \in Nat
  BY LoginsAssumption DEF Found, LoginsAssumption, Logins
<1> QED BY <1>1 DEF Outlasts, Fresher

LEMMA NewestIs ==
    ASSUME NEW d, NEW S \in SUBSET Found(d)
    PROVE  /\ S # {} => Newest(d, S) \in S /\ Newest(d, S) # None /\ Outlasts(d, S, Newest(d, S))
           /\ S = {} => Newest(d, S) = None
           /\ \A f \in S : Outlasts(d, S, f) => Newest(d, S) = f
<1>1. IsFiniteSet(S) /\ S \subseteq Files /\ None \notin Files
  <2>1. S \in SUBSET Files
    BY DEF Found
  <2> QED BY <2>1, LoginsAssumption, FS_Subset DEF LoginsAssumption
<1>2. ASSUME S # {} PROVE \E f \in S : Outlasts(d, S, f)
  <2> DEFINE R == {s \in S \X S : Beats(d, s[1], s[2])}
  <2>1. Ranks(S, R)
    BY FilesRank
  <2> HIDE DEF R
  <2>2. PICK m : IsFirst(S, R, m)
    BY <1>1, <1>2, <2>1, FirstExists
  <2>3. m \in S /\ \A g \in S \ {m} : Beats(d, m, g)
    BY <2>2 DEF IsFirst, R
  <2> QED BY <2>3 DEF Outlasts, Beats
<1>3. Newest(d, S) # None => Newest(d, S) \in S /\ Outlasts(d, S, Newest(d, S))
  BY DEF Newest
<1>4. ASSUME NEW f \in S, Outlasts(d, S, f) PROVE Newest(d, S) = f /\ Newest(d, S) # None
  <2>1. Newest(d, S) = CHOOSE g \in S : Outlasts(d, S, g)
    BY <1>4 DEF Newest
  <2>2. Newest(d, S) \in S /\ Outlasts(d, S, Newest(d, S))
    BY <1>4, <2>1
  <2> HIDE DEF Newest
  <2> QED BY <1>1, <1>4, <2>2, OneNewest
<1>5. S = {} => Newest(d, S) = None
  BY DEF Newest
<1> HIDE DEF Newest
<1> QED BY <1>2, <1>3, <1>4, <1>5

(* What the rules name is what the plugin chooses from the files as they   *)
(* are.                                                                    *)
Selected == IF lock.kind = "auto" THEN None ELSE Selector(dir, lock)

LEMMA NewestIsLatest ==
    ASSUME NEW S \in SUBSET Found(dir), S # {}
    PROVE  Newest(dir, S) \in Latest(S) /\ Newest(dir, S) # None /\ dir[Newest(dir, S)] \in Records
<1>1. ASSUME NEW h \in S PROVE h \in Nat /\ dir[h].refresh \in Nat /\ dir[h].mtime \in Nat /\ dir[h] \in Records
  BY LoginsAssumption DEF Found, LoginsAssumption, Logins
<1>2. PICK f : f = Newest(dir, S)
  OBVIOUS
<1>3. f \in S /\ f # None /\ Outlasts(dir, S, f)
  BY <1>2, NewestIs
<1>4. f \in Latest(S)
  BY <1>1, <1>3 DEF Latest, Outlasts, Fresher
<1> QED BY <1>1, <1>2, <1>3, <1>4

LEMMA SelectorKinds ==
    ASSUME dir \in [Files -> Contents], lock \in Locks
    PROVE  /\ Selected = None => lock.kind \in {"auto", "file"}
           /\ lock.kind = "file" => lock.file \in Files
           /\ lock.kind = "file" /\ Selected # None =>
                 Selected = Account(dir, lock.file) /\ dir[lock.file] \in Records /\ dir[lock.file].uid # NoUid
           /\ lock.kind \notin {"auto", "file"} => Selected = lock
           /\ Selected = None /\ lock.kind = "file" /\ dir[lock.file] \in Records => dir[lock.file].uid = NoUid
<1>1. lock.kind = "file" => lock.file \in Files
  BY LoginsAssumption DEF LoginsAssumption
<1>2. lock # None
  BY LoginsAssumption DEF LoginsAssumption
<1>3. lock.kind = "file" /\ dir[lock.file] \in Records => Account(dir, lock.file) # None
  BY LoginsAssumption DEF LoginsAssumption, Account, Logins
<1> QED BY <1>1, <1>2, <1>3 DEF Selected, Selector, Account

LEMMA LockedIs ==
    ASSUME dir \in [Files -> Contents], lock \in Locks
    PROVE  /\ Selected # None /\ OfAccount(dir, Selected) # {} =>
                 \E f \in Latest(OfAccount(dir, Selected)) : Locked(dir, dir, lock) = dir[f] /\ dir[f] \in Records
           /\ Selected # None /\ OfAccount(dir, Selected) = {} => Locked(dir, dir, lock) = None
           /\ lock.kind = "file" /\ Selected = None /\ dir[lock.file] # Absent =>
                 Locked(dir, dir, lock) = dir[lock.file] /\ dir[lock.file] \in Records \union {Broken}
           /\ lock.kind = "file" /\ Selected = None /\ dir[lock.file] = Absent => Locked(dir, dir, lock) = None
           /\ lock.kind = "auto" => Locked(dir, dir, lock) = None
<1>1. OfAccount(dir, Selected) \in SUBSET Found(dir)
  BY DEF OfAccount
<1>2. lock.kind # "auto" => Selected = Selector(dir, lock)
  BY DEF Selected
<1>3. lock.kind = "auto" => Selected = None
  BY DEF Selected
<1> DEFINE f == Newest(dir, OfAccount(dir, Selected))
<1>4. ASSUME Selected # None, OfAccount(dir, Selected) # {}
      PROVE  f \in Latest(OfAccount(dir, Selected)) /\ dir[f] \in Records /\ Locked(dir, dir, lock) = dir[f]
  <2>1. f \in Latest(OfAccount(dir, Selected)) /\ dir[f] \in Records /\ f # None
    BY <1>1, <1>4, NewestIsLatest
  <2>2. Locked(dir, dir, lock) = dir[f]
    BY <1>2, <1>3, <1>4, <2>1 DEF Locked
  <2> QED BY <2>1, <2>2
<1>5. ASSUME Selected # None, OfAccount(dir, Selected) = {} PROVE Locked(dir, dir, lock) = None
  <2>1. f = None
    BY <1>1, <1>5, NewestIs
  <2> QED BY <1>2, <1>3, <1>5, <2>1 DEF Locked
<1>6. ASSUME lock.kind = "file", Selected = None
      PROVE  Locked(dir, dir, lock) = IF dir[lock.file] # Absent THEN dir[lock.file] ELSE None
  BY <1>2, <1>6 DEF Locked
<1>7. lock.kind = "file" => dir[lock.file] \in Contents
  BY SelectorKinds
<1>8. lock.kind = "auto" => Locked(dir, dir, lock) = None
  BY DEF Locked
<1> QED BY <1>4, <1>5, <1>6, <1>7, <1>8 DEF Contents

Unlocked(region, product) ==
    IF OfProfile(dir, region, product) # {} THEN Latest(OfProfile(dir, region, product))
    ELSE Latest({f \in Found(dir) : dir[f].region = region})

LEMMA AutomaticIs ==
    ASSUME dir \in [Files -> Contents], NEW region \in Regions, NEW product \in Products
    PROVE  \/ Automatic(dir, region, product) = None /\ Unlocked(region, product) = {}
           \/ \E f \in Unlocked(region, product) : Automatic(dir, region, product) = dir[f] /\ dir[f] \in Records
<1> DEFINE own  == OfProfile(dir, region, product)
           rest == UNION {OfProfile(dir, region, p) : p \in Products \ {product}}
           all  == {f \in Found(dir) : dir[f].region = region}
<1>1. own \in SUBSET Found(dir) /\ rest \in SUBSET Found(dir) /\ all \in SUBSET Found(dir)
  BY DEF OfProfile
<1>2. \A f \in Found(dir) : dir[f] \in Records /\ dir[f].product \in Products
  BY LoginsAssumption DEF LoginsAssumption, Found, Logins
<1>3. own = {} => rest = all
  BY <1>2 DEF OfProfile
<1>4. Automatic(dir, region, product) =
         IF Newest(dir, own) # None THEN dir[Newest(dir, own)]
         ELSE IF Newest(dir, rest) # None THEN dir[Newest(dir, rest)] ELSE None
  BY DEF Automatic
<1>8. Unlocked(region, product) = IF own # {} THEN Latest(own) ELSE Latest(all)
  BY DEF Unlocked
<1> HIDE DEF rest, own, all
<1>5. CASE own # {}
  BY <1>1, <1>4, <1>5, <1>8, NewestIsLatest
<1>6. CASE own = {} /\ rest # {}
  <2>1. Newest(dir, own) = None
    BY <1>1, <1>6, NewestIs
  <2>2. Newest(dir, rest) \in Latest(rest) /\ Newest(dir, rest) # None /\ dir[Newest(dir, rest)] \in Records
    BY <1>1, <1>6, NewestIsLatest
  <2> QED BY <1>3, <1>4, <1>6, <1>8, <2>1, <2>2
<1>7. CASE own = {} /\ rest = {}
  <2>1. Newest(dir, own) = None /\ Newest(dir, rest) = None
    BY <1>1, <1>7, NewestIs
  <2>2. Latest(all) = {}
    BY <1>3, <1>7 DEF Latest
  <2> QED BY <1>4, <1>7, <1>8, <2>1, <2>2
<1> QED BY <1>5, <1>6, <1>7

(* The login that ForProduct looks at is one the rules name, if there is   *)
(* any, and a request gets it unless it is unusable.                       *)
Considered(region, product) ==
    IF Locked(dir, dir, lock) # None THEN Locked(dir, dir, lock) ELSE Automatic(dir, region, product)

LEMMA ConsideredIs ==
    ASSUME dir \in [Files -> Contents], lock \in Locks, NEW region \in Regions, NEW product \in Products
    PROVE  \/ Considered(region, product) = None /\ Rightful(region, product) = {}
           \/ \E f \in Rightful(region, product) :
                 Considered(region, product) = dir[f] /\ dir[f] \in Records \union {Broken}
<1>1. Rightful(region, product) =
         IF Selected # None /\ OfAccount(dir, Selected) # {} THEN Latest(OfAccount(dir, Selected))
         ELSE IF lock.kind = "file" /\ Selected = None /\ dir[lock.file] # Absent THEN {lock.file}
         ELSE Unlocked(region, product)
  BY DEF Rightful, Selected, Unlocked
<1>2. \/ Automatic(dir, region, product) = None /\ Unlocked(region, product) = {}
      \/ \E f \in Unlocked(region, product) : Automatic(dir, region, product) = dir[f] /\ dir[f] \in Records
  BY AutomaticIs
<1>3. None \notin Records \union {Broken}
  BY LoginsAssumption DEF LoginsAssumption
<1>4. CASE Selected # None /\ OfAccount(dir, Selected) # {}
  BY <1>1, <1>3, <1>4, LockedIs DEF Considered
<1>5. CASE lock.kind = "file" /\ Selected = None /\ dir[lock.file] # Absent
  BY <1>1, <1>3, <1>5, LockedIs DEF Considered
<1>6. CASE /\ ~(Selected # None /\ OfAccount(dir, Selected) # {})
           /\ ~(lock.kind = "file" /\ Selected = None /\ dir[lock.file] # Absent)
  <2>1. Locked(dir, dir, lock) = None
    BY <1>6, LockedIs, SelectorKinds
  <2>2. Rightful(region, product) = Unlocked(region, product)
    BY <1>1, <1>6
  <2> QED BY <1>2, <2>1, <2>2 DEF Considered
<1> QED BY <1>4, <1>5, <1>6

LEMMA ForProductRightful ==
    ASSUME dir \in [Files -> Contents], lock \in Locks, NEW region \in Regions, NEW product \in Products,
           NEW used, used = ForProduct(dir, dir, region, product)
    PROVE  /\ used = None => Rightful(region, product) = {} \/ \E f \in Rightful(region, product) : Unusable(f, region)
           /\ used # None => \E f \in Rightful(region, product) : dir[f].token = used.token
<1>1. used = LET login == Considered(region, product) IN
             IF login \in {None, Broken} \/ Expired(login) \/ login.region # region THEN None
             ELSE [login EXCEPT !.product = product]
  BY DEF ForProduct, Considered
<1>2. CASE Considered(region, product) = None /\ Rightful(region, product) = {}
  BY <1>1, <1>2
<1>3. ASSUME NEW f \in Rightful(region, product), Considered(region, product) = dir[f], dir[f] \in Records \union {Broken}
      PROVE  /\ used = None => Unusable(f, region)
             /\ used # None => dir[f].token = used.token
  <2>1. /\ dir[f] \in Records => [dir[f] EXCEPT !.product = product].token = dir[f].token
        /\ dir[f] # None
    <3>1. dir[f] \in Records => [dir[f] EXCEPT !.product = product].token = dir[f].token
      BY LoginsAssumption DEF LoginsAssumption, Logins
    <3>2. dir[f] # None
      BY <1>3, LoginsAssumption DEF LoginsAssumption
    <3> QED BY <3>1, <3>2
  <2>2. dir[f] # Broken => dir[f] \in Records
    BY <1>3
  <2>3. CASE dir[f] = Broken \/ Expired(dir[f]) \/ dir[f].region # region
    BY <1>1, <1>3, <2>3 DEF Unusable
  <2>4. CASE ~(dir[f] = Broken \/ Expired(dir[f]) \/ dir[f].region # region)
    <3>1. used = [dir[f] EXCEPT !.product = product]
      BY <1>1, <1>3, <2>1, <2>4
    <3>2. dir[f].token = used.token
      BY <2>1, <2>2, <2>4, <3>1
    <3>3. used # None
      <4>1. used \in Logins
        BY <2>2, <2>4, <3>1, LoginsAssumption DEF LoginsAssumption, Logins
      <4> QED BY <4>1, LoginsAssumption DEF LoginsAssumption
    <3> QED BY <3>1, <3>2, <3>3
  <2> QED BY <2>3, <2>4
<1> QED BY <1>2, <1>3, ConsideredIs

(* Only a choice sends a request or finds no login for it, and only a      *)
(* refusal by the provider denies it.                                      *)
LEMMA WhoEnds ==
    ASSUME LoginsTypeOK, [LoginsNext]_loginVars, NEW r \in Requests
    PROVE  /\ req[r].phase = "choosing" /\ req'[r].phase \in {"sent", "unavailable"} => Choose(r)
           /\ req[r].phase = "sent" /\ req'[r].phase = "denied" => Deny(r)
<1>1. req \in [Requests -> Calling]
  BY DEF LoginsTypeOK
<1>2. \A p : Ended(r, p)[r].phase = p
  BY <1>1 DEF Ended, Idle, Calling
<1>3. ASSUME NEW q \in Requests, q # r, \/ \E region \in Regions, product \in Products : Arrive(q, region, product)
                                        \/ Choose(q) \/ Deny(q) \/ Disconnect(q)
                                        \/ \E phase \in {"served", "failed"} : Answer(q, phase)
      PROVE  req'[r] = req[r]
  <2>1. \A p : Ended(q, p)[r] = req[r]
    BY <1>1, <1>3 DEF Ended
  <2>2. \A l : Sent(q, l)[r] = req[r]
    BY <1>1, <1>3 DEF Sent
  <2>3. ASSUME NEW region \in Regions, NEW product \in Products, Arrive(q, region, product) PROVE req'[r] = req[r]
    BY <1>1, <1>3, <2>1, <2>3 DEF Arrive
  <2>4. ASSUME Choose(q) PROVE req'[r] = req[r]
    BY <1>3, <2>1, <2>2, <2>4 DEF Choose
  <2>5. ASSUME Deny(q) PROVE req'[r] = req[r]
    BY <1>1, <1>3, <2>1, <2>5 DEF Deny
  <2>6. ASSUME Disconnect(q) PROVE req'[r] = req[r]
    BY <2>1, <2>6 DEF Disconnect
  <2>7. ASSUME NEW phase \in {"served", "failed"}, Answer(q, phase) PROVE req'[r] = req[r]
    BY <2>1, <2>7 DEF Answer
  <2> QED BY <1>3, <2>3, <2>4, <2>5, <2>6, <2>7
<1>4. ASSUME NEW region \in Regions, NEW product \in Products, Arrive(r, region, product)
      PROVE  req[r].phase \notin {"choosing", "sent"}
  BY <1>4 DEF Arrive, Outcomes
<1>5. ASSUME Choose(r) PROVE req[r].phase = "choosing"
  BY <1>5 DEF Choose
<1>6. ASSUME Deny(r) PROVE req[r].phase = "sent"
  BY <1>6 DEF Deny
<1>7. ASSUME Disconnect(r) PROVE req'[r].phase = "gone"
  BY <1>2, <1>7 DEF Disconnect
<1>8. ASSUME NEW phase \in {"served", "failed"}, Answer(r, phase) PROVE req[r].phase = "sent" /\ req'[r].phase # "denied"
  BY <1>2, <1>8 DEF Answer
<1>9. ASSUME Close PROVE req'[r] = req[r] \/ req'[r].phase = "gone"
  BY <1>1, <1>9 DEF Close, Idle
<1>10. ASSUME \/ \E f \in Files, content \in Contents : WriteLogin(f, content)
              \/ Expire \/ LoseWatch \/ Debounce \/ \E l \in Locks : Reopen(l)
              \/ UNCHANGED loginVars
       PROVE  req' = req
  BY <1>10 DEF WriteLogin, Expire, LoseWatch, Debounce, Reopen, loginVars
<1> QED
  BY <1>3, <1>4, <1>5, <1>6, <1>7, <1>8, <1>9, <1>10 DEF LoginsNext

(* What a choice sends was chosen from the snapshot that it leaves.        *)
LEMMA SentIsChosen ==
    ASSUME LoginsTypeOK, NEW r \in Requests, Choose(r), req'[r].phase = "sent"
    PROVE  /\ req'[r].login = ForProduct(snap', dir, req[r].region, req[r].product)
           /\ req'[r].login # None
<1>1. req \in [Requests -> Calling] /\ req[r] \in Calling
  BY DEF LoginsTypeOK
<1>2. \A l : Sent(r, l)[r].login = l
  BY <1>1 DEF Sent, Calling
<1>3. Ended(r, "unavailable")[r].phase = "unavailable"
  BY <1>1 DEF Ended, Idle
<1> QED BY <1>2, <1>3 DEF Choose

LEMMA LockStep ==
    ASSUME LoginsTypeOK, [LoginsNext]_loginVars, NEW r \in Requests,
           req[r].phase = "choosing", req'[r].phase = "sent", lock.kind # "auto",
           Selector(dir, lock) # None, NEW f \in OfAccount(dir, Selector(dir, lock)), snap'[f] = dir[f]
    PROVE  req'[r].login.uid = Selector(dir, lock).uid
<1>1. Choose(r)
  BY WhoEnds
<1>2. PICK s, selector, login : s = snap' /\ selector = Selector(dir, lock) /\ login = req'[r].login
  OBVIOUS
<1>3. login = ForProduct(s, dir, req[r].region, req[r].product) /\ login # None
  BY <1>1, <1>2, SentIsChosen
<1>4. f \in OfAccount(s, selector) /\ OfAccount(s, selector) \in SUBSET Found(s)
  BY <1>2 DEF OfAccount, Found
<1>5. PICK n : n = Newest(s, OfAccount(s, selector))
  OBVIOUS
<1>6. n \in OfAccount(s, selector) /\ n # None
  BY <1>4, <1>5, NewestIs
<1>7. s[n] \in Records /\ s[n].uid = selector.uid
  BY <1>6 DEF OfAccount, Found
<1>8. s[n] # None /\ s[n] \in Logins
  BY <1>7, LoginsAssumption DEF LoginsAssumption
<1>9. Locked(s, dir, lock) = s[n]
  BY <1>2, <1>5, <1>6 DEF Locked
<1>10. login = [s[n] EXCEPT !.product = req[r].product]
  BY <1>3, <1>8, <1>9 DEF ForProduct
<1>11. login.uid = s[n].uid
  BY <1>8, <1>10 DEF Logins
<1> QED BY <1>2, <1>7, <1>11

(* While an account is configured and one of its logins is on disk, no     *)
(* request is sent with another account, unless that file changed since    *)
(* the last scan (credentials.ts, locked and selectCredential).            *)
THEOREM LocksHold == LoginsSpec => LockHolds
<1>1. ASSUME LoginsTypeOK, [LoginsNext]_loginVars
      PROVE  \A r \in Requests :
                (req[r].phase = "choosing" /\ req'[r].phase = "sent" /\ lock.kind # "auto") =>
                   LET selector == Selector(dir, lock) IN
                   selector # None =>
                      \A f \in OfAccount(dir, selector) :
                         req'[r].login.uid = selector.uid \/ snap'[f] # dir[f]
  BY <1>1, LockStep
<1> QED BY <1>1, LoginsTypes, PTL DEF LoginsSpec, LockHolds

LEMMA RefusalStep ==
    ASSUME LoginsTypeOK, [LoginsNext]_loginVars, NEW r \in Requests,
           NEW rightful, rightful = Rightful(req[r].region, req[r].product),
           NEW hopeless, hopeless = (rightful = {} \/ \E f \in rightful : Unusable(f, req[r].region))
    PROVE  /\ (req[r].phase = "choosing" /\ req'[r].phase = "unavailable") => hopeless
           /\ (req[r].phase = "sent" /\ req[r].attempt = 0 /\ req'[r].phase = "denied") =>
                 hopeless \/ \E f \in rightful : dir[f].token = req[r].login.token
<1>1. /\ dir \in [Files -> Contents] /\ lock \in Locks
      /\ req \in [Requests -> Calling] /\ req[r] \in Calling /\ req[r].region \in Regions /\ req[r].product \in Products
  BY DEF LoginsTypeOK, Calling
<1>2. PICK used : used = ForProduct(dir, dir, req[r].region, req[r].product)
  OBVIOUS
<1>3. /\ used = None => hopeless
      /\ used # None => \E f \in rightful : dir[f].token = used.token
  BY <1>1, <1>2, ForProductRightful
<1>4. ASSUME req[r].phase = "choosing", req'[r].phase = "unavailable" PROVE used = None
  <2>1. Choose(r)
    BY <1>4, WhoEnds
  <2>2. \A l : Sent(r, l)[r].phase = "sent"
    BY <1>1 DEF Sent, Calling
  <2> QED BY <1>2, <1>4, <2>1, <2>2 DEF Choose
<1>5. ASSUME req[r].phase = "sent", req[r].attempt = 0, req'[r].phase = "denied"
      PROVE  used = None \/ used.token = req[r].login.token
  <2>1. Deny(r)
    BY <1>5, WhoEnds
  <2>2. PICK again : again = [req EXCEPT ![r].phase = "choosing", ![r].attempt = 1]
    OBVIOUS
  <2>3. again[r].phase = "choosing"
    BY <1>1, <2>2 DEF Calling
  <2>4. req' = IF used = None \/ used.token = req[r].login.token THEN Ended(r, "denied") ELSE again
    <3>1. ~(req[r].attempt > 0)
      BY <1>5
    <3> QED BY <1>2, <2>1, <2>2, <3>1 DEF Deny
  <2> QED BY <1>5, <2>3, <2>4
<1> QED BY <1>3, <1>4, <1>5

(* A client is told that it has no login, or that its login is refused at  *)
(* the first attempt, only if that is so of the files as they are now,     *)
(* whatever the watcher has missed (index.ts, selectCredential).           *)
THEOREM RefusalsHold == LoginsSpec => RefusalsAreCurrent
<1>1. ASSUME LoginsTypeOK, [LoginsNext]_loginVars
      PROVE  \A r \in Requests :
                LET rightful == Rightful(req[r].region, req[r].product)
                    hopeless == rightful = {} \/ \E f \in rightful : Unusable(f, req[r].region)
                IN /\ (req[r].phase = "choosing" /\ req'[r].phase = "unavailable") => hopeless
                   /\ (req[r].phase = "sent" /\ req[r].attempt = 0 /\ req'[r].phase = "denied") =>
                         hopeless \/ \E f \in rightful : dir[f].token = req[r].login.token
  <2> SUFFICES ASSUME NEW r \in Requests
               PROVE  LET rightful == Rightful(req[r].region, req[r].product)
                          hopeless == rightful = {} \/ \E f \in rightful : Unusable(f, req[r].region)
                      IN /\ (req[r].phase = "choosing" /\ req'[r].phase = "unavailable") => hopeless
                         /\ (req[r].phase = "sent" /\ req[r].attempt = 0 /\ req'[r].phase = "denied") =>
                               hopeless \/ \E f \in rightful : dir[f].token = req[r].login.token
    OBVIOUS
  <2>1. PICK rightful : rightful = Rightful(req[r].region, req[r].product)
    OBVIOUS
  <2>2. PICK hopeless : hopeless = (rightful = {} \/ \E f \in rightful : Unusable(f, req[r].region))
    OBVIOUS
  <2> QED BY <1>1, <2>1, <2>2, RefusalStep
<1> QED BY <1>1, LoginsTypes, PTL DEF LoginsSpec, RefusalsAreCurrent

(* What is shown for the configured value, and what stands for it.         *)
Named(l, selector) ==
    IF selector # None THEN Newest(dir, OfAccount(dir, selector))
    ELSE IF l.kind = "file" /\ dir[l.file] # Absent THEN l.file ELSE None

LEMMA FreshestIs ==
    ASSUME Freshest(dir) # None
    PROVE  \E r \in Regions, p \in Products :
              /\ Freshest(dir) = Newest(dir, OfProfile(dir, r, p))
              /\ Freshest(dir) \in OfProfile(dir, r, p)
<1>1. Freshest(dir) \in Profiles(dir)
  <2> DEFINE all == {f \in Profiles(dir) : \A g \in Profiles(dir) :
                        \/ dir[f].refresh > dir[g].refresh
                        \/ dir[f].refresh = dir[g].refresh /\ FirstMet(dir, f) <= FirstMet(dir, g)}
  <2>1. all \subseteq Profiles(dir)
    OBVIOUS
  <2>2. Freshest(dir) = IF all = {} THEN None ELSE CHOOSE f \in all : TRUE
    BY DEF Freshest
  <2> HIDE DEF all
  <2> QED BY <2>1, <2>2
<1>2. PICK r \in Regions, p \in Products : Freshest(dir) = Newest(dir, OfProfile(dir, r, p))
  BY <1>1 DEF Profiles
<1>3. OfProfile(dir, r, p) \in SUBSET Found(dir)
  BY DEF OfProfile
<1>4. Newest(dir, OfProfile(dir, r, p)) \in OfProfile(dir, r, p)
  BY <1>2, <1>3, NewestIs
<1> QED BY <1>2, <1>4

LEMMA ShownUsed ==
    ASSUME LoginsTypeOK, Shown(dir, lock) # None, NEW login, login = dir[Shown(dir, lock)],
           login # Broken, ~Expired(login),
           NEW used, used = ForProduct(dir, dir, login.region, login.product)
    PROVE  used # None /\ used.token = login.token
<1>1. dir \in [Files -> Contents] /\ lock \in Locks
  BY DEF LoginsTypeOK
<1>2. PICK f : f = Shown(dir, lock)
  OBVIOUS
<1>3. f = LET named == Named(lock, Selected) IN IF named # None THEN named ELSE Freshest(dir)
  BY <1>2 DEF Shown, Named, Selected
<1>4. login \in Records /\ Considered(login.region, login.product) = login
  <2>1. OfAccount(dir, Selected) \in SUBSET Found(dir)
    BY DEF OfAccount
  <2>2. CASE Selected # None /\ OfAccount(dir, Selected) # {}
    <3>1. PICK n : n = Newest(dir, OfAccount(dir, Selected))
      OBVIOUS
    <3>2. n # None /\ dir[n] \in Records
      BY <2>1, <2>2, <3>1, NewestIsLatest
    <3>3. f = n
      BY <1>3, <2>2, <3>1, <3>2 DEF Named
    <3>4. lock.kind # "auto" /\ Selected = Selector(dir, lock)
      BY <2>2 DEF Selected
    <3>5. Locked(dir, dir, lock) = dir[n]
      BY <2>2, <3>1, <3>2, <3>4 DEF Locked
    <3>6. dir[n] # None
      BY <3>2, LoginsAssumption DEF LoginsAssumption
    <3> QED BY <1>2, <3>2, <3>3, <3>5, <3>6 DEF Considered
  <2>3. CASE lock.kind = "file" /\ Selected = None /\ dir[lock.file] # Absent
    <3>1. Locked(dir, dir, lock) = dir[lock.file] /\ dir[lock.file] \in Records \union {Broken} /\ lock.file \in Files
      BY <1>1, <2>3, LockedIs, SelectorKinds
    <3>2. lock.file # None /\ dir[lock.file] # None
      BY <3>1, LoginsAssumption DEF LoginsAssumption
    <3>3. f = lock.file
      BY <1>3, <2>3, <3>2 DEF Named
    <3> QED BY <1>2, <3>1, <3>2, <3>3 DEF Considered
  <2>4. CASE /\ ~(Selected # None /\ OfAccount(dir, Selected) # {})
             /\ ~(lock.kind = "file" /\ Selected = None /\ dir[lock.file] # Absent)
    <3>1. Locked(dir, dir, lock) = None
      BY <1>1, <2>4, LockedIs, SelectorKinds
    <3>2. Named(lock, Selected) = None
      BY <2>1, <2>4, NewestIs DEF Named
    <3>3. f = Freshest(dir) /\ f # None
      BY <1>2, <1>3, <3>2
    <3>4. PICK r \in Regions, p \in Products : f = Newest(dir, OfProfile(dir, r, p)) /\ f \in OfProfile(dir, r, p)
      BY <3>3, FreshestIs
    <3>5. login \in Records /\ login.region = r /\ login.product = p
      BY <1>2, <3>4 DEF OfProfile, Found
    <3>6. Automatic(dir, r, p) = login
      BY <1>2, <3>3, <3>4 DEF Automatic
    <3> QED BY <3>1, <3>5, <3>6 DEF Considered
  <2> QED BY <2>2, <2>3, <2>4
<1>5. login # None /\ login \in Logins
  BY <1>4, LoginsAssumption DEF LoginsAssumption
<1>6. used = [login EXCEPT !.product = login.product]
  <2>1. used = LET l == Considered(login.region, login.product) IN
               IF l \in {None, Broken} \/ Expired(l) \/ l.region # login.region THEN None
               ELSE [l EXCEPT !.product = login.product]
    BY DEF ForProduct, Considered
  <2> QED BY <1>4, <1>5, <2>1
<1>7. used \in Logins /\ used.token = login.token
  BY <1>5, <1>6 DEF Logins
<1> QED BY <1>7, LoginsAssumption DEF LoginsAssumption

LEMMA ListedShown ==
    ASSUME LoginsTypeOK, NEW f \in Listed(dir)
    PROVE  Shown(dir, Value(dir, f)) = f
<1>1. f \in Files /\ dir[f] \in Records
  BY DEF Listed, Found
<1>2. f # None /\ dir[f] # Absent /\ dir[f] \in Logins
  BY <1>1, LoginsAssumption DEF LoginsAssumption
<1>3. CASE dir[f].uid = NoUid
  <2>1. PICK v : v = Value(dir, f)
    OBVIOUS
  <2>2. v.kind = "file" /\ v.file = f
    BY <1>3, <2>1 DEF Value
  <2>3. Selector(dir, v) = None
    BY <1>3, <2>2 DEF Selector
  <2> QED BY <1>2, <2>1, <2>2, <2>3 DEF Shown
<1>4. CASE dir[f].uid # NoUid
  <2>1. PICK v : v = Account(dir, f)
    OBVIOUS
  <2>2. v.kind = "account" /\ v = Value(dir, f)
    BY <1>4, <2>1 DEF Value, Account
  <2>3. Selector(dir, v) = v
    BY <2>2 DEF Selector
  <2>4. v # None
    BY <1>2, <2>1, LoginsAssumption DEF LoginsAssumption, Account, Logins
  <2>5. f = Newest(dir, OfAccount(dir, v))
    BY <1>4, <2>1 DEF Listed
  <2> QED BY <1>2, <2>2, <2>3, <2>4, <2>5 DEF Shown
<1> QED BY <1>3, <1>4

LEMMA CanonicalShown ==
    ASSUME LoginsTypeOK
    PROVE  Shown(dir, Canonical(dir, lock)) = Shown(dir, lock)
<1>1. PICK f : f = IF Selected = None THEN None ELSE Newest(dir, OfAccount(dir, Selected))
  OBVIOUS
<1>2. Canonical(dir, lock) = IF f = None THEN lock ELSE Account(dir, f)
  BY <1>1 DEF Canonical, Selected
<1>3. CASE f = None
  BY <1>2, <1>3
<1>4. CASE f # None
  <2> DEFINE mine == OfAccount(dir, Account(dir, f))
             all  == OfAccount(dir, Selected)
  <2>1. Selected # None /\ f = Newest(dir, all) /\ all \in SUBSET Found(dir) /\ mine \in SUBSET Found(dir)
    BY <1>1, <1>4 DEF OfAccount
  <2>2. f \in all /\ Outlasts(dir, all, f)
    <3>1. all # {}
      BY <1>4, <2>1, NewestIs
    <3> QED BY <2>1, <3>1, NewestIs
  <2>3. Account(dir, f).uid = dir[f].uid /\ Account(dir, f).region = dir[f].region
        /\ Account(dir, f).product = dir[f].product /\ Account(dir, f).kind = "account"
    BY DEF Account
  <2>4. f \in mine /\ mine \subseteq all
    BY <2>2, <2>3 DEF OfAccount
  <2>5. Outlasts(dir, mine, f)
    BY <2>2, <2>4 DEF Outlasts
  <2>6. Newest(dir, mine) = f
    BY <2>1, <2>4, <2>5, NewestIs
  <2>7. Account(dir, f) # None
    BY <2>2, LoginsAssumption DEF LoginsAssumption, Account, Logins, OfAccount, Found
  <2>8. Shown(dir, Account(dir, f)) = f
    <3>1. PICK v : v = Account(dir, f)
      OBVIOUS
    <3>2. Selector(dir, v) = v /\ v # None /\ v.kind = "account"
      BY <2>3, <2>7, <3>1 DEF Selector
    <3> QED BY <1>4, <2>6, <3>1, <3>2 DEF Shown
  <2>9. Shown(dir, lock) = f
    BY <1>4, <2>1 DEF Shown, Selected
  <2> QED BY <1>2, <1>4, <2>8, <2>9
<1> QED BY <1>3, <1>4

(* The account that is shown is the one that is used, in its region, as    *)
(* far as the snapshot is up to date; a login the user picks from the list *)
(* is the one that is shown for that choice; and the entry that is marked  *)
(* for an older setting leads where this setting leads (credentials.ts,    *)
(* listCodebuddyAccounts, forProduct, select).                              *)
THEOREM ShownLoginsAreUsed == LoginsSpec => []ShownIsUsed
<1>1. ASSUME LoginsTypeOK PROVE ShownIsUsed
  <2>1. ASSUME ~closed, snap = dir, Shown(dir, lock) # None
        PROVE  LET login == dir[Shown(dir, lock)] IN
               (login # Broken /\ ~Expired(login)) =>
                   LET used == ForProduct(snap, dir, login.region, login.product)
                   IN used # None /\ used.token = login.token
    <3>1. PICK login : login = dir[Shown(dir, lock)]
      OBVIOUS
    <3>2. PICK used : used = ForProduct(dir, dir, login.region, login.product)
      OBVIOUS
    <3>3. (login # Broken /\ ~Expired(login)) => used # None /\ used.token = login.token
      BY <1>1, <2>1, <3>1, <3>2, ShownUsed
    <3> QED BY <2>1, <3>1, <3>2, <3>3
  <2> QED BY <1>1, <2>1, ListedShown, CanonicalShown DEF ShownIsUsed
<1> QED BY <1>1, LoginsTypes, PTL

-----------------------------------------------------------------------------
(* The catalog of Qoder.                                                   *)


(* What one turn of the round leaves is a catalog, and a login to fetch    *)
(* for or none.                                                            *)
TurnOK(t) ==
    /\ t.memory \in Catalogs /\ t.cool \in Ids \union {NoLogin}
    /\ t.fetch \in Ids \union {NoLogin} /\ t.ok \in BOOLEAN

LEMMA LoadFound == QoderTypeOK => Load \in LoginFiles
BY DEF QoderTypeOK, Load, LoginFiles

LEMMA OwnedFound ==
    ASSUME NEW c \in Catalogs, NEW id
    PROVE  Owned(c, id) \in Catalogs /\ (Owned(c, id) # NoCatalog => Owned(c, id) = c /\ c.of = id)
BY DEF Owned, Catalogs

LEMMA TurnFound ==
    ASSUME QoderTypeOK, NEW force \in BOOLEAN, NEW memory \in Catalogs, NEW file \in Catalogs,
           NEW cool \in Ids \union {NoLogin}
    PROVE  TurnOK(Turn(force, memory, file, cool))
<1> DEFINE own  == IF Owned(memory, Load) # NoCatalog THEN memory ELSE Owned(file, Load)
           wait == IF cool = Load THEN cool ELSE NoLogin
           held == ~force /\ (wait = Load \/ (own # NoCatalog /\ own.fresh))
           t == Turn(force, memory, file, cool)
<1>1. own \in Catalogs
  BY OwnedFound
<1>2. wait \in Ids \union {NoLogin}
  OBVIOUS
<1>3. Load \in Ids \union {NoLogin, BadLogin}
  BY LoadFound DEF LoginFiles, CliFiles, DesktopFiles, Ids
<1>4. NoCatalog \in Catalogs
  BY DEF Catalogs
<1>5. CASE Load = BadLogin
  <2>1. t = [memory |-> memory, cool |-> cool, fetch |-> NoLogin, ok |-> FALSE]
    BY <1>5, QoderAssumption DEF Turn, QoderAssumption
  <2> HIDE DEF t
  <2> QED BY <2>1 DEF TurnOK, t
<1>6. CASE Load = NoLogin
  <2>1. t = [memory |-> NoCatalog, cool |-> NoLogin, fetch |-> NoLogin, ok |-> TRUE]
    BY <1>6, QoderAssumption DEF Turn, QoderAssumption
  <2> HIDE DEF t
  <2> QED BY <1>4, <2>1 DEF TurnOK, t
<1>7. CASE Load \in Ids
  <2>1. Load # BadLogin /\ Load # NoLogin
    BY <1>7, QoderAssumption DEF QoderAssumption
  <2>2. t = [memory |-> own, cool |-> wait, fetch |-> IF held THEN NoLogin ELSE Load, ok |-> TRUE]
    BY <2>1 DEF Turn
  <2>3. (IF held THEN NoLogin ELSE Load) \in Ids \union {NoLogin}
    BY <1>7
  <2> HIDE DEF t, own, wait, held
  <2> QED BY <1>1, <1>2, <2>2, <2>3 DEF TurnOK, t
<1> QED BY <1>3, <1>5, <1>6, <1>7

(* While a round runs somebody who waits has seen a forced fetch begin, or *)
(* one will; without a round nobody waits.                                 *)
HeardOK(forcers, seen, again, running) ==
    /\ \A f \in Forcers : forcers[f] \in {"ready", "done"} => f \in seen
    /\ \A f \in Forcers : forcers[f] = "waiting" => running /\ (f \in seen \/ again)
    /\ ~running => ~again

(* The list of a request that saw no change of the logins is its own, and  *)
(* after one change it is of the login then or of the login now.           *)
AskerOK(r, load, n) ==
    /\ r.changed <= n
    /\ r.stage \in {"waiting", "ready"} /\ r.changed = 0 => r.login = load
    /\ r.stage = "listed" /\ r.changed = 0 => r.list = r.login /\ r.login = load
    /\ r.stage = "listed" /\ r.changed = 1 => r.list \in {r.login, load}
    /\ r.stage = "sent" /\ r.changed < 2 => r.list = r.login

AskersOK(askers, load, n) == \A a \in Askers : AskerOK(askers[a], load, n)

QoderInv ==
    /\ QoderTypeOK
    /\ HeardOK(forcer, heard, forceAgain, Running)
    /\ AskersOK(asker, Load, changes)

AskerType  == [stage : Stages, login : LoginFiles, list : LoginFiles, changed : 0..MaxChanges]
ForcerType == [Forcers -> {"idle", "waiting", "ready", "done"}]

LEMMA AtRests ==
    ASSUME NEW stage \in {"idle", "over"}, NEW load, NEW n \in Nat
    PROVE  At(stage) \in AskerType /\ AskerOK(At(stage), load, n)
<1>1. NoLogin \in LoginFiles /\ 0 \in 0..MaxChanges
  BY QoderAssumption DEF LoginFiles, CliFiles, QoderAssumption
<1> QED BY <1>1 DEF At, AskerType, AskerOK, Stages

LEMMA MoveAsks ==
    ASSUME QoderInv, NEW a \in Askers, NEW r \in AskerType, AskerOK(r, Load, changes), Move(a, r)
    PROVE  asker' \in [Askers -> AskerType] /\ AskersOK(asker', Load, changes)
BY DEF QoderInv, QoderTypeOK, Move, AskersOK, AskerType

(* The round is over for all who wait for it. *)
LEMMA ReleasedAsks ==
    ASSUME QoderInv, NEW ok \in BOOLEAN, Released(ok)
    PROVE  asker' \in [Askers -> AskerType] /\ AskersOK(asker', Load, changes)
<1>1. changes \in Nat /\ asker \in [Askers -> AskerType] /\ AskersOK(asker, Load, changes)
  BY QoderAssumption DEF QoderInv, QoderTypeOK, AskerType, QoderAssumption
<1>2. ASSUME NEW a \in Askers PROVE asker'[a] \in AskerType /\ AskerOK(asker'[a], Load, changes)
  <2> DEFINE r == [asker[a] EXCEPT !.stage = "ready"]
  <2>1. asker'[a] \in {asker[a], At("over")} \/ (asker[a].stage = "waiting" /\ asker'[a] = r)
    BY DEF Released
  <2>2. asker[a] \in AskerType /\ AskerOK(asker[a], Load, changes)
    BY <1>1 DEF AskersOK
  <2>3. asker[a].stage = "waiting" => r \in AskerType /\ AskerOK(r, Load, changes)
    BY <2>2 DEF AskerType, AskerOK, Stages
  <2> HIDE DEF r
  <2> QED BY <1>1, <2>1, <2>2, <2>3, AtRests
<1>3. asker' = [a \in Askers |-> asker'[a]]
  BY DEF Released
<1> QED BY <1>2, <1>3 DEF AskersOK

LEMMA ReleasedForces ==
    ASSUME QoderInv, NEW ok \in BOOLEAN, Released(ok), NEW seen,
           \A f \in Forcers : forcer[f] \in {"waiting", "ready", "done"} => f \in seen
    PROVE  forcer' \in ForcerType /\ HeardOK(forcer', seen, FALSE, FALSE)
<1>1. forcer' \in ForcerType
  BY DEF Released, QoderInv, QoderTypeOK, ForcerType
<1>2. ASSUME NEW f \in Forcers PROVE /\ forcer'[f] # "waiting"
                                     /\ forcer'[f] \in {"ready", "done"} => f \in seen
  BY DEF Released
<1> QED BY <1>1, <1>2 DEF HeardOK

(* What a turn that is taken over makes of the round. *)
LEMMA AdoptTypes ==
    ASSUME QoderTypeOK, NEW turn, TurnOK(turn), NEW force \in BOOLEAN, Adopt(turn, force)
    PROVE  /\ served' \in Catalogs /\ {cooling', fetchFor'} \subseteq Ids \union {NoLogin}
           /\ {fetchForced', forceAgain'} \subseteq BOOLEAN /\ forceAgain' = FALSE /\ fetchFor' = turn.fetch
BY DEF Adopt, TurnOK

LEMMA GoOnKeeps ==
    ASSUME QoderInv, Running, NEW memory \in Catalogs, NEW file \in Catalogs,
           NEW cool \in Ids \union {NoLogin}, GoOn(memory, file, cool), saved' \in Catalogs,
           UNCHANGED <<logins, onDemand, changes>>
    PROVE  QoderInv'
<1>0. QoderTypeOK /\ HeardOK(forcer, heard, forceAgain, Running) /\ AskersOK(asker, Load, changes)
  BY DEF QoderInv
<1>1. Load' = Load /\ changes' = changes /\ onDemand' = onDemand /\ cliLogin' = cliLogin /\ desktopLogin' = desktopLogin
  BY DEF logins, Load
<1>2. CASE forceAgain
  <2> DEFINE turn == Turn(TRUE, memory, file, cool)
             seen == heard \union {f \in Forcers : forcer[f] = "waiting"}
  <2>1. /\ Adopt(turn, TRUE) /\ heard' = seen
        /\ IF turn.fetch = NoLogin THEN Released(turn.ok) ELSE UNCHANGED <<asker, forcer>>
    BY <1>2 DEF GoOn
  <2>2. TurnOK(turn)
    BY <1>0, TurnFound
  <2> HIDE DEF turn
  <2>3. /\ served' \in Catalogs /\ {cooling', fetchFor'} \subseteq Ids \union {NoLogin}
        /\ {fetchForced', forceAgain'} \subseteq BOOLEAN /\ forceAgain' = FALSE /\ fetchFor' = turn.fetch
    BY <1>0, <2>1, <2>2, AdoptTypes
  <2>4. \A f \in Forcers : forcer[f] \in {"waiting", "ready", "done"} => f \in seen
    BY <1>0 DEF HeardOK
  <2>5. seen \subseteq Forcers
    BY <1>0 DEF QoderTypeOK
  <2> HIDE DEF seen
  <2>6. CASE turn.fetch = NoLogin
    <3>1. turn.ok \in BOOLEAN /\ Released(turn.ok)
      BY <2>1, <2>2, <2>6 DEF TurnOK
    <3>2. asker' \in [Askers -> AskerType] /\ AskersOK(asker', Load, changes)
      BY <3>1, ReleasedAsks
    <3>3. forcer' \in ForcerType /\ HeardOK(forcer', seen, FALSE, FALSE)
      BY <2>4, <3>1, ReleasedForces
    <3>4. Running' = FALSE
      BY <2>3, <2>6 DEF Running
    <3>5. QoderTypeOK'
      BY <1>0, <1>1, <2>1, <2>3, <2>5, <3>2, <3>3 DEF QoderTypeOK, AskerType, ForcerType
    <3> QED BY <1>1, <2>1, <2>3, <3>2, <3>3, <3>4, <3>5 DEF QoderInv
  <2>7. CASE turn.fetch # NoLogin
    <3>1. asker' = asker /\ forcer' = forcer /\ Running' = TRUE
      BY <2>1, <2>3, <2>7 DEF Running
    <3>2. HeardOK(forcer, seen, FALSE, TRUE)
      BY <2>4 DEF HeardOK
    <3>3. QoderTypeOK'
      BY <1>0, <1>1, <2>1, <2>3, <2>5, <3>1 DEF QoderTypeOK
    <3> QED BY <1>0, <1>1, <2>1, <2>3, <3>1, <3>2, <3>3 DEF QoderInv
  <2> QED BY <2>6, <2>7
<1>3. CASE ~forceAgain
  <2>1. /\ served' = memory /\ cooling' = cool /\ fetchFor' = NoLogin
        /\ fetchForced' = FALSE /\ forceAgain' = FALSE /\ heard' = heard /\ Released(TRUE)
    BY <1>3 DEF GoOn
  <2>2. \A f \in Forcers : forcer[f] \in {"waiting", "ready", "done"} => f \in heard
    BY <1>0, <1>3 DEF HeardOK
  <2>3. asker' \in [Askers -> AskerType] /\ AskersOK(asker', Load, changes)
    BY <2>1, ReleasedAsks
  <2>4. forcer' \in ForcerType /\ HeardOK(forcer', heard, FALSE, FALSE)
    BY <2>1, <2>2, ReleasedForces
  <2>5. Running' = FALSE
    BY <2>1 DEF Running
  <2>6. QoderTypeOK'
    BY <1>0, <1>1, <2>1, <2>3, <2>4 DEF QoderTypeOK, AskerType, ForcerType
  <2> QED BY <1>1, <2>1, <2>3, <2>4, <2>5, <2>6 DEF QoderInv
<1> QED BY <1>2, <1>3

LEMMA AskKeeps ==
    ASSUME QoderInv, NEW a \in Askers, Ask(a) PROVE QoderInv'
<1> DEFINE r(stage) == [stage |-> stage, login |-> Load, list |-> NoLogin, changed |-> 0]
           turn == Turn(FALSE, served, saved, cooling)
<1>0. QoderTypeOK /\ HeardOK(forcer, heard, forceAgain, Running) /\ AskersOK(asker, Load, changes)
      /\ changes \in 0..MaxChanges /\ changes \in Nat
  BY QoderAssumption DEF QoderInv, QoderTypeOK, QoderAssumption
<1>1. /\ Load' = Load /\ changes' = changes /\ onDemand' = onDemand /\ cliLogin' = cliLogin
      /\ desktopLogin' = desktopLogin /\ saved' = saved /\ forcer' = forcer /\ heard' = heard
  BY DEF Ask, logins, Load
<1>2. ASSUME NEW stage \in {"waiting", "ready"} PROVE r(stage) \in AskerType /\ AskerOK(r(stage), Load, changes)
  <2>1. Load \in LoginFiles /\ NoLogin \in LoginFiles /\ 0 \in 0..MaxChanges
    BY <1>0, LoadFound, QoderAssumption DEF LoginFiles, CliFiles, QoderAssumption
  <2> QED BY <1>0, <2>1 DEF AskerType, AskerOK, Stages
<1>3. At("over") \in AskerType /\ AskerOK(At("over"), Load, changes)
  BY <1>0, AtRests
<1>4. TurnOK(turn)
  BY <1>0, TurnFound DEF QoderTypeOK
<1>5. \/ Move(a, At("over")) /\ UNCHANGED roundVars
      \/ Move(a, r("waiting")) /\ UNCHANGED roundVars
      \/ Move(a, r("ready")) /\ UNCHANGED roundVars
      \/ /\ ~Running /\ Adopt(turn, FALSE)
         /\ Move(a, r(IF turn.fetch = NoLogin THEN "ready" ELSE "waiting"))
  BY DEF Ask
<1> HIDE DEF turn
<1>6. asker' \in [Askers -> AskerType] /\ AskersOK(asker', Load, changes)
  <2>1. PICK v : v \in AskerType /\ AskerOK(v, Load, changes) /\ Move(a, v)
    <3>1. CASE Move(a, At("over"))
      BY <1>3, <3>1
    <3>2. CASE Move(a, r("waiting"))
      BY <1>2, <3>2
    <3>3. CASE Move(a, r("ready"))
      BY <1>2, <3>3
    <3> HIDE DEF r
    <3> QED BY <1>5, <3>1, <3>2, <3>3
  <2> QED BY <2>1, MoveAsks
<1>7. CASE UNCHANGED roundVars
  <2>1. UNCHANGED <<served, cooling, fetchFor, fetchForced, forceAgain>> /\ Running' = Running
    BY <1>7 DEF roundVars, Running
  <2>2. QoderTypeOK'
    BY <1>0, <1>1, <1>6, <2>1 DEF QoderTypeOK, AskerType
  <2> QED BY <1>0, <1>1, <1>6, <2>1, <2>2 DEF QoderInv
<1>8. CASE ~Running /\ Adopt(turn, FALSE)
  <2>1. /\ served' \in Catalogs /\ {cooling', fetchFor'} \subseteq Ids \union {NoLogin}
        /\ {fetchForced', forceAgain'} \subseteq BOOLEAN /\ forceAgain' = FALSE
    BY <1>0, <1>4, <1>8, AdoptTypes
  <2>2. QoderTypeOK'
    BY <1>0, <1>1, <1>6, <2>1 DEF QoderTypeOK, AskerType
  <2>3. HeardOK(forcer, heard, FALSE, Running')
    BY <1>0, <1>8 DEF HeardOK
  <2> QED BY <1>1, <1>6, <2>1, <2>2, <2>3 DEF QoderInv
<1> QED BY <1>5, <1>7, <1>8

LEMMA DemandKeeps ==
    ASSUME QoderInv, NEW f \in Forcers, Demand(f) \/ Confirm(f) PROVE QoderInv'
<1>0. QoderTypeOK /\ HeardOK(forcer, heard, forceAgain, Running) /\ AskersOK(asker, Load, changes)
  BY DEF QoderInv
<1>1. /\ Load' = Load /\ changes' = changes /\ onDemand' = onDemand /\ cliLogin' = cliLogin
      /\ desktopLogin' = desktopLogin /\ saved' = saved /\ asker' = asker
  BY DEF Demand, Confirm, logins, Load
<1>2. CASE Demand(f) /\ Running
  <2>1. /\ forceAgain' = (forceAgain \/ ~fetchForced) /\ Running' = Running
        /\ heard' = IF fetchForced THEN heard \union {f} ELSE heard \ {f}
        /\ forcer' = [forcer EXCEPT ![f] = "waiting"]
        /\ UNCHANGED <<served, cooling, fetchFor, fetchForced>>
    BY <1>2 DEF Demand, Running
  <2>2. QoderTypeOK'
    BY <1>0, <1>1, <2>1 DEF QoderTypeOK
  <2>3. HeardOK(forcer', heard', forceAgain', Running')
    BY <1>0, <1>2, <2>1 DEF HeardOK, QoderTypeOK
  <2> QED BY <1>0, <1>1, <2>2, <2>3 DEF QoderInv
<1>3. CASE Demand(f) /\ ~Running
  <2> DEFINE turn == Turn(TRUE, served, saved, cooling)
  <2>1. /\ Adopt(turn, TRUE) /\ heard' = heard \union {f}
        /\ forcer' = [forcer EXCEPT ![f] = IF turn.fetch # NoLogin THEN "waiting"
                                           ELSE IF turn.ok THEN "ready" ELSE "idle"]
    BY <1>3 DEF Demand
  <2>2. TurnOK(turn)
    BY <1>0, TurnFound DEF QoderTypeOK
  <2> HIDE DEF turn
  <2>3. /\ served' \in Catalogs /\ {cooling', fetchFor'} \subseteq Ids \union {NoLogin}
        /\ {fetchForced', forceAgain'} \subseteq BOOLEAN /\ forceAgain' = FALSE /\ fetchFor' = turn.fetch
    BY <1>0, <2>1, <2>2, AdoptTypes
  <2>4. QoderTypeOK'
    BY <1>0, <1>1, <2>1, <2>3 DEF QoderTypeOK
  <2>5. HeardOK(forcer', heard', FALSE, Running')
    BY <1>0, <1>3, <2>1, <2>3 DEF HeardOK, QoderTypeOK, Running
  <2> QED BY <1>0, <1>1, <2>3, <2>4, <2>5 DEF QoderInv
<1>4. CASE Confirm(f)
  <2>1. /\ forcer[f] = "ready" /\ forcer' \in {[forcer EXCEPT ![f] = "done"], [forcer EXCEPT ![f] = "idle"]}
        /\ UNCHANGED <<served, cooling, fetchFor, fetchForced, forceAgain, heard>> /\ Running' = Running
    BY <1>4 DEF Confirm, roundVars, Running
  <2>2. QoderTypeOK'
    BY <1>0, <1>1, <2>1 DEF QoderTypeOK
  <2>3. HeardOK(forcer', heard, forceAgain, Running)
    BY <1>0, <2>1 DEF HeardOK, QoderTypeOK
  <2> QED BY <1>0, <1>1, <2>1, <2>2, <2>3 DEF QoderInv
<1> QED BY <1>2, <1>3, <1>4

LEMMA FetchKeeps ==
    ASSUME QoderInv, Fetched \/ FetchFailed PROVE QoderInv'
<1>0. QoderTypeOK /\ HeardOK(forcer, heard, forceAgain, Running) /\ AskersOK(asker, Load, changes)
      /\ NoLogin \notin Ids
  BY QoderAssumption DEF QoderInv, QoderAssumption
<1>1. CASE Fetched
  <2> DEFINE new == [of |-> fetchFor, fresh |-> TRUE]
  <2>1. new \in Catalogs
    BY <1>0, <1>1 DEF Fetched, Running, Catalogs, QoderTypeOK
  <2>2. PICK file \in {new, saved} : saved' = file /\ GoOn(new, file, NoLogin)
    BY <1>1 DEF Fetched
  <2> HIDE DEF new
  <2>3. file \in Catalogs /\ Running
    BY <1>0, <1>1, <2>1, <2>2 DEF QoderTypeOK, Fetched
  <2> QED BY <1>1, <2>1, <2>2, <2>3, GoOnKeeps DEF Fetched
<1>2. CASE FetchFailed /\ ~(fetchForced /\ served = NoCatalog)
  <2>1. GoOn(served, saved, fetchFor) /\ Running /\ saved' = saved
    BY <1>2 DEF FetchFailed
  <2> QED BY <1>0, <1>2, <2>1, GoOnKeeps DEF FetchFailed, QoderTypeOK
<1>3. CASE FetchFailed /\ fetchForced /\ served = NoCatalog
  <2>1. /\ cooling' = fetchFor /\ fetchFor' = NoLogin /\ fetchForced' = FALSE /\ forceAgain' = FALSE
        /\ Released(FALSE) /\ UNCHANGED <<served, heard, saved, onDemand, changes, cliLogin, desktopLogin>>
        /\ Load' = Load
    BY <1>3 DEF FetchFailed, logins, Load
  <2>2. asker' \in [Askers -> AskerType] /\ AskersOK(asker', Load, changes)
    BY <2>1, ReleasedAsks
  <2>3. forcer' \in ForcerType /\ HeardOK(forcer', heard, FALSE, FALSE)
    BY <1>0, <2>1 DEF Released, HeardOK, QoderTypeOK, ForcerType
  <2>4. Running' = FALSE
    BY <2>1 DEF Running
  <2>5. QoderTypeOK'
    BY <1>0, <2>1, <2>2, <2>3 DEF QoderTypeOK, AskerType, ForcerType
  <2> QED BY <2>1, <2>2, <2>3, <2>4, <2>5 DEF QoderInv
<1> QED BY <1>1, <1>2, <1>3

LEMMA ReloadKeeps ==
    ASSUME QoderInv, QoderReload \/ Age PROVE QoderInv'
<1>0. QoderTypeOK /\ HeardOK(forcer, heard, forceAgain, Running) /\ AskersOK(asker, Load, changes)
  BY DEF QoderInv
<1>1. /\ UNCHANGED <<cliLogin, desktopLogin, onDemand, fetchFor, fetchForced, forceAgain, asker, forcer, heard, changes>>
      /\ Load' = Load /\ Running' = Running
  BY DEF QoderReload, Age, logins, Load, Running
<1>2. ASSUME NEW c \in Catalogs PROVE Stale(c) \in Catalogs
  BY DEF Stale, Catalogs
<1>3. served' \in Catalogs /\ saved' \in Catalogs /\ cooling' \in Ids \union {NoLogin}
  BY <1>0, <1>2, OwnedFound DEF QoderReload, Age, QoderTypeOK
<1>4. QoderTypeOK'
  BY <1>0, <1>1, <1>3 DEF QoderTypeOK
<1> QED BY <1>0, <1>1, <1>4 DEF QoderInv

LEMMA ListKeeps ==
    ASSUME QoderInv, NEW a \in Askers, List(a) \/ Send(a) PROVE QoderInv'
<1>0. QoderTypeOK /\ HeardOK(forcer, heard, forceAgain, Running) /\ AskersOK(asker, Load, changes)
      /\ changes \in Nat /\ asker[a] \in AskerType /\ AskerOK(asker[a], Load, changes)
  BY QoderAssumption DEF QoderInv, QoderTypeOK, AskersOK, AskerType, QoderAssumption
<1>1. /\ UNCHANGED <<cliLogin, desktopLogin, onDemand, saved, cooling, fetchFor, fetchForced, forceAgain,
                    forcer, heard, changes>>
      /\ Load' = Load /\ Running' = Running
  BY DEF List, Send, logins, roundVars, Load, Running
<1>2. At("over") \in AskerType /\ AskerOK(At("over"), Load, changes)
  BY <1>0, AtRests
<1> DEFINE own == IF Owned(served, Load) # NoCatalog THEN served ELSE Owned(saved, Load)
<1>3. own \in Catalogs /\ (own # NoCatalog => own.of = Load)
  BY <1>0, OwnedFound DEF QoderTypeOK
<1>4. served' \in Catalogs
  BY <1>0, <1>3 DEF List, Send, roundVars, QoderTypeOK
<1>5. asker' \in [Askers -> AskerType] /\ AskersOK(asker', Load, changes)
  <2>1. CASE Move(a, At("over"))
    BY <1>2, <2>1, MoveAsks
  <2>2. CASE List(a) /\ ~Move(a, At("over"))
    <3> DEFINE r == [asker[a] EXCEPT !.stage = "listed", !.list = own.of]
    <3>1. asker[a].stage = "ready" /\ own # NoCatalog /\ Move(a, r)
      BY <2>2 DEF List
    <3>2. Load \in LoginFiles
      BY <1>0, LoadFound
    <3>3. own.of = Load
      BY <1>3, <3>1
    <3> HIDE DEF own
    <3>4. r \in AskerType /\ AskerOK(r, Load, changes)
      BY <1>0, <3>1, <3>2, <3>3 DEF AskerType, AskerOK, Stages
    <3> HIDE DEF r
    <3> QED BY <3>1, <3>4, MoveAsks
  <2>3. CASE Send(a) /\ ~Move(a, At("over"))
    <3> DEFINE r == [asker[a] EXCEPT !.stage = "sent"]
    <3>1. asker[a].stage = "listed" /\ Load = asker[a].login /\ Move(a, r)
      BY <2>3 DEF Send
    <3>2. r \in AskerType /\ AskerOK(r, Load, changes)
      BY <1>0, <3>1 DEF AskerType, AskerOK, Stages
    <3> HIDE DEF r
    <3> QED BY <3>1, <3>2, MoveAsks
  <2> QED BY <2>1, <2>2, <2>3
<1>6. QoderTypeOK'
  BY <1>0, <1>1, <1>4, <1>5 DEF QoderTypeOK, AskerType
<1> QED BY <1>0, <1>1, <1>5, <1>6 DEF QoderInv

LEMMA ChangeKeeps ==
    ASSUME QoderInv, NEW cli \in CliFiles, NEW desktop \in DesktopFiles, Change(cli, desktop)
    PROVE  QoderInv'
<1>0. QoderTypeOK /\ HeardOK(forcer, heard, forceAgain, Running) /\ AskersOK(asker, Load, changes)
      /\ changes \in 0..MaxChanges /\ MaxChanges \in Nat /\ changes < MaxChanges
  BY QoderAssumption DEF QoderInv, QoderTypeOK, QoderAssumption, Change
<1>1. /\ cliLogin' = cli /\ desktopLogin' = desktop /\ changes' = changes + 1 /\ Running' = Running
      /\ UNCHANGED <<onDemand, saved, served, cooling, fetchFor, fetchForced, forceAgain, forcer, heard>>
  BY DEF Change, roundVars, Running
<1>2. ASSUME NEW a \in Askers PROVE asker'[a] \in AskerType /\ AskerOK(asker'[a], Load', changes + 1)
  <2> DEFINE n == asker[a].changed + 1
             r == [asker[a] EXCEPT !.changed = n]
  <2>1. asker[a] \in AskerType /\ AskerOK(asker[a], Load, changes) /\ asker[a].changed \in 0..MaxChanges
    BY <1>0 DEF QoderTypeOK, AskersOK, AskerType
  <2>2. asker'[a] = IF asker[a].stage \in {"waiting", "ready", "listed"} THEN r ELSE asker[a]
    BY <2>1 DEF Change, AskerType
  <2>3. n \in 0..MaxChanges /\ n <= changes + 1 /\ n # 0 /\ (n = 1 => asker[a].changed = 0)
    BY <1>0, <2>1 DEF AskerOK
  <2> HIDE DEF n
  <2>4. /\ r \in AskerType /\ r.stage = asker[a].stage /\ r.login = asker[a].login /\ r.list = asker[a].list
        /\ r.changed = n
    BY <2>1, <2>3 DEF AskerType
  <2> HIDE DEF r
  <2>5. CASE asker[a].stage \in {"waiting", "ready", "listed"}
    BY <2>1, <2>2, <2>3, <2>4, <2>5 DEF AskerOK
  <2>6. CASE asker[a].stage \notin {"waiting", "ready", "listed"}
    BY <1>0, <2>1, <2>2, <2>6 DEF AskerOK
  <2> QED BY <2>5, <2>6
<1>3. asker' \in [Askers -> AskerType] /\ AskersOK(asker', Load', changes')
  <2>1. asker' = [a \in Askers |-> asker'[a]]
    BY DEF Change
  <2> QED BY <1>1, <1>2, <2>1 DEF AskersOK
<1>4. QoderTypeOK'
  BY <1>0, <1>1, <1>3 DEF QoderTypeOK, AskerType
<1> QED BY <1>0, <1>1, <1>3, <1>4 DEF QoderInv

LEMMA RestartKeeps ==
    ASSUME QoderInv, QoderRestart PROVE QoderInv'
<1>0. QoderTypeOK /\ changes \in Nat
  BY QoderAssumption DEF QoderInv, QoderTypeOK, QoderAssumption
<1>1. /\ served' = NoCatalog /\ cooling' = NoLogin /\ fetchFor' = NoLogin
      /\ fetchForced' = FALSE /\ forceAgain' = FALSE /\ heard' = {}
      /\ asker' = [a \in Askers |-> At("idle")] /\ forcer' = [f \in Forcers |-> "idle"]
      /\ UNCHANGED <<cliLogin, desktopLogin, onDemand, saved, changes>> /\ Load' = Load /\ Running' = FALSE
  BY DEF QoderRestart, logins, Load, Running
<1>2. asker' \in [Askers -> AskerType] /\ AskersOK(asker', Load, changes)
  BY <1>0, <1>1, AtRests DEF AskersOK
<1>3. HeardOK(forcer', heard', FALSE, FALSE)
  BY <1>1 DEF HeardOK
<1>4. QoderTypeOK'
  BY <1>0, <1>1, <1>2 DEF QoderTypeOK, AskerType, Catalogs
<1> QED BY <1>1, <1>2, <1>3, <1>4 DEF QoderInv

LEMMA QoderInvInit == QoderInit => QoderInv
<1> SUFFICES ASSUME QoderInit PROVE QoderInv
  OBVIOUS
<1>1. asker \in [Askers -> AskerType] /\ AskersOK(asker, Load, changes) /\ 0 \in 0..MaxChanges
  BY AtRests, QoderAssumption DEF QoderInit, AskersOK, QoderAssumption
<1>2. served \in Catalogs /\ saved \in Catalogs
  BY DEF QoderInit, Catalogs
<1>3. QoderTypeOK
  BY <1>1, <1>2 DEF QoderInit, QoderTypeOK, AskerType
<1> QED BY <1>1, <1>3 DEF QoderInit, QoderInv, HeardOK, Running

LEMMA QoderInvStep == QoderInv /\ [QoderNext]_qoderVars => QoderInv'
<1> SUFFICES ASSUME QoderInv, [QoderNext]_qoderVars PROVE QoderInv'
  OBVIOUS
<1>1. CASE UNCHANGED qoderVars
  BY <1>1 DEF qoderVars, logins, roundVars, QoderInv, QoderTypeOK, Running, Load
<1> QED BY <1>1, AskKeeps, DemandKeeps, FetchKeeps, ReloadKeeps, ListKeeps, ChangeKeeps, RestartKeeps DEF QoderNext

(* A request goes out only with a model of its own account, and a refresh  *)
(* that was demanded saw a forced fetch before it reports success, however *)
(* logins change, requests share a round, and rounds fail (refreshOnce,    *)
(* refresh and the second reading of the login in index.ts).               *)
THEOREM QoderServesOwn == QoderSpec => []QoderServes
<1>1. QoderInv => QoderServes
  BY DEF QoderInv, QoderServes, QoderListIsOwn, QoderForceIsServed, HeardOK, AskersOK, AskerOK
<1> QED BY <1>1, QoderInvInit, QoderInvStep, PTL DEF QoderSpec

(* What the catalog, the files and the callers hold. *)
THEOREM QoderTypes == QoderSpec => []QoderTypeOK
<1>1. QoderInv => QoderTypeOK
  BY DEF QoderInv
<1> QED BY <1>1, QoderInvInit, QoderInvStep, PTL DEF QoderSpec
=============================================================================
