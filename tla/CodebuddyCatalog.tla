-------------------------- MODULE CodebuddyCatalog --------------------------
(***************************************************************************)
(* Model catalogs of the CodeBuddy plugin (packages/codebuddy/src/         *)
(* catalog.ts, createCodebuddyCatalogStore, and its use in index.ts).  A   *)
(* family is a product in a region; the login it is asked with may change  *)
(* at any time.  A catalog that was fetched is kept in memory and in a     *)
(* file per product; one round of fetches runs at a time, and who asks     *)
(* during a round joins it.  What the code does between two awaits of the  *)
(* network is one step.                                                    *)
(***************************************************************************)
EXTENDS Integers, FiniteSets

CONSTANTS
    Families,       \* numbered in the order in which they are asked
    ProductOf,      \* the file each family is kept in
    Keys,           \* fingerprints of accounts
    Accounts,       \* those each family may be asked with, NoKey for none
    Callers,
    Calls,          \* the kinds of calls they make
    Startup,        \* the caller that refreshes when the plugin is created
    Ttl, Cooldown,
    MaxTime,        \* bound on the clock
    MaxSwitches,    \* bound on changes of account
    NoKey, NoEntry

CatalogAssumption ==
    /\ Families \subseteq Nat /\ IsFiniteSet(Families) /\ DOMAIN ProductOf = Families
    /\ Startup \in Callers /\ Calls \subseteq {"catalog", "refresh", "reload", "timer"}
    /\ NoKey \notin Keys
    /\ Accounts \in [Families -> SUBSET (Keys \union {NoKey})]
    /\ \A f \in Families : Accounts[f] # {}
    /\ {Ttl, Cooldown, MaxTime, MaxSwitches} \subseteq Nat
    /\ \A k \in Keys, t \in 0..MaxTime : NoEntry # [key |-> k, of |-> k, at |-> t]

ASSUME CatalogAssumption

VARIABLES
    account,        \* the account a family would be asked with now
    manual,         \* catalogMode: are catalogs refreshed on demand only?
    cached, disk,   \* per family, the catalog in memory and in the file
    retryAt,
    clock,
    round,          \* the round in progress: on, force, what is left to fetch
    pending,        \* pendingForce: has a forced request come too late for it?
    callers,
    newest,         \* history: the account whose catalog is the last good one
    forcedSince,    \* history: who has seen a forced iteration end since asking
    switches

catalogVars == <<account, manual, cached, disk, retryAt, clock, round, pending,
                 callers, newest, forcedSince, switches>>

Kinds   == {"catalog", "refresh", "reload", "timer", "startup", "again"}
Asking  == {"asking", "waiting", "released"}
Phases  == Asking \union {"idle"}
Entries == [key : Keys, of : Keys, at : 0..MaxTime]
Targets == [family : Families, key : Keys]

Uncalled  == [phase |-> "idle", kind |-> "catalog"]
Quiet == [on |-> FALSE, force |-> FALSE, todo |-> {}]

(* families: those with a login. *)
Available == {f \in Families : account[f] # NoKey}

OnDisk(f, key) == disk[f] # NoEntry /\ disk[f].key = key
InMemory(f, key) == cached[f] # NoEntry /\ cached[f].key = key

-----------------------------------------------------------------------------
CatalogInit ==
    /\ account \in [Families -> Keys \union {NoKey}] /\ (\A f \in Families : account[f] \in Accounts[f])
    /\ manual \in BOOLEAN
    /\ cached = [f \in Families |-> NoEntry] /\ disk = cached
    /\ retryAt = [f \in Families |-> 0] /\ clock = 0
    /\ round = Quiet /\ pending = FALSE
    /\ callers = [c \in Callers |-> Uncalled]
    /\ newest = [f \in Families |-> NoKey]
    /\ forcedSince = {} /\ switches = 0

OnFile(f) == IF disk[f] = NoEntry THEN NoKey ELSE disk[f].key

(* A catalog on file is safe unless memory holds another account's: the    *)
(* next write of the file puts that in its place.                          *)
Kept(f) == IF InMemory(f, OnFile(f)) \/ cached[f] = NoEntry THEN OnFile(f) ELSE NoKey

(* Another account is chosen, or a login appears or is lost. *)
Switch(f, key) ==
    /\ switches < MaxSwitches /\ key # account[f]
    /\ account' = [account EXCEPT ![f] = key] /\ switches' = switches + 1
    /\ newest' = [newest EXCEPT ![f] = Kept(f)]
    /\ UNCHANGED <<manual, cached, disk, retryAt, clock, round, pending, callers,
                   forcedSince>>

CatalogTick ==
    /\ clock < MaxTime /\ clock' = clock + 1
    /\ UNCHANGED <<account, manual, cached, disk, retryAt, round, pending, callers,
                   newest, forcedSince, switches>>

(* The gateway starts again: memory is lost, and the plugin refreshes.     *)
Restart ==
    /\ cached' = [f \in Families |-> NoEntry] /\ retryAt' = [f \in Families |-> 0]
    /\ round' = Quiet /\ pending' = FALSE /\ manual' \in BOOLEAN
    /\ callers' = [c \in Callers |-> IF c = Startup THEN [phase |-> "asking", kind |-> "startup"] ELSE Uncalled]
    /\ newest' = [f \in Families |-> OnFile(f)]
    /\ forcedSince' = {}
    /\ UNCHANGED <<account, disk, clock, switches>>

-----------------------------------------------------------------------------
(* Calls.                                                                  *)

(* A consumer asks for the catalog, a command refreshes or reloads it, the *)
(* timer of 16 minutes refreshes it.                                       *)
Call(c, kind) ==
    /\ callers[c].phase \notin Asking
    /\ (kind = "timer" => ~manual)
    /\ callers' = [callers EXCEPT ![c] =
                     [phase |-> IF kind = "reload" THEN "released" ELSE "asking", kind |-> kind]]
    /\ forcedSince' = forcedSince \ {c}
    /\ UNCHANGED <<account, manual, cached, disk, retryAt, clock, round, pending, newest, switches>>

Forced(c) == callers[c].kind \in {"refresh", "timer", "startup"}

(* catalog() waits for the refresh at the start. *)
MayAsk(c) ==
    /\ callers[c].phase = "asking"
    /\ callers[c].kind = "catalog" =>
          callers[Startup].kind # "startup"

Advanced(c, phase) == [callers EXCEPT ![c].phase = phase]

(* Without a timer, catalog() asks no one. *)
PassOn(c) ==
    /\ MayAsk(c) /\ manual /\ ~Forced(c)
    /\ callers' = Advanced(c, "released")
    /\ UNCHANGED <<account, manual, cached, disk, retryAt, clock, round, pending,
                   newest, forcedSince, switches>>

(* Variant: a forced request is taken to be served by any round. *)
JoinForgotten(c) ==
    /\ MayAsk(c) /\ (Forced(c) \/ ~manual) /\ round.on
    /\ callers' = Advanced(c, "waiting") /\ UNCHANGED pending
    /\ UNCHANGED <<account, manual, cached, disk, retryAt, clock, round,
                   newest, forcedSince, switches>>

(* During a round, refresh joins it; one more is due if force came late. *)
Join(c) ==
    /\ MayAsk(c) /\ (Forced(c) \/ ~manual) /\ round.on
    /\ callers' = Advanced(c, "waiting") /\ pending' = (pending \/ (Forced(c) /\ ~round.force))
    /\ UNCHANGED <<account, manual, cached, disk, retryAt, clock, round,
                   newest, forcedSince, switches>>

-----------------------------------------------------------------------------
(* A round.                                                                *)

(* refreshOnce: what is not in memory is looked for on disk first. *)
Looked == [f \in Families |->
             IF f \in Available /\ cached[f] = NoEntry /\ OnDisk(f, account[f]) THEN disk[f] ELSE cached[f]]

Fresh(entry) == clock - entry.at < Ttl

Due(f, force) ==
    LET current == Looked[f] IN
    /\ force \/ retryAt[f] <= clock
    /\ force \/ current = NoEntry \/ current.key # account[f] \/ ~Fresh(current)

ToFetch(force) == {[family |-> f, key |-> account[f]] : f \in {g \in Available : Due(g, force)}}

(* refresh: without a round, one begins; it is over at once if nothing is due. *)
Start(c) ==
    /\ MayAsk(c) /\ (Forced(c) \/ ~manual) /\ ~round.on
    /\ cached' = Looked
    /\ LET todo == ToFetch(Forced(c)) IN
       /\ round' = IF todo = {} THEN Quiet ELSE [on |-> TRUE, force |-> Forced(c), todo |-> todo]
       /\ callers' = Advanced(c, IF todo = {} THEN "released" ELSE "waiting")
       /\ forcedSince' = IF todo = {} /\ Forced(c) THEN forcedSince \union {c} ELSE forcedSince
    /\ pending' = FALSE
    /\ UNCHANGED <<account, manual, disk, retryAt, clock, newest, switches>>

(* The family whose answer is awaited: they are asked one after another. *)
First(t) == round.on /\ t \in round.todo /\ \A u \in round.todo : t.family <= u.family

(* Variant: the catalog is stored under the account of the moment. *)
FetchOkLate(t, written) ==
    /\ First(t)
    /\ LET f == t.family
           key == IF account[f] = NoKey THEN t.key ELSE account[f]
           entry == [key |-> key, of |-> t.key, at |-> clock] IN
       /\ cached' = [cached EXCEPT ![f] = entry]
       /\ disk' = IF ~written THEN disk
                  ELSE [g \in Families |->
                          IF ProductOf[g] = ProductOf[f] /\ cached'[g] # NoEntry THEN cached'[g] ELSE disk[g]]
       /\ retryAt' = [retryAt EXCEPT ![f] = 0]
       /\ newest' = [newest EXCEPT ![f] = key]
    /\ round' = [round EXCEPT !.todo = @ \ {t}]
    /\ UNCHANGED <<account, manual, clock, pending, callers, forcedSince, switches>>

(* The family's answer has come: it is kept in memory and, if the file can *)
(* be written, on disk together with what memory holds of the same file.   *)
FetchOk(t, written) ==
    /\ First(t)
    /\ LET f == t.family
           entry == [key |-> t.key, of |-> t.key, at |-> clock] IN
       /\ cached' = [cached EXCEPT ![f] = entry]
       /\ disk' = IF ~written THEN disk
                  ELSE [g \in Families |->
                          IF ProductOf[g] = ProductOf[f] /\ cached'[g] # NoEntry THEN cached'[g] ELSE disk[g]]
       /\ retryAt' = [retryAt EXCEPT ![f] = 0]
       /\ newest' = [newest EXCEPT ![f] = t.key]
    /\ round' = [round EXCEPT !.todo = @ \ {t}]
    /\ UNCHANGED <<account, manual, clock, pending, callers, forcedSince, switches>>

(* Variant: what could not be read from the file is dropped. *)
FetchFailsHard(t) ==
    /\ First(t)
    /\ LET f == t.family IN
       /\ retryAt' = [retryAt EXCEPT ![f] = clock + Cooldown]
       /\ cached' = [cached EXCEPT ![f] = IF OnDisk(f, t.key) THEN disk[f] ELSE NoEntry]
    /\ round' = [round EXCEPT !.todo = @ \ {t}]
    /\ UNCHANGED <<account, manual, disk, clock, pending, callers, newest,
                   forcedSince, switches>>

(* The family could not be fetched: it is left alone for a while, and the  *)
(* last good catalog is used, the file's before memory's.                  *)
FetchFails(t) ==
    /\ First(t)
    /\ LET f == t.family IN
       /\ retryAt' = [retryAt EXCEPT ![f] = clock + Cooldown]
       /\ cached' = [cached EXCEPT ![f] = IF OnDisk(f, t.key) THEN disk[f] ELSE cached[f]]
    /\ round' = [round EXCEPT !.todo = @ \ {t}]
    /\ UNCHANGED <<account, manual, disk, clock, pending, callers, newest,
                   forcedSince, switches>>

Waiting == {c \in Callers : callers[c].phase = "waiting"}

(* Variant: the iteration that was asked for stays due. *)
EndRoundStillDue ==
    /\ round.on /\ round.todo = {}
    /\ cached' = IF pending THEN Looked ELSE cached
    /\ forcedSince' = IF round.force \/ (pending /\ Available = {})
                      THEN forcedSince \union {c \in Waiting : Forced(c)} ELSE forcedSince
    /\ UNCHANGED pending
    /\ IF pending /\ Available # {}
       THEN round' = [on |-> TRUE, force |-> TRUE, todo |-> ToFetch(TRUE)] /\ UNCHANGED callers
       ELSE /\ round' = Quiet
            /\ callers' = [c \in Callers |-> IF c \in Waiting THEN [callers[c] EXCEPT !.phase = "released"]
                                             ELSE callers[c]]
    /\ UNCHANGED <<account, manual, disk, retryAt, clock, newest, switches>>

(* The families are through: another forced iteration, or the callers go on. *)
EndRound ==
    /\ round.on /\ round.todo = {}
    /\ cached' = IF pending THEN Looked ELSE cached
    /\ forcedSince' = IF round.force \/ (pending /\ Available = {})
                      THEN forcedSince \union {c \in Waiting : Forced(c)} ELSE forcedSince
    /\ pending' = FALSE
    /\ IF pending /\ Available # {}
       THEN round' = [on |-> TRUE, force |-> TRUE, todo |-> ToFetch(TRUE)] /\ UNCHANGED callers
       ELSE /\ round' = Quiet
            /\ callers' = [c \in Callers |-> IF c \in Waiting THEN [callers[c] EXCEPT !.phase = "released"]
                                             ELSE callers[c]]
    /\ UNCHANGED <<account, manual, disk, retryAt, clock, newest, switches>>

(* currentCatalog: the file is read again if asked for or if memory holds  *)
(* another account's catalog, which is then dropped.                       *)
Reread(reload) ==
    [f \in Families |->
       IF f \notin Available \/ (~reload /\ InMemory(f, account[f])) THEN cached[f]
       ELSE IF OnDisk(f, account[f]) THEN disk[f]
       ELSE IF InMemory(f, account[f]) THEN cached[f] ELSE NoEntry]

Served(memory) == {f \in Available : memory[f] # NoEntry /\ memory[f].key = account[f]}

(* The caller is given what is served.  refreshCatalog fails if there is   *)
(* nothing, and asks again if there is something.                          *)
Deliver(c) ==
    /\ callers[c].phase = "released"
    /\ cached' = Reread(callers[c].kind = "reload")
    /\ callers' = [callers EXCEPT ![c] =
                     IF callers[c].kind = "refresh" /\ (Available = {} \/ Served(cached') # {})
                     THEN [phase |-> "asking", kind |-> "again"] ELSE Uncalled]
    /\ forcedSince' = forcedSince \ {c}
    /\ UNCHANGED <<account, manual, disk, retryAt, clock, round, pending, newest, switches>>

CatalogNext ==
    \/ \E f \in Families : \E key \in Accounts[f] : Switch(f, key)
    \/ CatalogTick \/ Restart \/ EndRound
    \/ \E t \in round.todo : FetchFails(t) \/ \E written \in BOOLEAN : FetchOk(t, written)
    \/ \E c \in Callers :
          \/ \E kind \in Calls : Call(c, kind)
          \/ PassOn(c) \/ Join(c) \/ Start(c) \/ Deliver(c)

(* The network ends every fetch with an answer or an error, and the event  *)
(* loop comes to every continuation.                                       *)
CatalogFairness ==
    /\ WF_catalogVars(\/ EndRound
                      \/ \E t \in round.todo : FetchFails(t) \/ \E written \in BOOLEAN : FetchOk(t, written))
    /\ \A c \in Callers : WF_catalogVars(PassOn(c) \/ Join(c) \/ Start(c) \/ Deliver(c))

CatalogSpec == CatalogInit /\ [][CatalogNext]_catalogVars /\ CatalogFairness

-----------------------------------------------------------------------------
(* Properties.                                                             *)

(* Types, and: who waits, waits for a round; nothing is due outside one.   *)
CatalogTypeOK ==
    /\ account \in [Families -> Keys \union {NoKey}] /\ manual \in BOOLEAN
    /\ {cached, disk} \subseteq [Families -> Entries \union {NoEntry}]
    /\ retryAt \in [Families -> 0..(MaxTime + Cooldown)] /\ clock \in 0..MaxTime
    /\ round \in [on : BOOLEAN, force : BOOLEAN, todo : SUBSET Targets] /\ pending \in BOOLEAN
    /\ ~round.on => round.todo = {} /\ ~pending /\ Waiting = {}
    /\ pending => ~round.force
    /\ callers \in [Callers -> [phase : Phases, kind : Kinds]]
    /\ newest \in [Families -> Keys \union {NoKey}] /\ forcedSince \subseteq Callers
    /\ switches \in 0..MaxSwitches

(* Nobody is given a catalog that was fetched with another account than    *)
(* the one in use when it is given, though the account may change while a  *)
(* fetch is on its way (catalog.ts 526-547 and 591-609).                   *)
OwnCatalog ==
    [][\A c \in Callers :
         (callers[c].phase = "released" /\ callers'[c].phase # "released") =>
            \A f \in Served(cached') : cached'[f].of = account[f]]_catalogVars

(* Once fetched, the catalog of an account is served until another one's   *)
(* takes its place: failures, cooldown, a file that cannot be written, the *)
(* other family of the file and reloads do not lose it.  What is on file   *)
(* survives a restart, and a change of account and back unless memory has  *)
(* another account's by then (catalog.ts 461-493, 526-547 and 591-609).    *)
LastGoodServed ==
    \A f \in Available : newest[f] = account[f] => f \in Served(Reread(FALSE)) \cap Served(Reread(TRUE))

(* A forced refresh does not pass for done on the strength of fetches that *)
(* were not forced: when its caller goes on, a forced iteration has ended  *)
(* since it asked (catalog.ts 567-588).                                    *)
ForcedIsServed ==
    \A c \in Callers : (Forced(c) /\ callers[c].phase = "released") => c \in forcedSince

(* Every call comes to an end, however many others come meanwhile, unless  *)
(* the gateway starts again and again (catalog.ts 567-588).                *)
CallersReturn ==
    \A c \in Callers : []<>(callers[c].phase \notin Asking) \/ []<><<Restart>>_catalogVars
=============================================================================
