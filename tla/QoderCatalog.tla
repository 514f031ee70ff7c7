---------------------------- MODULE QoderCatalog ----------------------------
(***************************************************************************)
(* Logins, model catalog and requests of one region of the Qoder plugin    *)
(* (packages/qoder/src: credentials.ts, catalog.ts, index.ts).  The login  *)
(* is read anew from the files of the command line program or the desktop  *)
(* program each time; those programs change them at any moment.  The       *)
(* catalog of the last account that was asked is in memory and in one file *)
(* of the region.  One round of fetches runs at a time.  What the code     *)
(* does between two awaits of the network is one step, except where it     *)
(* reads the login a second time.                                          *)
(***************************************************************************)
EXTENDS Naturals, FiniteSets

CONSTANTS
    CliIds,         \* identities of the logins of the command line program
    DesktopIds,     \* and of the desktop program, which is part of its identities
    Askers,         \* requests with a model
    Forcers,        \* whoever refreshes: a command, the timer, the start of the plugin
    MaxChanges,     \* bound on changes of the login files
    NoLogin, BadLogin, NoCatalog

Ids == CliIds \union DesktopIds

QoderAssumption ==
    /\ CliIds \intersect DesktopIds = {}
    /\ {NoLogin, BadLogin} \intersect Ids = {} /\ NoLogin # BadLogin
    /\ \A id \in Ids, b \in BOOLEAN : NoCatalog # [of |-> id, fresh |-> b]
    /\ MaxChanges \in Nat

ASSUME QoderAssumption

VARIABLES
    cliLogin, desktopLogin, \* what the files of either program hold
    onDemand,       \* catalogMode: are catalogs refreshed on demand only?
    served,         \* cached: the catalog in memory
    saved,          \* the file
    cooling,        \* retry: the login a fetch has failed for, until its time is up
    fetchFor,       \* the login of the fetch in progress
    fetchForced,    \* forced
    forceAgain,     \* pendingForce
    asker,          \* the requests
    forcer,         \* the refreshers; one whose refresh failed is idle again
    heard,          \* history: forcers who saw a forced fetch since they asked
    changes

logins    == <<cliLogin, desktopLogin>>
roundVars == <<served, cooling, fetchFor, fetchForced, forceAgain>>
qoderVars == <<logins, onDemand, saved, roundVars, asker, forcer, heard, changes>>

CliFiles     == CliIds \union {NoLogin, BadLogin}
DesktopFiles == DesktopIds \union {NoLogin, BadLogin}
LoginFiles   == CliFiles \union DesktopFiles
Catalogs   == {NoCatalog} \union [of : Ids, fresh : BOOLEAN]
Stages     == {"idle", "waiting", "ready", "listed", "sent", "over"}

At(stage) == [stage |-> stage, login |-> NoLogin, list |-> NoLogin, changed |-> 0]

QoderTypeOK ==
    /\ cliLogin \in CliFiles /\ desktopLogin \in DesktopFiles /\ onDemand \in BOOLEAN
    /\ {served, saved} \subseteq Catalogs
    /\ {cooling, fetchFor} \subseteq Ids \union {NoLogin} /\ {fetchForced, forceAgain} \subseteq BOOLEAN
    /\ asker \in [Askers -> [stage : Stages, login : LoginFiles, list : LoginFiles, changed : 0..MaxChanges]]
    /\ forcer \in [Forcers -> {"idle", "waiting", "ready", "done"}]
    /\ heard \subseteq Forcers /\ changes \in 0..MaxChanges

(* loadQoderCredentials: the desktop's login counts if the other is        *)
(* missing, not if it is broken or has expired.                            *)
Load == IF cliLogin # NoLogin THEN cliLogin ELSE desktopLogin

Owned(catalog, id) == IF catalog # NoCatalog /\ catalog.of = id THEN catalog ELSE NoCatalog

QoderInit ==
    /\ cliLogin \in CliFiles /\ desktopLogin \in DesktopFiles
    /\ onDemand \in BOOLEAN /\ served = NoCatalog /\ saved \in {NoCatalog} \union [of : Ids, fresh : {FALSE}]
    /\ cooling = NoLogin /\ fetchFor = NoLogin /\ fetchForced = FALSE /\ forceAgain = FALSE
    /\ asker = [a \in Askers |-> At("idle")] /\ forcer = [f \in Forcers |-> "idle"]
    /\ heard = {} /\ changes = 0
-----------------------------------------------------------------------------
(* One turn of the round, refreshOnce until it fetches: what it leaves in  *)
(* memory, the login it fetches for if it does, and whether it threw.      *)
Turn(force, memory, file, cool) ==
    LET own  == IF Owned(memory, Load) # NoCatalog THEN memory ELSE Owned(file, Load)
        wait == IF cool = Load THEN cool ELSE NoLogin
        held == ~force /\ (wait = Load \/ (own # NoCatalog /\ own.fresh))
    IN CASE Load = BadLogin -> [memory |-> memory, cool |-> cool, fetch |-> NoLogin, ok |-> FALSE]
         [] Load = NoLogin  -> [memory |-> NoCatalog, cool |-> NoLogin, fetch |-> NoLogin, ok |-> TRUE]
         [] OTHER          -> [memory |-> own, cool |-> wait, fetch |-> IF held THEN NoLogin ELSE Load, ok |-> TRUE]

Adopt(turn, force) ==
    /\ served' = turn.memory /\ cooling' = turn.cool /\ fetchFor' = turn.fetch
    /\ fetchForced' = (force /\ turn.fetch # NoLogin) /\ forceAgain' = FALSE

Running == fetchFor # NoLogin

(* The promise of the round settles for all who wait for it. *)
Released(ok) ==
    /\ asker' = [a \in Askers |-> IF asker[a].stage # "waiting" THEN asker[a]
                                   ELSE IF ok THEN [asker[a] EXCEPT !.stage = "ready"] ELSE At("over")]
    /\ forcer' = [f \in Forcers |-> IF forcer[f] = "waiting" THEN IF ok THEN "ready" ELSE "idle" ELSE forcer[f]]

Move(a, record) == asker' = [asker EXCEPT ![a] = record]

(* A request: its login, and the catalog, refreshed if it is not manual. *)
Ask(a) ==
    /\ asker[a].stage = "idle"
    /\ LET step(stage) == Move(a, [stage |-> stage, login |-> Load, list |-> NoLogin, changed |-> 0])
           turn == Turn(FALSE, served, saved, cooling) IN
       CASE Load \notin Ids -> Move(a, At("over")) /\ UNCHANGED roundVars
         [] Load \in Ids /\ Running -> step("waiting") /\ UNCHANGED roundVars
         [] Load \in Ids /\ ~Running /\ onDemand -> step("ready") /\ UNCHANGED roundVars
         [] OTHER -> Adopt(turn, FALSE) /\ step(IF turn.fetch = NoLogin THEN "ready" ELSE "waiting")
    /\ UNCHANGED <<logins, onDemand, saved, forcer, heard, changes>>

(* refresh(true): it joins a round, which goes on for it if it is not forced. *)
Demand(f) ==
    /\ forcer[f] \notin {"waiting", "ready"}
    /\ IF Running
       THEN /\ forceAgain' = (forceAgain \/ ~fetchForced)
            /\ heard' = IF fetchForced THEN heard \union {f} ELSE heard \ {f}
            /\ forcer' = [forcer EXCEPT ![f] = "waiting"]
            /\ UNCHANGED <<served, cooling, fetchFor, fetchForced>>
       ELSE LET turn == Turn(TRUE, served, saved, cooling) IN
            /\ Adopt(turn, TRUE) /\ heard' = heard \union {f}
            /\ forcer' = [forcer EXCEPT ![f] = IF turn.fetch # NoLogin THEN "waiting"
                                               ELSE IF turn.ok THEN "ready" ELSE "idle"]
    /\ UNCHANGED <<logins, onDemand, saved, asker, changes>>

(* Variant: who has forced a refresh meanwhile is not thought of. *)
GoOnForgetful(memory, file, cool) ==
    /\ served' = memory /\ cooling' = cool /\ fetchFor' = NoLogin
    /\ fetchForced' = FALSE /\ forceAgain' = FALSE /\ UNCHANGED heard
    /\ Released(TRUE)

(* A fetch is over and not in vain: another one is due if somebody forced  *)
(* it meanwhile.                                                           *)
GoOn(memory, file, cool) ==
    IF forceAgain
    THEN LET turn == Turn(TRUE, memory, file, cool) IN
         /\ Adopt(turn, TRUE)
         /\ heard' = heard \union {f \in Forcers : forcer[f] = "waiting"}
         /\ IF turn.fetch = NoLogin THEN Released(turn.ok) ELSE UNCHANGED <<asker, forcer>>
    ELSE /\ served' = memory /\ cooling' = cool /\ fetchFor' = NoLogin
         /\ fetchForced' = FALSE /\ forceAgain' = FALSE /\ UNCHANGED heard
         /\ Released(TRUE)

(* The catalog goes to memory, and to the file if that can be written. *)
Fetched ==
    /\ Running
    /\ LET new == [of |-> fetchFor, fresh |-> TRUE] IN
       \E file \in {new, saved} : saved' = file /\ GoOn(new, file, NoLogin)
    /\ UNCHANGED <<logins, onDemand, changes>>

(* A forced refresh fails aloud if there is nothing in memory. *)
FetchFailed ==
    /\ Running
    /\ IF fetchForced /\ served = NoCatalog
       THEN /\ cooling' = fetchFor /\ fetchFor' = NoLogin /\ fetchForced' = FALSE /\ forceAgain' = FALSE
            /\ Released(FALSE) /\ UNCHANGED <<served, heard>>
       ELSE GoOn(served, saved, fetchFor)
    /\ UNCHANGED <<logins, onDemand, saved, changes>>

(* refresh: has the login changed during the update? *)
Confirm(f) ==
    /\ forcer[f] = "ready"
    /\ forcer' = [forcer EXCEPT ![f] = IF Load = NoLogin \/ (Load \in Ids /\ Owned(served, Load) # NoCatalog)
                                        THEN "done" ELSE "idle"]
    /\ UNCHANGED <<logins, onDemand, saved, roundVars, asker, heard, changes>>

(* reload: the file replaces the catalog in memory.  It waits for the round. *)
QoderReload ==
    /\ ~Running /\ Load # BadLogin
    /\ served' = Owned(saved, Load) /\ cooling' = NoLogin
    /\ UNCHANGED <<logins, onDemand, saved, fetchFor, fetchForced, forceAgain, asker, forcer, heard, changes>>

(* The request takes the catalog of the login as it is now, from memory or *)
(* from the file, and looks for its model in it.                           *)
List(a) ==
    /\ asker[a].stage = "ready"
    /\ LET own == IF Owned(served, Load) # NoCatalog THEN served ELSE Owned(saved, Load) IN
       /\ served' = IF Load \in Ids THEN own ELSE served
       /\ \/ Load \in Ids /\ own # NoCatalog /\ Move(a, [asker[a] EXCEPT !.stage = "listed", !.list = own.of])
          \/ Move(a, At("over"))
    /\ UNCHANGED <<logins, onDemand, saved, cooling, fetchFor, fetchForced, forceAgain, forcer, heard, changes>>

(* Variant: the login is not compared with the first one. *)
SendUnchecked(a) ==
    /\ asker[a].stage = "listed"
    /\ Move(a, IF Load \in Ids THEN [asker[a] EXCEPT !.stage = "sent", !.login = Load]
               ELSE At("over"))
    /\ UNCHANGED <<logins, onDemand, saved, roundVars, forcer, heard, changes>>

(* The login is read once more; it must be the one the request began with. *)
Send(a) ==
    /\ asker[a].stage = "listed"
    /\ Move(a, IF Load = asker[a].login THEN [asker[a] EXCEPT !.stage = "sent"] ELSE At("over"))
    /\ UNCHANGED <<logins, onDemand, saved, roundVars, forcer, heard, changes>>

-----------------------------------------------------------------------------
(* Somebody signs in or out, or a login expires. *)
Change(cli, desktop) ==
    /\ changes < MaxChanges /\ (cli = cliLogin) # (desktop = desktopLogin)
    /\ cliLogin' = cli /\ desktopLogin' = desktop /\ changes' = changes + 1
    /\ asker' = [a \in Askers |-> IF asker[a].stage \in {"waiting", "ready", "listed"}
                                   THEN [asker[a] EXCEPT !.changed = @ + 1] ELSE asker[a]]
    /\ UNCHANGED <<onDemand, saved, roundVars, forcer, heard>>

Stale(catalog) == IF catalog = NoCatalog THEN catalog ELSE [catalog EXCEPT !.fresh = FALSE]

(* Time passes: catalogs grow old, and a fetch that failed may be tried again. *)
Age ==
    /\ served' = Stale(served) /\ saved' = Stale(saved) /\ cooling' \in {cooling, NoLogin}
    /\ UNCHANGED <<logins, onDemand, fetchFor, fetchForced, forceAgain, asker, forcer, heard, changes>>

(* The gateway starts again, and may refresh the catalog at once. *)
QoderRestart ==
    /\ served' = NoCatalog /\ cooling' = NoLogin /\ fetchFor' = NoLogin
    /\ fetchForced' = FALSE /\ forceAgain' = FALSE /\ heard' = {}
    /\ asker' = [a \in Askers |-> At("idle")] /\ forcer' = [f \in Forcers |-> "idle"]
    /\ UNCHANGED <<logins, onDemand, saved, changes>>

QoderNext ==
    \/ \E a \in Askers : Ask(a) \/ List(a) \/ Send(a)
    \/ \E f \in Forcers : Demand(f) \/ Confirm(f)
    \/ Fetched \/ FetchFailed \/ QoderReload \/ Age \/ QoderRestart
    \/ \E cli \in CliFiles, desktop \in DesktopFiles : Change(cli, desktop)

QoderSpec == QoderInit /\ [][QoderNext]_qoderVars
-----------------------------------------------------------------------------
(* A request goes out only with a model of the account it goes out with,   *)
(* whatever happens to the logins in between (index.ts:240); only a login  *)
(* that changes and changes back meanwhile can mislead it.                 *)
QoderListIsOwn ==
    \A a \in Askers :
        asker[a].stage = "sent" /\ asker[a].changed < 2 => asker[a].list = asker[a].login

(* A refresh that was demanded and reports success has seen a forced fetch *)
(* begin after it was demanded, or joined one: it never returns with the   *)
(* answer of a fetch that may have spared the provider.                    *)
QoderForceIsServed == \A f \in Forcers : forcer[f] = "done" => f \in heard

(* A list that is used is one's own, and a refresh that was forced took     *)
(* place.                                                                   *)
QoderServes == QoderListIsOwn /\ QoderForceIsServed
=============================================================================
