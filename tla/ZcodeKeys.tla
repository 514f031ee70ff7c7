----------------------------- MODULE ZcodeKeys -----------------------------
(***************************************************************************)
(* The key of one ZCode plan, as packages/zcode/src/config.ts keeps it: a  *)
(* cache over the files of the ZCode application (setting.json,            *)
(* credentials.json, config.json or provider_config.json), which that      *)
(* application rewrites one by one while the gateway runs.                 *)
(*                                                                         *)
(* A write is seen in two steps, the watch event (markDirty) and the check *)
(* its timer starts; the key of a team plan, and of an individual plan     *)
(* whose key is not on disk, is fetched from the service by a promise that *)
(* either may overtake.  A key is [family, login, old]; the key that came   *)
(* from the service is kept with the login whose fingerprint it bears.      *)
(***************************************************************************)
EXTENDS Naturals, FiniteSets

CONSTANTS Families,     \* the channels, zai and bigmodel
          Logins,       \* the accounts
          Landed,       \* accounts whose individual key is in credentials.json
          KeyClients,   \* callers of get and refresh
          MaxWrites,    \* bound: writes of the ZCode application
          Nobody        \* no family, login or key

ASSUME KeyAssumption == /\ Landed \subseteq Logins
                        /\ Nobody \notin Families \cup Logins
                        /\ MaxWrites \in Nat

VARIABLES keyPlan,      \* the plan this cache serves
          keyWorld,     \* the files: [setting, login, mirror, route]
          keyEvents,    \* files with a watch event under way
          keyWrites,    \* writes so far
          cache,        \* the closure's variables, and the promise under way
          keyCaller     \* what each caller waits for

keyVars == <<keyPlan, keyWorld, keyEvents, keyWrites, cache, keyCaller>>

Files == {"setting", "credentials", "config"}
KeyPlans == {"individual", "team", "start", "api"}
NoKey == [family |-> Nobody, login |-> Nobody, old |-> FALSE]
NoMint == [family |-> Nobody, login |-> Nobody]
KeyOf(f, l) == [family |-> f, login |-> l, old |-> FALSE]

Fresh0 == [dirty |-> Files, picked |-> Nobody, route |-> "none",
           mirror |-> Nobody, seen |-> Nobody, mode |-> FALSE,
           credential |-> NoKey, minted |-> NoKey, bears |-> Nobody, snapshot |-> NoKey,
           failed |-> FALSE, resolving |-> NoMint, orphan |-> FALSE,
           force |-> FALSE, checked |-> FALSE, begun |-> FALSE, closed |-> FALSE,
           blind |-> FALSE]   \* (history) an event without a name met the last promise

KeyInit == /\ keyPlan \in KeyPlans
           /\ keyWorld \in [setting : Families, login : Logins \cup {Nobody},
                            mirror : Logins, route : {TRUE}]
           /\ keyEvents = {}
           /\ keyWrites = 0
           /\ cache = Fresh0
           /\ keyCaller = [c \in KeyClients |-> "idle"]

---------------------------------------------------------------------------
(* Reading the files.                                                      *)

\* readSelection of this plan: the current channel when the plan is
\* connected there; the start plan stands without a login.
Selection(w) ==
    IF \/ w.setting = Nobody
       \/ keyPlan \in {"individual", "team"} /\ w.login = Nobody
       \/ keyPlan = "api" /\ ~w.route
    THEN Nobody ELSE w.setting

\* A promise that is set aside while it runs keeps running.
Orphaned(k) == k.orphan \/ k.resolving # NoMint

\* Variant: the reset forgets the promise under way.
BumpedLate(k) ==
    [k EXCEPT !.seen = Nobody, !.mode = FALSE, !.force = FALSE,
              !.checked = FALSE, !.minted = NoKey, !.credential = NoKey,
              !.snapshot = NoKey]

\* What a changed selection resets.
Bumped(k) ==
    [k EXCEPT !.orphan = Orphaned(k), !.resolving = NoMint, !.seen = Nobody,
              !.mode = FALSE, !.force = FALSE, !.checked = FALSE, !.blind = FALSE,
              !.minted = NoKey, !.credential = NoKey, !.snapshot = NoKey]

\* The credentials of a team changed: its key and the promise are dropped.
TeamBumped(k) ==
    [k EXCEPT !.orphan = Orphaned(k), !.resolving = NoMint, !.checked = FALSE,
              !.blind = FALSE, !.minted = NoKey, !.credential = NoKey, !.snapshot = NoKey]

\* markDirty before it notes the file.
Noticed(k, f, w) ==
    IF f = "credentials" /\ keyPlan = "team" /\ k.picked # Nobody
    THEN TeamBumped(k)
    ELSE IF f # "setting" \/ k.picked = Nobody \/ Selection(w) = k.picked
         THEN k
         ELSE IF Selection(w) = Nobody
              THEN [k EXCEPT !.snapshot = NoKey, !.credential = NoKey]
              ELSE Bumped(k)

Ignored(k, f) == \/ k.closed
                 \/ f = "credentials" /\ k.picked # Nobody /\ keyPlan = "api"

\* markDirty for a file, ...
Dirtied(k, f) ==
    IF Ignored(k, f) THEN k ELSE [Noticed(k, f, keyWorld) EXCEPT !.dirty = @ \cup {f}]

\* ... and for an event that does not say which: every file is dirty, and
\* nothing is dropped before the check.
DirtiedBlindly(k) ==
    IF k.closed THEN k
    ELSE [k EXCEPT !.dirty = Files, !.blind = @ \/ k.resolving # NoMint]

---------------------------------------------------------------------------
(* One check: selection, credentials, route, key.                          *)

Fails(k) == [k EXCEPT !.failed = TRUE]
Drops(k) == [k EXCEPT !.failed = TRUE, !.snapshot = NoKey, !.credential = NoKey]

Reselects(k, changed) == \/ k.picked = Nobody \/ "setting" \in changed
                         \/ keyPlan # "api" /\ "credentials" \in changed
                         \/ keyPlan = "api" /\ "config" \in changed

\* The credentials as the check reads them: the individual key when it is
\* on disk, else the fingerprint of a key to mint.
Read(k, w) ==
    [k EXCEPT !.seen = w.login,
              !.mode = keyPlan = "individual" /\ w.login \notin Landed]

\* The key the credentials hold themselves.
OnDisk(w) == IF \/ keyPlan = "individual" /\ w.login \in Landed
                \/ keyPlan = "start" /\ w.login # Nobody
             THEN w.login ELSE Nobody

Routed(k, w) == [k EXCEPT !.route = IF w.route THEN "ok" ELSE "bad",
                          !.mirror = w.mirror]

Stored(k, key) == [k EXCEPT !.credential = key, !.snapshot = key, !.failed = FALSE]

\* A team's key or a minted one: wait for the promise under way, start one,
\* or take the cached key.
Minted(k, must) ==
    IF k.resolving # NoMint THEN [k EXCEPT !.snapshot = NoKey]
    ELSE IF must
    THEN [k EXCEPT !.resolving = [family |-> k.picked, login |-> k.seen],
                   !.snapshot = NoKey, !.credential = NoKey,
                   !.checked = FALSE, !.force = FALSE, !.blind = FALSE]
    ELSE IF k.minted.old
    THEN [k EXCEPT !.credential = k.minted, !.checked = TRUE, !.failed = TRUE]
    ELSE Stored(k, k.minted)

\* The key of the files.
Direct(k, personal) ==
    LET before == k.credential
        from == IF personal # Nobody THEN personal
                ELSE IF keyPlan = "start" /\ before # NoKey THEN before.login
                ELSE k.mirror
        same == before # NoKey /\ before.login = from
        key == IF same THEN before ELSE KeyOf(k.picked, from)
    IN  IF key.old THEN [k EXCEPT !.checked = TRUE, !.failed = TRUE]
        ELSE [Stored(k, key) EXCEPT !.checked = @ /\ same]

Stale(k, login) == \/ k.credential # NoKey /\ k.credential.old
                   \/ k.minted = NoKey
                   \/ k.bears # login

Keyed(k, w, readNow) ==
    IF keyPlan = "team"
    THEN Minted(IF readNow \/ k.resolving # NoMint THEN k ELSE [k EXCEPT !.seen = w.login],
                ~readNow \/ k.force \/ Stale(k, k.seen))
    ELSE IF keyPlan = "individual" /\ k.mode
    THEN Minted(k, Stale(k, k.seen))
    ELSE Direct(k, IF readNow THEN OnDisk(w) ELSE Nobody)

\* check() over the files w with the dirty files.
Checked(k0, w) ==
    LET changed == k0.dirty
        k1 == [k0 EXCEPT !.dirty = {}, !.begun = TRUE]
        next == Selection(w)
        again == Reselects(k1, changed)
        moved == again /\ next # k1.picked
        k2 == IF moved THEN [Bumped(k1) EXCEPT !.picked = next] ELSE k1
        readNow == keyPlan # "api" /\ (moved \/ "credentials" \in changed)
        k3 == IF readNow THEN Read(k2, w) ELSE k2
        reroute == \/ moved \/ "config" \in changed \/ k2.route = "none"
                   \/ readNow /\ (k3.seen # k2.seen \/ k3.mode # k2.mode)
        k4 == IF reroute THEN Routed(k3, w) ELSE k3
    IN  IF again /\ next = Nobody THEN Fails([k1 EXCEPT !.picked = Nobody])
        ELSE IF k4.route = "bad" THEN Fails(k4)
        ELSE Keyed(k4, w, readNow)

\* finish(): whoever waits for a check goes on.
Woken(callers, k) ==
    [c \in KeyClients |->
        IF callers[c] # "waiting" THEN callers[c]
        ELSE IF ~k.failed /\ k.resolving # NoMint THEN "promise" ELSE "idle"]

\* A check that supersedes nothing leaves those who wait for a promise.
Moved(callers, before, after) ==
    [c \in KeyClients |->
        IF callers[c] = "promise" /\ before.resolving # NoMint
             /\ after.resolving # before.resolving /\ after.orphan
        THEN "orphan" ELSE callers[c]]

CheckTo(k) == /\ cache' = k
              /\ keyCaller' = Woken(Moved(keyCaller, cache, k), k)

---------------------------------------------------------------------------
(* The ZCode application writes its files.                                 *)

Writes(w, f) == /\ keyWrites < MaxWrites
                /\ keyWorld' = w
                /\ w # keyWorld
                /\ keyEvents' = keyEvents \cup {f}
                /\ keyWrites' = keyWrites + 1
                /\ UNCHANGED <<keyPlan, cache, keyCaller>>

Selects(f) == Writes([keyWorld EXCEPT !.setting = f], "setting")
LogsIn(l) == Writes([keyWorld EXCEPT !.login = l], "credentials")
Mirrors(l) == Writes([keyWorld EXCEPT !.mirror = l], "config")
Reroutes == Writes([keyWorld EXCEPT !.route = ~@], "config")

---------------------------------------------------------------------------
(* The cache.                                                              *)

\* The watch event of a write, which may come without the name of its file.
Event(f) ==
    /\ f \in keyEvents
    /\ keyEvents' = keyEvents \ {f}
    /\ \E k \in {Dirtied(cache, f), DirtiedBlindly(cache)} :
          cache' = k /\ keyCaller' = Moved(keyCaller, cache, k)
    /\ UNCHANGED <<keyPlan, keyWorld, keyWrites>>

\* The timer of markDirty.
Check == /\ ~cache.closed /\ cache.dirty # {} /\ cache.begun
         /\ CheckTo(Checked(cache, keyWorld))
         /\ UNCHANGED <<keyPlan, keyWorld, keyEvents, keyWrites>>

\* The timer that armExpiry sets: the key grew old, and the first to see it
\* reads the files again.
Old(k) == [k EXCEPT !.snapshot.old = TRUE, !.credential.old = TRUE,
                    !.minted.old = @ \/ k.minted # NoKey]

Expired(k) ==
    IF k.snapshot = NoKey \/ ~k.snapshot.old \/ k.checked THEN k
    ELSE Checked([k EXCEPT !.checked = TRUE, !.force = @ \/ keyPlan = "team",
                           !.dirty = @ \cup {"config"}
                                       \cup IF keyPlan = "team"
                                            THEN {"credentials"} ELSE {}],
                 keyWorld)

Expire == /\ cache.snapshot # NoKey /\ ~cache.snapshot.old /\ ~cache.failed
          /\ keyWrites < MaxWrites
          /\ keyWrites' = keyWrites + 1
          /\ CheckTo(Expired(Old(cache)))
          /\ UNCHANGED <<keyPlan, keyWorld, keyEvents>>

\* get(): the first one checks; without a key it waits for a due check, or
\* for the promise.
Get(c) ==
    LET k == IF cache.closed THEN cache
             ELSE IF ~cache.begun THEN Checked(cache, keyWorld)
             ELSE Expired(cache)
        others == IF k = cache THEN keyCaller ELSE Woken(Moved(keyCaller, cache, k), k)
        waits == IF (k.snapshot = NoKey \/ k.failed) /\ k.dirty # {}
                 THEN "waiting"
                 ELSE IF ~k.failed /\ k.resolving # NoMint THEN "promise" ELSE "idle"
    IN  /\ keyCaller[c] = "idle"
        /\ cache' = k
        /\ keyCaller' = [others EXCEPT ![c] = waits]
        /\ UNCHANGED <<keyPlan, keyWorld, keyEvents, keyWrites>>

\* refresh(): after the promise under way, every file is read again.
Refreshed(c) ==
    /\ keyCaller[c] = "idle" /\ ~cache.closed /\ cache.resolving = NoMint
    /\ LET k == Checked([cache EXCEPT !.dirty = Files], keyWorld)
       IN  /\ cache' = k
           /\ keyCaller' = [Woken(Moved(keyCaller, cache, k), k) EXCEPT ![c] =
                               IF ~k.failed /\ k.resolving # NoMint
                               THEN "promise" ELSE "idle"]
    /\ UNCHANGED <<keyPlan, keyWorld, keyEvents, keyWrites>>

Ends(callers, stage, k) ==
    [c \in KeyClients |-> IF callers[c] = stage THEN "idle"
                          ELSE Woken(callers, k)[c]]

\* The service answers the promise that counts; without a selection or a
\* route its key is dropped.  A team's key bears the fingerprint of the
\* credentials as they were read last, another the one it was asked with.
Resolve ==
    /\ cache.resolving # NoMint
    /\ LET key == KeyOf(cache.resolving.family, cache.resolving.login)
           k == [cache EXCEPT !.resolving = NoMint, !.credential = key, !.minted = key,
                              !.bears = IF keyPlan = "team" THEN cache.seen ELSE key.login]
           done == IF cache.route = "ok" /\ cache.picked # Nobody
                   THEN Stored(k, key)
                   ELSE [Drops(k) EXCEPT !.minted = NoKey]
       IN  /\ cache' = done
           /\ keyCaller' = Ends(keyCaller, "promise", done)
    /\ UNCHANGED <<keyPlan, keyWorld, keyEvents, keyWrites>>

ResolveFails ==
    /\ cache.resolving # NoMint
    /\ LET k == [Drops(cache) EXCEPT !.resolving = NoMint, !.minted = NoKey]
       IN  /\ cache' = k
           /\ keyCaller' = Ends(keyCaller, "promise", k)
    /\ UNCHANGED <<keyPlan, keyWorld, keyEvents, keyWrites>>

\* The answer of a promise that was superseded changes nothing.
Late == /\ cache.orphan
        /\ cache' = [cache EXCEPT !.orphan = FALSE]
        /\ keyCaller' = Ends(keyCaller, "orphan", cache)
        /\ UNCHANGED <<keyPlan, keyWorld, keyEvents, keyWrites>>

\* stop(): close, or a watcher that fails.
Stop ==
    /\ ~cache.closed
    /\ LET k == [Fresh0 EXCEPT !.dirty = {}, !.failed = TRUE, !.closed = TRUE,
                               !.begun = cache.begun, !.orphan = Orphaned(cache)]
       IN  /\ cache' = k
           /\ keyCaller' = Woken(Moved(keyCaller, cache, k), k)
    /\ UNCHANGED <<keyPlan, keyWorld, keyEvents, keyWrites>>

KeyNext == \/ \E f \in Families \cup {Nobody} : Selects(f)
           \/ \E l \in Logins \cup {Nobody} : LogsIn(l)
           \/ \E l \in Logins : Mirrors(l)
           \/ Reroutes
           \/ \E f \in Files : Event(f)
           \/ Check
           \/ Expire
           \/ \E c \in KeyClients : Get(c) \/ Refreshed(c)
           \/ Resolve
           \/ ResolveFails
           \/ Late
           \/ Stop

KeySpec == KeyInit /\ [][KeyNext]_keyVars

---------------------------------------------------------------------------
(* Properties.                                                             *)

KeyType == [family : Families \cup {Nobody}, login : Logins \cup {Nobody},
            old : BOOLEAN]

\* Type: the cache holds keys of accounts, each caller waits for one thing.
KeyTypeOK ==
    /\ keyPlan \in KeyPlans
    /\ keyEvents \subseteq Files /\ cache.dirty \subseteq Files
    /\ keyWrites \in 0..MaxWrites
    /\ {cache.credential, cache.minted, cache.snapshot} \subseteq KeyType
    /\ cache.picked \in Families \cup {Nobody}
    /\ cache.route \in {"none", "ok", "bad"}
    /\ keyCaller \in [KeyClients -> {"idle", "waiting", "promise", "orphan"}]

\* Nothing is under way: every write was seen and checked, no promise runs.
Settled == /\ keyEvents = {} /\ cache.dirty = {} /\ ~cache.closed
           /\ cache.resolving = NoMint

\* The account whose key the files ask for.
Wanted == IF keyPlan = "api" THEN keyWorld.mirror ELSE keyWorld.login

\* Once nothing is under way, a key that is served is of the selected
\* channel and, for a team and an API key, the one the files ask for now;
\* and a caller never waits for a check that is not due or a promise that is
\* gone (config.ts markDirty, check, get).  One key is excepted: that of a
\* team, asked for before an event that did not name its file, which does
\* not drop the promise (config.ts:583, 816).
KeyFollows ==
    /\ (Settled /\ ~cache.failed /\ cache.snapshot # NoKey) =>
            /\ cache.snapshot.family = keyWorld.setting
            /\ keyPlan \in {"team", "api"} =>
                 cache.snapshot.login = Wanted \/ (keyPlan = "team" /\ cache.blind)
    /\ \A c \in KeyClients :
            /\ keyCaller[c] = "waiting" => cache.dirty # {}
            /\ keyCaller[c] = "promise" => cache.resolving # NoMint
            /\ keyCaller[c] = "orphan" => cache.orphan

\* The same for the individual and the start plan: the key is of the account
\* logged in, never of the one before and never the copy in config.json (the
\* fallback ban and the generations of config.ts).
KeyIsOwn ==
    (/\ keyPlan \in {"individual", "start"} /\ Settled /\ ~cache.failed
     /\ cache.snapshot # NoKey /\ Wanted # Nobody)
        => cache.snapshot.login = Wanted

=============================================================================
