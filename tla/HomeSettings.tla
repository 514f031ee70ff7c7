---------------------------- MODULE HomeSettings ----------------------------
(* The settings of one runtime home: config.json, state.json, the list of   *)
(* selected models, the static catalog, and the line of config.toml that    *)
(* points Codex at it (model-state.ts, config-update.ts, upstream-catalog.ts,*)
(* and what cli.ts and webui.ts do with them).  A command or the Web UI     *)
(* saves settings in several files, asks the gateway to load them or to     *)
(* start again, and puts the files back when a step fails; meanwhile the    *)
(* user edits config.toml, and the gateway starts, serves and stops.  What  *)
(* a process does between two awaits is one step.  The service is           *)
(* installed; how a reload is requested and answered is ModelReload's.      *)
EXTENDS Naturals

CONSTANTS MaxSaves, MaxUserEdits, MaxExits,   \* bounds
          Overlap                             \* may a command run beside a save of the Web UI?

(* No lock prevents it.                                                     *)
ASSUME OverlapIsBoolean == Overlap \in BOOLEAN

VARIABLES
    ownToml,     \* config.toml is the user's alone (codexConfigManaged)
    home,       \* the files of the home, and config.toml
    gw,         \* the gateway process, the settings it has loaded, what got lost since
    notes,      \* a request to reload that nobody waits for any more
    timers,     \* restarts that the Web UI has scheduled
    job,        \* the command and the save of the Web UI under way
    saves, userEdits, exits

settingVars == <<ownToml, home, gw, notes, timers, job, saves, userEdits, exits>>

Savers  == {"cli", "ui"}
UiKinds == {"uiconfig", "uimodels", "uiswitch"}
Bit    == {0, 1}

(* upstreamOnly; a setting that needs a restart; selectedModels;            *)
(* excludedModels.                                                          *)
Settings == [static : BOOLEAN, switch : Bit, models : Bit, excluded : Bit]
Merges == [switch : Bit, models : Bit, excluded : Bit]
Tomls    == [edits : 0..MaxUserEdits, pointer : {"none", "managed", "user"}]
Disks    == [conf : Settings, pending : BOOLEAN, stateConf : Settings, hash : Tomls,
             toml : Tomls, selected : Bit, merged : Merges]

Default == [static |-> FALSE, switch |-> 0, models |-> 0, excluded |-> 0]

(* writeStaticCatalog: the selected models and those of the agents that are *)
(* on, without the excluded ones.                                           *)
Merge(c, selected) ==
    [switch |-> c.switch, models |-> selected, excluded |-> c.excluded]
PublishCatalog(d, c) ==
    IF c.static THEN [d EXCEPT !.merged = Merge(c, d.selected)] ELSE d

(* applyModelCatalogToml: a pointer of the user's own is refused.           *)
Refuses(d) == ~ownToml /\ d.toml.pointer = "user"
Pointed(t, c) ==
    IF ownToml THEN t ELSE [t EXCEPT !.pointer = IF c.static THEN "managed" ELSE "none"]

Nothing == LET t == [edits |-> 0, pointer |-> "none"]
           IN [conf |-> Default, pending |-> FALSE, stateConf |-> Default, hash |-> t,
               toml |-> t, selected |-> 0, merged |-> Merge(Default, 0)]

(* What a command or a save knows: the settings it read and those it wants, *)
(* the files when it started and when it began to write, config.toml as it  *)
(* read it for the update and as it expects to find it when it restores,    *)
(* whether the change concerns models, whether a restart is scheduled, and  *)
(* (history) whether a gateway has published its catalog since.             *)
Job(kind, at, want, touches) ==
    [kind |-> kind, at |-> at, base |-> home.conf, want |-> want, touches |-> touches,
     began |-> home, saved |-> Nothing, source |-> Nothing.toml, expected |-> Nothing.toml,
     restarts |-> FALSE, met |-> FALSE]
Resting(at) ==
    [kind |-> "none", at |-> at, base |-> Default, want |-> Default, touches |-> FALSE,
     began |-> Nothing, saved |-> Nothing, source |-> Nothing.toml, expected |-> Nothing.toml,
     restarts |-> FALSE, met |-> FALSE]
Free(s) == job[s].at \in {"done", "failed"}

(* What has got lost (history): the mark of a restart that is due, or the   *)
(* catalog that the gateway published when it came up.                      *)
Losses == {"mark", "catalog"}

Down  == [at |-> "down", conf |-> Default, lost |-> {}]
Booting == [at |-> "starting", conf |-> Default, lost |-> {}]

SettingsInit ==
    /\ ownToml \in BOOLEAN
    /\ \E static \in BOOLEAN :
         LET c == [Default EXCEPT !.static = static]
             t == [edits |-> 0, pointer |-> IF static /\ ~ownToml THEN "managed" ELSE "none"]
         IN /\ home = [conf |-> c, pending |-> FALSE, stateConf |-> c, hash |-> t,
                       toml |-> t, selected |-> 0, merged |-> Merge(c, 0)]
            /\ gw = [at |-> "up", conf |-> c, lost |-> {}]
    /\ notes = FALSE /\ timers = [save |-> 0, undo |-> 0]
    /\ job = [s \in Savers |-> Resting("done")]
    /\ saves = 0 /\ userEdits = 0 /\ exits = 0

-----------------------------------------------------------------------------
(* The gateway.                                                             *)

Kicked(ok) == IF ok THEN gw' = Booting ELSE UNCHANGED gw

(* serve reads config.json and listens ...                                  *)
GwLoad ==
    /\ gw.at = "starting"
    /\ gw' = [at |-> "loaded", conf |-> home.conf, lost |-> {}]
    /\ UNCHANGED <<ownToml, home, notes, timers, job, saves, userEdits, exits>>

(* Does it lack settings that need a restart?                               *)
Behind == gw.conf.static # home.conf.static \/ gw.conf.switch # home.conf.switch

(* ... clears the mark, whoever has set it and for what                     *)
(* (clearPendingRestart) ...                                                *)
GwClear ==
    /\ gw.at = "loaded"
    /\ gw' = [gw EXCEPT !.at = "serving", !.lost = IF home.pending /\ Behind THEN @ \union {"mark"} ELSE @]
    /\ home' = [home EXCEPT !.pending = FALSE]
    /\ UNCHANGED <<ownToml, notes, timers, job, saves, userEdits, exits>>

Overtaken == [s \in Savers |-> [job[s] EXCEPT !.met = ~Free(s)]]

(* ... and is healthy once the static catalog is published.                 *)
GwReady ==
    /\ gw.at = "serving" /\ gw' = [gw EXCEPT !.at = "up"]
    /\ home' = PublishCatalog(home, gw.conf)
    /\ job' = Overtaken
    /\ UNCHANGED <<ownToml, notes, timers, saves, userEdits, exits>>

(* A reload takes over the models only; the rest needs a restart.           *)
Reloaded(c, d) == [c EXCEPT !.models = d.conf.models, !.excluded = d.conf.excluded]

GwReload ==
    /\ gw.at = "up" /\ notes /\ notes' = FALSE
    /\ gw' = [gw EXCEPT !.conf = Reloaded(@, home)]
    /\ home' = PublishCatalog(home, gw'.conf) /\ job' = Overtaken
    /\ UNCHANGED <<ownToml, timers, saves, userEdits, exits>>

(* The process dies and launchd starts it again (KeepAlive).                *)
GwExit ==
    /\ gw.at \in {"loaded", "serving", "up"} /\ exits < MaxExits
    /\ gw' = Booting /\ exits' = exits + 1
    /\ UNCHANGED <<ownToml, home, notes, timers, job, saves, userEdits>>

-----------------------------------------------------------------------------
(* The update of the catalog waits only if it asks the agents.              *)
Waits(j) == j.want.static \/ j.kind = "sync" \/ (j.kind \in UiKinds /\ ~j.restarts)

(* The user adds to config.toml, or points Codex at a catalog of his own.   *)
EditToml ==
    /\ \A s \in Savers : job[s].at = "update" => Waits(job[s])
    /\ userEdits < MaxUserEdits /\ userEdits' = userEdits + 1
    /\ \E p \in {home.toml.pointer, "user"} :
         home' = [home EXCEPT !.toml = [edits |-> home.toml.edits + 1, pointer |-> p]]
    /\ UNCHANGED <<ownToml, gw, notes, timers, job, saves, exits>>

-----------------------------------------------------------------------------
(* Steps that commands and saves share.                                     *)

Enter(s, j) ==
    /\ Free(s) /\ saves < MaxSaves
    /\ Overlap \/ \A o \in Savers : Free(o)
    /\ saves' = saves + 1 /\ job' = [job EXCEPT ![s] = j]

Ends(s, at) == job' = [job EXCEPT ![s] = Resting(at)]

Wrote(d, c) == [d EXCEPT !.conf = c, !.stateConf = c]

(* Variant: a restart that is due is not noted down. *)
Unmarked(d) == d

(* markPendingRestart. *)
Marked(d) == [d EXCEPT !.pending = TRUE]

(* withModelFileRollback restores every file; modelSaveRollback leaves a    *)
(* config.toml that somebody has changed.                                   *)
CliRestored(j) == j.saved

(* Variant: the list of models is not among the files. *)
UiRestoredSettings(j) ==
    [j.saved EXCEPT !.toml = IF home.toml # j.expected THEN home.toml ELSE j.saved.toml,
                    !.selected = home.selected]

UiRestored(j) ==
    [j.saved EXCEPT !.toml = IF home.toml # j.expected THEN home.toml ELSE j.saved.toml]

(* What is put back may be older than what a gateway has published.         *)
Undone(j) == [gw EXCEPT !.lost = IF j.met THEN @ \union {"catalog"} ELSE @]

(* A failed command ends, but config restarts the service with the settings *)
(* of before.                                                               *)
CliFails(j) ==
    IF j.kind # "config"
    THEN /\ home' = CliRestored(j) /\ gw' = Undone(j) /\ Ends("cli", "failed") /\ UNCHANGED timers
    ELSE /\ home' = Marked(CliRestored(j)) /\ UNCHANGED timers
         /\ \E ok \in BOOLEAN :
              /\ Kicked(ok)
              /\ IF ok THEN job' = [job EXCEPT !["cli"] = [j EXCEPT !.at = "undoing"]]
                 ELSE Ends("cli", "failed")

(* A failed save ends, and a restart is scheduled if there was one.         *)
UiFails(j) ==
    /\ home' = UiRestored(j) /\ gw' = Undone(j) /\ Ends("ui", "failed")
    /\ timers' = IF j.restarts THEN [timers EXCEPT !.undo = @ + 1] ELSE timers

Fails(s, j) == IF s = "cli" THEN CliFails(j) ELSE UiFails(j)

(* updateCodexModelCatalog up to its await: config.toml is read, and a      *)
(* pointer of the user's own is an error.                                   *)
BeginUpdate(s, j, d) ==
    IF Refuses(d) THEN Fails(s, j)
    ELSE /\ home' = d /\ job' = [job EXCEPT ![s] = [j EXCEPT !.at = "update", !.source = d.toml]]
         /\ UNCHANGED <<gw, timers>>

-----------------------------------------------------------------------------
(* updateCodexModelCatalog after its await.                                 *)

Changes(j) == Pointed(j.source, j.want) # j.source
Conflict(j) == Changes(j) /\ home.toml # j.source

Updated(j) ==
    LET d == PublishCatalog(home, j.want)
        t == Pointed(j.source, j.want)
    IN IF Changes(j)
       THEN [d EXCEPT !.toml = t, !.hash = IF @ = j.source THEN t ELSE @]
       ELSE d

(* Then a change of models only is for the running gateway to load; after a *)
(* restart there is nothing left to do.                                     *)
UpdateDone(s) ==
    LET j == job[s] IN
    /\ j.at = "update" /\ ~Conflict(j) /\ home' = Updated(j)
    /\ IF j.kind = "config" \/ j.restarts \/ gw.at \in {"down", "starting"}
       THEN Ends(s, "done")
       ELSE job' = [job EXCEPT ![s].at = "reload", ![s].expected = home'.toml]
    /\ UNCHANGED <<ownToml, gw, notes, timers, saves, userEdits, exits>>

(* config.toml has changed, or the catalog came out empty.                  *)
UpdateFails(s) ==
    LET j == job[s] IN
    /\ j.at = "update" /\ (Conflict(j) \/ j.want.static)
    /\ Fails(s, j)
    /\ UNCHANGED <<ownToml, notes, saves, userEdits, exits>>

(* reloadGatewayModels is answered ...                                      *)
ReloadAnswered(s) ==
    /\ job[s].at = "reload" /\ gw.at = "up"
    /\ gw' = [gw EXCEPT !.conf = Reloaded(@, home)]
    /\ home' = PublishCatalog(home, gw'.conf) /\ Ends(s, "done")
    /\ UNCHANGED <<ownToml, notes, timers, saves, userEdits, exits>>

(* ... or not in time: a command reports it and keeps what it has saved,    *)
(* the Web UI takes its save back.                                          *)
ReloadMissed(s) ==
    /\ job[s].at = "reload" /\ notes' = TRUE
    /\ IF s = "cli" THEN Ends(s, "done") /\ UNCHANGED <<home, gw, timers>> ELSE UiFails(job[s])
    /\ UNCHANGED <<ownToml, saves, userEdits, exits>>

-----------------------------------------------------------------------------
(* Commands.                                                                *)

(* models --sync fetches the models there are ...                           *)
Sync ==
    /\ ~Refuses(home)
    /\ \E m \in Bit : Enter("cli", Job("sync", "fetch", [home.conf EXCEPT !.models = m], TRUE))
    /\ UNCHANGED <<ownToml, home, gw, notes, timers, userEdits, exits>>

(* ... remembers the files ...                                              *)
SyncFetched ==
    /\ job["cli"].at = "fetch"
    /\ job' = [job EXCEPT !["cli"].saved = home, !["cli"].at = "rebuild", !["cli"].met = FALSE]
    /\ UNCHANGED <<ownToml, home, gw, notes, timers, saves, userEdits, exits>>

FetchFails(s) ==
    /\ job[s].at = "fetch" /\ Ends(s, "failed")
    /\ UNCHANGED <<ownToml, home, gw, notes, timers, saves, userEdits, exits>>

(* ... and writes them (rebuildCatalog, config.json, state.json).           *)
SyncWrites ==
    LET j == job["cli"] IN
    /\ j.kind = "sync" /\ j.at = "rebuild"
    /\ BeginUpdate("cli", j, Wrote([home EXCEPT !.selected = j.want.models], j.want))
    /\ UNCHANGED <<ownToml, notes, saves, userEdits, exits>>

Canceled ==
    /\ job["cli"].at = "prompt" /\ Ends("cli", "done")
    /\ UNCHANGED <<ownToml, home, gw, notes, timers, saves, userEdits, exits>>

RebuildFails(s) ==
    /\ job[s].at = "rebuild" /\ Fails(s, job[s])
    /\ UNCHANGED <<ownToml, notes, saves, userEdits, exits>>

(* models --exclude asks the user first, and reloads.                       *)
Exclude ==
    /\ \E e \in Bit : e # home.conf.excluded
         /\ Enter("cli", Job("exclude", "prompt", [home.conf EXCEPT !.excluded = e], TRUE))
    /\ UNCHANGED <<ownToml, home, gw, notes, timers, userEdits, exits>>

ExcludeWrites ==
    LET j == [job["cli"] EXCEPT !.saved = home, !.met = FALSE] IN
    /\ j.kind = "exclude" /\ j.at = "prompt"
    /\ BeginUpdate("cli", j, Wrote(home, j.want))
    /\ UNCHANGED <<ownToml, notes, saves, userEdits, exits>>

(* restartGatewayOnce: the mark, then the restart, whose failure ends a     *)
(* command that does not put its files back.                                *)
Restarts(j, d) ==
    \E ok \in BOOLEAN :
      IF ok
      THEN /\ home' = Marked(d) /\ gw' = Booting /\ UNCHANGED timers
           /\ job' = [job EXCEPT !["cli"] = [j EXCEPT !.at = "health"]]
      ELSE IF j.kind = "config" THEN CliFails(j)
      ELSE home' = Marked(d) /\ Ends("cli", "failed") /\ UNCHANGED <<gw, timers>>

(* config: the mode, or a switch that may concern models or not.            *)
Config ==
    /\ ~Refuses(home)
    /\ \E static \in BOOLEAN, switch \in Bit, touches \in BOOLEAN :
         LET want == [home.conf EXCEPT !.static = static, !.switch = switch]
         IN /\ static # home.conf.static => touches
            /\ Enter("cli", Job("config", "write", want, touches))
    /\ UNCHANGED <<ownToml, home, gw, notes, timers, userEdits, exits>>

(* restart writes state.json from config.json.                              *)
RestartService ==
    /\ Enter("cli", Job("restart", "write", home.conf, FALSE))
    /\ UNCHANGED <<ownToml, home, gw, notes, timers, userEdits, exits>>

WritesAndRestarts ==
    LET was  == job["cli"]
        want == IF was.kind = "restart" THEN home.conf
                ELSE [home.conf EXCEPT !.static = was.want.static, !.switch = was.want.switch]
        j    == [was EXCEPT !.saved = home, !.want = want, !.met = FALSE]
    IN
    /\ was.at = "write" /\ Restarts(j, Wrote(home, want))
    /\ UNCHANGED <<ownToml, notes, saves, userEdits, exits>>

(* codebuddy --switch asks for the account.                                 *)
SwitchAccount ==
    /\ \E a \in Bit : Enter("cli", Job("switch", "prompt", [home.conf EXCEPT !.switch = a], FALSE))
    /\ UNCHANGED <<ownToml, home, gw, notes, timers, userEdits, exits>>

AccountChosen ==
    LET j == job["cli"] IN
    /\ j.kind = "switch" /\ j.at = "prompt"
    /\ IF j.want = j.base THEN Ends("cli", "done") /\ UNCHANGED <<home, gw, timers>>
       ELSE Restarts(j, Wrote(home, j.want))
    /\ UNCHANGED <<ownToml, notes, saves, userEdits, exits>>

StopService ==
    /\ gw.at # "down" /\ gw' = Down /\ Enter("cli", Resting("done"))
    /\ UNCHANGED <<ownToml, home, notes, timers, userEdits, exits>>

StartService ==
    /\ gw.at = "down" /\ gw' = Booting /\ Enter("cli", Resting("done"))
    /\ UNCHANGED <<ownToml, home, notes, timers, userEdits, exits>>

(* waitForHealth: the gateway answers, and the mark is cleared ...          *)
Healthy ==
    LET j == job["cli"]
        d == [home EXCEPT !.pending = FALSE]
    IN /\ j.at \in {"health", "undoing"} /\ gw.at = "up"
       /\ IF j.at = "health" /\ j.kind = "config" /\ j.touches THEN BeginUpdate("cli", j, d)
          ELSE /\ home' = d /\ UNCHANGED <<gw, timers>>
               /\ Ends("cli", IF j.at = "undoing" THEN "failed" ELSE "done")
       /\ UNCHANGED <<ownToml, notes, saves, userEdits, exits>>

(* ... or it does not come up in time, and the mark stays.                  *)
Unhealthy ==
    LET j == job["cli"] IN
    /\ j.at \in {"health", "undoing"} /\ gw.at # "up"
    /\ IF j.at = "health" /\ j.kind = "config" THEN CliFails(j)
       ELSE Ends("cli", "failed") /\ UNCHANGED <<home, gw, timers>>
    /\ UNCHANGED <<ownToml, notes, saves, userEdits, exits>>

-----------------------------------------------------------------------------
(* Saves of the Web UI.                                                     *)

(* POST upstream/models, or POST config with a selection: the models are    *)
(* fetched first ...                                                        *)
UiModels ==
    /\ \E m \in Bit :
         Enter("ui", Job("uimodels", "fetch", [home.conf EXCEPT !.models = m], TRUE))
    /\ UNCHANGED <<ownToml, home, gw, notes, timers, userEdits, exits>>

UiConfig ==
    /\ \E switch, models, excluded \in Bit :
         LET want == [home.conf EXCEPT !.switch = switch, !.models = models, !.excluded = excluded]
         IN Enter("ui", Job("uiconfig", "fetch", want, TRUE))
    /\ UNCHANGED <<ownToml, home, gw, notes, timers, userEdits, exits>>

(* ... config.json must not have changed, except in the first case, and the *)
(* files are remembered.                                                    *)
Remember(j) == [j EXCEPT !.at = "rebuild", !.saved = home, !.expected = home.toml, !.met = FALSE]

UiFetched ==
    LET j == job["ui"] IN
    /\ j.at = "fetch"
    /\ IF j.kind = "uiconfig" /\ home.conf # j.base THEN Ends("ui", "failed")
       ELSE job' = [job EXCEPT !["ui"] = Remember(j)]
    /\ UNCHANGED <<ownToml, home, gw, notes, timers, saves, userEdits, exits>>

(* The patch is applied to config.json as it is now.  A switch needs a      *)
(* restart, which is marked and scheduled; a change of models updates the   *)
(* catalog, at once or after the restart.                                   *)
Applied(j, c) ==
    [c EXCEPT !.switch = IF j.want.switch # j.base.switch THEN j.want.switch ELSE @,
              !.models = IF j.kind # "uiswitch" THEN j.want.models ELSE @,
              !.excluded = IF j.want.excluded # j.base.excluded THEN j.want.excluded ELSE @]

UiWrite(was) ==
    LET c == Applied(was, home.conf)
        j == [was EXCEPT !.restarts = c.switch # home.conf.switch,
                         !.want = IF was.kind = "uimodels" THEN @ ELSE c]
        w == IF j.kind = "uiswitch" THEN Wrote(home, c)
             ELSE [Wrote(home, c) EXCEPT !.selected = c.models]
    IN IF j.restarts
       THEN /\ home' = Marked(w) /\ timers' = [timers EXCEPT !.save = @ + 1] /\ UNCHANGED gw
            /\ IF j.touches THEN job' = [job EXCEPT !["ui"] = [j EXCEPT !.at = "restart"]]
               ELSE Ends("ui", "done")
       ELSE IF j.touches THEN BeginUpdate("ui", j, w)
       ELSE home' = w /\ Ends("ui", "done") /\ UNCHANGED <<gw, timers>>

UiWrites ==
    LET j == job["ui"] IN
    /\ j.at \in {"rebuild", "write"}
    /\ UiWrite(IF j.at = "write" THEN Remember(j) ELSE j)
    /\ UNCHANGED <<ownToml, notes, saves, userEdits, exits>>

(* POST config without a selection waits for nothing before it writes.      *)
UiSwitch ==
    /\ \E switch, excluded \in Bit, touches \in BOOLEAN :
         LET want == [home.conf EXCEPT !.switch = switch, !.excluded = excluded]
         IN /\ want # home.conf
            /\ excluded # home.conf.excluded => touches
            /\ Enter("ui", Job("uiswitch", "write", want, touches))
    /\ UNCHANGED <<ownToml, home, gw, notes, timers, userEdits, exits>>

(* launchd is asked to restart the gateway; an error is dropped.            *)
TimerFires(k) ==
    /\ timers[k] > 0 /\ timers' = [timers EXCEPT ![k] = @ - 1]
    /\ k = "undo" => timers.save = 0
    /\ gw' \in {Booting, IF k = "undo" THEN [gw EXCEPT !.lost = @ \union {"mark"}] ELSE gw}
    /\ UNCHANGED <<ownToml, home, notes, job, saves, userEdits, exits>>

(* After the restart the Web UI has the models reloaded until that works,   *)
(* and then updates the catalog; or it gives up after 15 seconds.           *)
UiReloaded ==
    /\ job["ui"].at = "restart" /\ timers.save = 0 /\ gw.at = "up"
    /\ gw' = [gw EXCEPT !.conf = Reloaded(@, home)]
    /\ home' = PublishCatalog(home, gw'.conf)
    /\ job' = [job EXCEPT !["ui"].at = "reloaded"]
    /\ UNCHANGED <<ownToml, notes, timers, saves, userEdits, exits>>

UiUpdates ==
    /\ job["ui"].at = "reloaded" /\ BeginUpdate("ui", job["ui"], home)
    /\ UNCHANGED <<ownToml, notes, saves, userEdits, exits>>

UiGivesUp ==
    /\ job["ui"].at = "restart" /\ timers.save = 0 /\ notes' = TRUE
    /\ UiFails(job["ui"])
    /\ UNCHANGED <<ownToml, saves, userEdits, exits>>

-----------------------------------------------------------------------------
SettingsNext ==
    \/ GwLoad \/ GwClear \/ GwReady \/ GwReload \/ GwExit \/ EditToml
    \/ Sync \/ SyncFetched \/ SyncWrites \/ Exclude \/ ExcludeWrites \/ Canceled
    \/ Config \/ RestartService \/ WritesAndRestarts \/ SwitchAccount \/ AccountChosen \/ StopService \/ StartService
    \/ Healthy \/ Unhealthy
    \/ UiModels \/ UiConfig \/ UiFetched \/ UiWrites \/ UiSwitch
    \/ UiReloaded \/ UiUpdates \/ UiGivesUp
    \/ \E k \in {"save", "undo"} : TimerFires(k)
    \/ \E s \in Savers : FetchFails(s) \/ RebuildFails(s) \/ UpdateDone(s) \/ UpdateFails(s)
                          \/ ReloadAnswered(s) \/ ReloadMissed(s)

SettingsSpec == SettingsInit /\ [][SettingsNext]_settingVars

-----------------------------------------------------------------------------
AtRest ==
    /\ \A s \in Savers : Free(s)
    /\ timers = [save |-> 0, undo |-> 0]
    /\ gw.at \in {"down", "up"} /\ (gw.at = "up" => ~notes)

(* When nothing is under way, the files say the same, whatever has failed   *)
(* before: state.json has the settings of config.json, the list of models   *)
(* is the selected one, Codex is pointed at the static catalog just in      *)
(* static mode, state.json knows a config.toml that nobody has edited, and  *)
(* the catalog is made of those settings, or of those that the gateway runs *)
(* with, unless a restart is due or the catalog was put back by a save that *)
(* failed after the gateway had published a newer one (model-state.ts:92,   *)
(* cli.ts:1490, webui.ts:613).                                              *)
FilesAgree ==
    AtRest =>
      /\ home.stateConf = home.conf /\ home.selected = home.conf.models
      /\ ~Refuses(home) => home.toml = Pointed(home.toml, home.conf)
      /\ home.toml.edits = 0 => home.hash = home.toml
      /\ home.conf.static /\ ~home.pending /\ gw.at = "up" /\ gw.lost = {} =>
            \E c \in {home.conf, gw.conf} : home.merged = Merge(c, home.selected)

(* When nothing is under way and the gateway runs without settings of       *)
(* config.json that need a restart, the restart is marked in state.json     *)
(* (webui.ts:239, cli.ts:766).  There are two ways around it: since it      *)
(* started, the gateway has cleared a mark for settings newer than those it *)
(* had read, or the restart after a failed save has failed as well, for     *)
(* which no mark is left.                                                   *)
DueIsMarked ==
    AtRest /\ gw.at = "up" /\ Behind => home.pending \/ "mark" \in gw.lost

(* What has been saved, or has failed, leaves the home in good order.       *)
HomeAtRest == FilesAgree /\ DueIsMarked

(* A save that fails leaves the settings, the list of models and the pointer *)
(* as they were when it began; only codebuddy --switch and restart, whose   *)
(* restart is marked, do not put them back (cli.ts:1490, webui.ts:613).     *)
FailedSaveRestores ==
    [][\A s \in Savers :
         LET j == job[s] IN
         j.at \notin {"done", "failed"} /\ job'[s].at = "failed" /\ j.kind \notin {"switch", "restart"} =>
           /\ home'.conf = j.began.conf /\ home'.stateConf = j.began.conf
           /\ home'.selected = j.began.selected
           /\ \/ home'.toml.pointer = j.began.toml.pointer
              \/ home'.toml.edits > j.began.toml.edits]_settingVars
=============================================================================
