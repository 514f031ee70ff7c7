---------------------------- MODULE Installation ----------------------------
(***************************************************************************)
(* The install and uninstall commands of one runtime home: installCurrent  *)
(* and uninstall of apps/gateway/src/cli.ts, with the service operations   *)
(* of launchd.ts they call.                                                *)
(*                                                                         *)
(* A command is a sequence of writes to files that no transaction joins:   *)
(* Codex's config.toml (which the user edits too), config.json, the key,   *)
(* state.json, the service definition and the claim on Codex's directory.  *)
(* Each write is a step, after any of which the command may fail and undo  *)
(* what it did, or, if Crashes, simply end.  One command runs at a time.   *)
(*                                                                         *)
(* config.toml is [url, rest]: the managed keys and all other contents,    *)
(* counted in user edits.  A hash of contents is the contents.             *)
(***************************************************************************)
EXTENDS Integers

CONSTANTS
    Ports,      \* gateway addresses an install may choose
    UserUrls,   \* what the managed keys may hold before any install
    Keys,       \* API keys
    Builds,     \* service definitions: paths of the program and label
    MaxEdits,   \* bound on the user's edits of config.toml
    Crashes,    \* may a command end between two steps?
    EditWindow, \* may the user edit config.toml while an install waits?
    None

Tomls == [url : Ports \union UserUrls, rest : 0..MaxEdits]

States == [managed : BOOLEAN, backup : Tomls \union {None}, hash : Tomls \union {None},
           restored : BOOLEAN]

ASSUME EditsAssumption == MaxEdits \in Nat
ASSUME ChoicesAssumption ==
    /\ Crashes \in BOOLEAN /\ EditWindow \in BOOLEAN
    /\ None \notin Ports \union UserUrls \union Keys \union Builds \union Tomls \union States

VARIABLES
    toml,       \* config.toml
    config,     \* config.json: the address, or None
    key,        \* the stored API key, or None
    state,      \* state.json, or None
    plist,      \* the service definition on disk, or None
    service,    \* the loaded job: its definition and the address it serves
    claim,      \* whether the owner file of Codex's directory names this home
    pc,         \* the place of the command in progress, or how the last one ended
    cmd,        \* its options and the snapshot it took, or None
    backup,     \* configBackup
    claimed,    \* whether its rollback has a claim to undo
    launch,     \* launchTouched
    unchanged,  \* tomlUnchanged
    own,        \* history: the managed keys as the user last set them
    died        \* history: a command was cut off

command == <<pc, cmd, backup, claimed, launch, unchanged>>
vars == <<toml, config, key, state, plist, service, claim, command, own, died>>

Quiet == {"idle", "installed", "failed", "partly", "uninstalled", "crashed"}
Idle == pc \in Quiet

(* isCodexConfigManaged, and not given back by an unfinished uninstall. *)
Managed(s) == s # None /\ s.managed /\ ~s.restored

Snapshot == [toml |-> toml, config |-> config, key |-> key, state |-> state,
             plist |-> plist, service |-> service, claim |-> claim]

(* A command goes on to its next place; its end takes its variables along. *)
Goto(place) == pc' = place /\ UNCHANGED <<cmd, backup, claimed, launch, unchanged>>

End(place) ==
    /\ pc' = place /\ cmd' = None /\ backup' = None
    /\ claimed' = FALSE /\ launch' = FALSE /\ unchanged' = FALSE

-----------------------------------------------------------------------------
(* The user, who edits config.toml between commands; the managed keys only *)
(* while the product does not manage them.                                 *)
MayEdit == Idle \/ (EditWindow /\ pc \in {"prepared", "catalog", "health"})

EditRest ==
    /\ MayEdit /\ toml.rest < MaxEdits
    /\ toml' = [toml EXCEPT !.rest = @ + 1]
    /\ UNCHANGED <<config, key, state, plist, service, claim, command, own, died>>

EditUrl ==
    /\ Idle /\ ~Managed(state) /\ pc \notin {"crashed", "partly"}
    /\ \E url \in (Ports \union UserUrls) \ {toml.url} :
          toml' = [toml EXCEPT !.url = url] /\ own' = url
    /\ UNCHANGED <<config, key, state, plist, service, claim, command, died>>

-----------------------------------------------------------------------------
(* install.  What it reads at the start decides most of what it writes     *)
(* after the prompts and the network.                                      *)
Begin ==
    /\ Idle
    /\ \E port \in Ports, newKey \in Keys \union {None}, build \in Builds :
       \E option \in BOOLEAN, managedAnyway \in BOOLEAN :
          cmd' = [port |-> port, key |-> newKey, build |-> build, before |-> Snapshot,
                  manual |-> (option \/ (state # None /\ ~state.managed)) /\ ~(option /\ managedAnyway)]
    /\ pc' = "prepared" /\ UNCHANGED <<backup, claimed, launch, unchanged>>
    /\ UNCHANGED <<toml, config, key, state, plist, service, claim, own, died>>

(* switching and previousManaged.  A command never meets another, so what  *)
(* it reads after the network is what its snapshot holds.                  *)
Switching == cmd.before.state # None
PreviousManaged == Switching => Managed(cmd.before.state)

(* Variant: every managed install makes a backup. *)
BackupEach == ~cmd.manual

NeedsBackup == ~cmd.manual /\ (~Switching \/ ~PreviousManaged)

(* Declined, or the prompts or the network fail before anything changed. *)
Refuse ==
    /\ pc = "prepared"
    /\ End("idle")
    /\ UNCHANGED <<toml, config, key, state, plist, service, claim, own, died>>

(* Variant: the claim is taken for a first install only. *)
ClaimFresh ==
    /\ pc = "prepared"
    /\ claim' = (claim \/ (~cmd.manual /\ ~Switching))
    /\ pc' = "backup" /\ claimed' = (~cmd.manual /\ ~Switching /\ ~claim)
    /\ UNCHANGED <<cmd, backup, launch, unchanged>>
    /\ UNCHANGED <<toml, config, key, state, plist, service, own, died>>

(* claimCodexHome; its rollback undoes only a claim it made. *)
Claim ==
    /\ pc = "prepared"
    /\ claim' = (claim \/ ~cmd.manual)
    /\ pc' = "backup" /\ claimed' = (~cmd.manual /\ ~claim)
    /\ UNCHANGED <<cmd, backup, launch, unchanged>>
    /\ UNCHANGED <<toml, config, key, state, plist, service, own, died>>

(* backupConfig copies the file as it is now. *)
Backup ==
    /\ pc = "backup"
    /\ pc' = "key" /\ backup' = (IF NeedsBackup THEN toml ELSE None)
    /\ UNCHANGED <<cmd, claimed, launch, unchanged>>
    /\ UNCHANGED <<toml, config, key, state, plist, service, claim, own, died>>

SaveKey ==
    /\ pc = "key"
    /\ key' = cmd.key /\ Goto("catalog")
    /\ UNCHANGED <<toml, config, state, plist, service, claim, own, died>>

(* The catalog is rebuilt from the network; then config.json. *)
WriteConfig ==
    /\ pc = "catalog"
    /\ config' = cmd.port /\ Goto("toml")
    /\ UNCHANGED <<toml, key, state, plist, service, claim, own, died>>

Patched == [cmd.before.toml EXCEPT !.url = cmd.port]

(* restoreManagedCodexToml(paths, s, current). *)
Restored(s, current) ==
    IF s.hash = current THEN s.backup ELSE [current EXCEPT !.url = s.backup.url]

(* config.toml is patched from the text read at the start; a change to    *)
(* manual gives it back.                                                   *)
WriteToml ==
    LET gives == cmd.manual /\ Switching /\ PreviousManaged
        same  == IF cmd.manual THEN ~gives ELSE Patched = cmd.before.toml
    IN  /\ pc = "toml"
        /\ toml' = IF same THEN toml ELSE IF gives THEN Restored(state, cmd.before.toml) ELSE Patched
        /\ pc' = "state" /\ unchanged' = same
        /\ UNCHANGED <<cmd, backup, claimed, launch>>
        /\ UNCHANGED <<config, key, state, plist, service, claim, own, died>>

(* Variant: the hash follows whatever the install wrote. *)
NewStateAlways ==
    [managed |-> ~cmd.manual, restored |-> FALSE,
     backup |-> IF cmd.manual THEN None ELSE IF NeedsBackup THEN backup ELSE state.backup,
     hash |-> IF cmd.manual THEN None ELSE Patched]

(* state.json: a new cycle of management records backup and hash; within   *)
(* one the backup stays, and the hash follows only contents it knew.       *)
NewState ==
    [managed |-> ~cmd.manual, restored |-> FALSE,
     backup |-> IF cmd.manual THEN None ELSE IF NeedsBackup THEN backup ELSE state.backup,
     hash |-> IF cmd.manual THEN None
              ELSE IF NeedsBackup \/ (~unchanged /\ cmd.before.toml = state.hash) THEN Patched
              ELSE state.hash]

WriteState ==
    /\ pc = "state"
    /\ state' = NewState
    /\ pc' = "plist" /\ launch' = TRUE
    /\ UNCHANGED <<cmd, backup, claimed, unchanged>>
    /\ UNCHANGED <<toml, config, key, plist, service, claim, own, died>>

(* installLaunchAgent: the definition, then bootout of whatever runs, then *)
(* bootstrap and kickstart; the gateway reads config.json as it starts.    *)
WritePlist ==
    /\ pc = "plist"
    /\ plist' = cmd.build /\ Goto("bootout")
    /\ UNCHANGED <<toml, config, key, state, service, claim, own, died>>

Bootout ==
    /\ pc = "bootout"
    /\ service' = None /\ Goto("bootstrap")
    /\ UNCHANGED <<toml, config, key, state, plist, claim, own, died>>

Loaded == [build |-> plist, port |-> config]

Bootstrap ==
    /\ pc = "bootstrap"
    /\ service' = Loaded /\ Goto("health")
    /\ UNCHANGED <<toml, config, key, state, plist, claim, own, died>>

(* waitForHealth answers; a manual install releases the claim. *)
Finish ==
    /\ pc = "health"
    /\ claim' = (claim /\ ~cmd.manual) /\ End("installed")
    /\ UNCHANGED <<toml, config, key, state, plist, service, own, died>>

-----------------------------------------------------------------------------
(* The catch of installCurrent.  A backup that fails undoes the claim only;*)
(* later failures undo the files too, in the order of each branch.         *)
Undoing == {"undo toml", "undo key", "undo config", "undo state", "undo service", "undo files", "undo claim"}

Fail ==
    /\ pc \in {"backup", "key", "catalog", "toml", "state", "plist", "bootout", "bootstrap", "health"}
    /\ Goto(IF pc = "backup" THEN "undo claim"
            ELSE IF Switching THEN "undo toml" ELSE "undo service")
    /\ UNCHANGED <<toml, config, key, state, plist, service, claim, own, died>>

(* An install in place writes the text read at the start, unless it knows  *)
(* that the file was not to change; a first install restores the backup.   *)
UndoToml ==
    /\ pc = "undo toml"
    /\ toml' = IF Switching THEN IF unchanged THEN toml ELSE cmd.before.toml
               ELSE IF cmd.manual THEN toml ELSE backup
    /\ Goto("undo key")
    /\ UNCHANGED <<config, key, state, plist, service, claim, own, died>>

UndoKey ==
    /\ pc = "undo key"
    /\ key' = cmd.before.key
    /\ Goto(IF Switching THEN "undo config" ELSE "undo files")
    /\ UNCHANGED <<toml, config, state, plist, service, claim, own, died>>

(* removeManagedRuntimeFiles, in a first install. *)
UndoFiles ==
    /\ pc = "undo files"
    /\ config' = None /\ state' = None /\ Goto("undo config")
    /\ UNCHANGED <<toml, key, plist, service, claim, own, died>>

UndoConfig ==
    /\ pc = "undo config"
    /\ config' = IF cmd.before.config = None THEN config ELSE cmd.before.config
    /\ Goto(IF Switching THEN "undo state" ELSE "undo claim")
    /\ UNCHANGED <<toml, key, state, plist, service, claim, own, died>>

UndoState ==
    /\ pc = "undo state"
    /\ state' = cmd.before.state /\ Goto("undo service")
    /\ UNCHANGED <<toml, config, key, plist, service, claim, own, died>>

AfterService == IF Switching THEN "undo claim" ELSE "undo toml"

(* Variant: a mere kickstart, which keeps the definition that was loaded. *)
Kickstarted(old) == [build |-> IF service = None THEN old ELSE service.build, port |-> config]

(* What the service is after its undo: reloadLaunchAgent from the old      *)
(* definition if it had been loaded, stopLaunchAgent if not; without an    *)
(* old definition restartLaunchAgent in place, uninstallLaunchAgent else.  *)
Reloaded(old) == [build |-> old, port |-> config]

UndoService ==
    LET old == cmd.before.plist
    IN  /\ pc = "undo service"
        /\ (launch /\ Switching /\ old = None) => plist # None
        /\ IF ~launch THEN UNCHANGED <<plist, service>>
           ELSE /\ plist' = IF old # None \/ ~Switching THEN old ELSE plist
                /\ service' = IF old = None THEN IF Switching THEN Loaded ELSE None
                              ELSE IF cmd.before.service # None THEN Reloaded(old) ELSE None
        /\ Goto(AfterService)
        /\ UNCHANGED <<toml, config, key, state, claim, own, died>>

(* launchctl fails to bootstrap the old definition.  In place that is      *)
(* noted and the rest undone; in a first install the exception leaves the  *)
(* catch, and what is still to be undone stays.                            *)
UndoServiceFails ==
    LET old == cmd.before.plist
    IN  /\ pc = "undo service" /\ launch
        /\ IF old = None THEN Switching ELSE cmd.before.service # None
        /\ plist' = IF old = None THEN plist ELSE old
        /\ service' = None
        /\ IF Switching THEN Goto("undo claim") ELSE End("partly")
        /\ UNCHANGED <<toml, config, key, state, claim, own, died>>

(* rollbackCodexClaim.  The service that did not come back is reported. *)
UndoClaim ==
    /\ pc = "undo claim"
    /\ claim' = (claim /\ ~claimed)
    /\ End(IF launch /\ cmd.before.service # None /\ service = None THEN "partly" ELSE "failed")
    /\ UNCHANGED <<toml, config, key, state, plist, service, own, died>>

-----------------------------------------------------------------------------
(* uninstall, which a crash may leave anywhere and a retry resumes.        *)
Uninstall ==
    /\ Idle /\ state # None
    /\ cmd' = [port |-> None, key |-> None, build |-> None, before |-> Snapshot, manual |-> ~Managed(state)]
    /\ pc' = "remove service" /\ UNCHANGED <<backup, claimed, launch, unchanged>>
    /\ UNCHANGED <<toml, config, key, state, plist, service, claim, own, died>>

RemoveService ==
    /\ pc = "remove service"
    /\ service' = None /\ plist' = None
    /\ Goto(IF cmd.manual THEN "delete key" ELSE "restore toml")
    /\ UNCHANGED <<toml, config, key, state, claim, own, died>>

(* config.toml is read and restored without a wait in between. *)
RestoreToml ==
    /\ pc = "restore toml"
    /\ toml' = Restored(state, toml) /\ Goto("mark")
    /\ UNCHANGED <<config, key, state, plist, service, claim, own, died>>

MarkRestored ==
    /\ pc = "mark"
    /\ state' = [state EXCEPT !.restored = TRUE] /\ Goto("delete key")
    /\ UNCHANGED <<toml, config, key, plist, service, claim, own, died>>

DeleteKey ==
    /\ pc = "delete key"
    /\ key' = None /\ Goto("release")
    /\ UNCHANGED <<toml, config, state, plist, service, claim, own, died>>

Release ==
    /\ pc = "release"
    /\ claim' = FALSE /\ Goto("remove state")
    /\ UNCHANGED <<toml, config, key, state, plist, service, own, died>>

RemoveState ==
    /\ pc = "remove state"
    /\ state' = None /\ End("uninstalled")
    /\ UNCHANGED <<toml, config, key, plist, service, claim, own, died>>

(* The command is killed, or the machine stops, between two writes. *)
Crash ==
    /\ Crashes /\ ~Idle
    /\ End("crashed") /\ died' = TRUE
    /\ UNCHANGED <<toml, config, key, state, plist, service, claim, own>>

-----------------------------------------------------------------------------
(* No installation, or what an older one left: a service definition and    *)
(* config.json whose state.json is gone.                                   *)
Init ==
    /\ toml \in [url : UserUrls, rest : {0}] /\ own = toml.url
    /\ key = None /\ state = None /\ claim = FALSE
    /\ \/ config = None /\ plist = None /\ service = None
       \/ /\ config \in Ports /\ plist \in Builds
          /\ service \in {None, Loaded}
    /\ pc = "idle" /\ cmd = None /\ backup = None
    /\ claimed = FALSE /\ launch = FALSE /\ unchanged = FALSE /\ died = FALSE

Install == \/ Begin \/ Refuse \/ Claim \/ Backup \/ SaveKey \/ WriteConfig \/ WriteToml
           \/ WriteState \/ WritePlist \/ Bootout \/ Bootstrap \/ Finish
Undo == \/ Fail \/ UndoToml \/ UndoKey \/ UndoFiles \/ UndoConfig \/ UndoState
        \/ UndoService \/ UndoServiceFails \/ UndoClaim
Remove == Uninstall \/ RemoveService \/ RestoreToml \/ MarkRestored \/ DeleteKey \/ Release \/ RemoveState

Next == EditRest \/ EditUrl \/ Install \/ Undo \/ Remove \/ Crash

Spec == Init /\ [][Next]_vars

-----------------------------------------------------------------------------
(* Properties.                                                             *)

Snapshots == [toml : Tomls, config : Ports \union {None}, key : Keys \union {None},
              state : States \union {None}, plist : Builds \union {None},
              service : [build : Builds, port : Ports] \union {None}, claim : BOOLEAN]

Places == Quiet \union Undoing \union
    {"prepared", "backup", "key", "catalog", "toml", "state", "plist", "bootout", "bootstrap", "health",
     "remove service", "restore toml", "mark", "delete key", "release", "remove state"}

(* Types; and a home that manages config.toml can always give it back. *)
TypeOK ==
    /\ Snapshot \in Snapshots /\ own \in Ports \union UserUrls
    /\ Managed(state) => state.backup # None /\ state.hash # None
    /\ pc \in Places /\ backup \in Tomls \union {None}
    /\ {claimed, launch, unchanged, died} \subseteq BOOLEAN
    /\ cmd \in {None} \union [port : Ports \union {None}, key : Keys \union {None},
                             build : Builds \union {None}, before : Snapshots, manual : BOOLEAN]

(* While state.json says that this home manages config.toml, the claim on  *)
(* Codex's directory is its own: through every update, change of mode,     *)
(* failure, crash and retry (the other homes look at nothing else).        *)
ManagedHasClaim == Managed(state) => claim

(* No command takes back an edit the user made to the rest of config.toml: *)
(* the backup replaces the whole file only when it holds the same edits    *)
(* (restoreManagedCodexToml, installedConfigHash).                         *)
EditsSurvive == [][toml'.rest >= toml.rest]_vars

(* A service that ran without state.json or not as the files say, or that  *)
(* launchctl does not start again, cannot be put back.                     *)
Restorable(s) ==
    /\ IF s.state # None THEN s.plist # None ELSE s.service = None
    /\ s.service # None => s.service = [build |-> s.plist, port |-> s.config]

(* Commands restore what was there.  An install that fails puts every file, *)
(* the service and the claim back as they were, wherever it failed          *)
(* (comments in the catch); once uninstall has finished, the managed keys   *)
(* are what the user had, unless a command died (comment on                 *)
(* restoreManagedCodexToml).                                                *)
CommandsRestore ==
    [][/\ (pc = "undo claim" /\ pc' = "failed" /\ Restorable(cmd.before))
              => Snapshot' = cmd.before
       /\ (pc' = "uninstalled" /\ ~died') => toml'.url = own']_vars

=============================================================================
