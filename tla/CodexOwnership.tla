--------------------------- MODULE CodexOwnership ---------------------------
(***************************************************************************)
(* Which runtime home manages one Codex directory: the owner file of       *)
(* apps/gateway/src/codex-ownership.ts, and the commands of cli.ts that    *)
(* ask for it, take it and give it up.                                     *)
(*                                                                         *)
(* Homes know of each other only by files: the owner file under its new    *)
(* and its old name, and, for installations older than that file, the      *)
(* state.json of the default homes and the service definitions.  Every     *)
(* look at the files and every write is a step; between two steps other    *)
(* homes take theirs.  One home runs one command at a time.                *)
(*                                                                         *)
(* The owner file is the home it names: a file that names h is made by h   *)
(* alone, so "the same inode" is "made by this command and still there".   *)
(***************************************************************************)
EXTENDS Integers

CONSTANTS
    Homes,      \* runtime homes whose CODEX_HOME is this directory
    Defaults,   \* those in the default place, old or new
    NoHome

ASSUME HomesAssumption == Defaults \subseteq Homes /\ NoHome \notin Homes \union {"managed", "manual", "restored"}

VARIABLES
    owner,       \* the home .agent-proxy-owner.json names, or NoHome
    legacy,      \* the home .codex-cliproxy-owner.json names, or NoHome
    client,      \* the home whose gateway config.toml names, or NoHome
    homeState,   \* per home: codexConfigManaged and uninstallClientRestored
    homePlist,   \* per home: is there a service definition?
    homeStep,    \* per home: the place of its command, or how the last one ended
    job,         \* per home: its command
    made,        \* per home: how its command came by the owner file
    before       \* per home: what the command found

claims  == <<owner, legacy>>
homeCommand == <<homeStep, job, made, before>>
ownVars == <<claims, client, homeState, homePlist, homeCommand>>

(* "made" is the identity of claimCodexHome; "gone", of which the code      *)
(* keeps no trace, a claim in its way that was not there at a second look. *)
Ways == {"none", "made", "gone"}

OwnQuiet  == {"idle", "uninstalled"}
Modes  == {"managed", "manual", "restored"}
Jobs   == {"none", "ask", "install", "manual", "uninstall"}

OwnGoto(h, place) == homeStep' = [homeStep EXCEPT ![h] = place] /\ UNCHANGED <<job, made, before>>

Nothing == [client |-> NoHome, state |-> NoHome, plist |-> FALSE]

OwnEnd(h, place) ==
    /\ homeStep' = [homeStep EXCEPT ![h] = place] /\ job' = [job EXCEPT ![h] = "none"]
    /\ made' = [made EXCEPT ![h] = "none"] /\ before' = [before EXCEPT ![h] = Nothing]

Found(h) == [client |-> client, state |-> homeState[h], plist |-> homePlist[h]]

(* switching *)
OwnSwitching(h) == before[h].state # NoHome

-----------------------------------------------------------------------------
(* A managed install asks first, then reads what it needs.  Manual mode    *)
(* asks nothing.  uninstall asks if there is something to give back.       *)
OwnBegin(h) ==
    /\ homeStep[h] \in OwnQuiet
    /\ \E j \in {"ask", "manual", "uninstall"} :
          /\ j = "uninstall" => homeState[h] # NoHome
          /\ job' = [job EXCEPT ![h] = j]
          /\ homeStep' = [homeStep EXCEPT ![h] = IF j = "manual" THEN "write"
                                     ELSE IF j = "uninstall" /\ homeState[h] # "managed" THEN "remove"
                                     ELSE "look"]
          /\ before' = [before EXCEPT ![h] =
                IF j = "manual" THEN Found(h) ELSE IF j = "uninstall" THEN [Nothing EXCEPT !.state = homeState[h]]
                ELSE Nothing]
    /\ UNCHANGED <<claims, client, homeState, homePlist, made>>

(* readOwnerAny, where the new name exists: both names must agree. *)
Look(h) ==
    /\ homeStep[h] = "look"
    /\ IF owner = NoHome THEN OwnGoto(h, "look again")
       ELSE IF owner = h /\ legacy \in {NoHome, h} THEN OwnGoto(h, "states")
       ELSE OwnEnd(h, "idle")
    /\ UNCHANGED <<claims, client, homeState, homePlist>>

(* It did not: the old name decides, whatever has happened to the new one. *)
LookLegacy(h) ==
    /\ homeStep[h] = "look again"
    /\ IF legacy \in {NoHome, h} THEN OwnGoto(h, "states") ELSE OwnEnd(h, "idle")
    /\ UNCHANGED <<claims, client, homeState, homePlist>>

(* assertLegacyOwners: the state.json of the default homes. *)
StateClaims(g) == homeState[g] = "managed"

CheckStates(h) ==
    /\ homeStep[h] = "states"
    /\ IF \E g \in Defaults \ {h} : StateClaims(g) THEN OwnEnd(h, "idle") ELSE OwnGoto(h, "plists")
    /\ UNCHANGED <<claims, client, homeState, homePlist>>

(* Then every service definition, unless its state.json disclaims it. *)
ServiceClaims(g) == homePlist[g] /\ homeState[g] \notin {"manual", "restored"}

CheckServices(h) ==
    /\ homeStep[h] = "plists"
    /\ IF \E g \in Homes \ {h} : ServiceClaims(g) THEN OwnEnd(h, "idle")
       ELSE OwnGoto(h, IF job[h] = "ask" THEN "read" ELSE IF job[h] = "install" THEN "adopt" ELSE "remove")
    /\ UNCHANGED <<claims, client, homeState, homePlist>>

(* The files are read; after prompts and network claimCodexHome asks again.*)
Read(h) ==
    /\ homeStep[h] = "read"
    /\ homeStep' = [homeStep EXCEPT ![h] = "look"] /\ job' = [job EXCEPT ![h] = "install"]
    /\ before' = [before EXCEPT ![h] = Found(h)]
    /\ UNCHANGED <<claims, client, homeState, homePlist, made>>

-----------------------------------------------------------------------------
(* claimCodexHome.  adoptOwnerFile looks at both names ...                 *)
Adopt(h) ==
    /\ homeStep[h] = "adopt"
    /\ IF legacy = NoHome THEN OwnGoto(h, "own")
       ELSE IF owner = NoHome THEN OwnGoto(h, "rename")
       ELSE IF legacy \in {owner, h} THEN OwnGoto(h, "clean")
       ELSE OwnEnd(h, "idle")
    /\ UNCHANGED <<claims, client, homeState, homePlist>>

(* ... renames the old one, which replaces the new one if there is one by  *)
(* now (and fails if the old one has gone) ...                             *)
Rename(h) ==
    /\ homeStep[h] = "rename"
    /\ IF legacy = NoHome THEN OwnEnd(h, "idle") /\ UNCHANGED claims
       ELSE OwnGoto(h, "own") /\ owner' = legacy /\ legacy' = NoHome
    /\ UNCHANGED <<client, homeState, homePlist>>

(* ... or removes it beside the new one. *)
Clean(h) ==
    /\ homeStep[h] = "clean"
    /\ legacy' = NoHome /\ OwnGoto(h, "own")
    /\ UNCHANGED <<owner, client, homeState, homePlist>>

Own(h) ==
    /\ homeStep[h] = "own"
    /\ IF owner = NoHome THEN OwnGoto(h, "link") ELSE IF owner = h THEN OwnGoto(h, "backup") ELSE OwnEnd(h, "idle")
    /\ UNCHANGED <<claims, client, homeState, homePlist>>

(* linkSync makes the file only if there is none. *)
Link(h) ==
    /\ homeStep[h] = "link"
    /\ IF owner = NoHome
       THEN /\ owner' = h /\ homeStep' = [homeStep EXCEPT ![h] = "backup"] /\ made' = [made EXCEPT ![h] = "made"]
            /\ UNCHANGED <<job, before>>
       ELSE OwnGoto(h, "exists") /\ UNCHANGED owner
    /\ UNCHANGED <<legacy, client, homeState, homePlist>>

(* Variant: after EEXIST nobody looks who was first. *)
LinkExistsUnread(h) ==
    /\ homeStep[h] = "exists" /\ OwnGoto(h, "backup")
    /\ UNCHANGED <<claims, client, homeState, homePlist>>

(* EEXIST: assertOwner(readOwner(file)), which finds no fault with a claim *)
(* that has gone meanwhile: then the command goes on without one.          *)
LinkExists(h) ==
    /\ homeStep[h] = "exists"
    /\ IF owner = NoHome
       THEN /\ homeStep' = [homeStep EXCEPT ![h] = "backup"] /\ made' = [made EXCEPT ![h] = "gone"]
            /\ UNCHANGED <<job, before>>
       ELSE IF owner = h THEN OwnGoto(h, "backup") ELSE OwnEnd(h, "idle")
    /\ UNCHANGED <<claims, client, homeState, homePlist>>

-----------------------------------------------------------------------------
(* installCurrent.  backupConfig, of config.toml as it is by now, which a  *)
(* first install that fails puts back.                                     *)
OwnBackup(h) ==
    /\ homeStep[h] = "backup" /\ homeStep' = [homeStep EXCEPT ![h] = "write"]
    /\ before' = IF OwnSwitching(h) THEN before ELSE [before EXCEPT ![h].client = client]
    /\ UNCHANGED <<claims, client, homeState, homePlist, job, made>>

(* The writes that other homes can see.  config.toml is made from what was *)
(* read, and not written if that needs no change; where a home stays in    *)
(* manual mode it is not touched, and the copy read is of no more use.     *)
OwnWriteToml(h) ==
    LET stays == job[h] = "manual" /\ before[h].state # "managed" IN
    /\ homeStep[h] = "write" /\ homeStep' = [homeStep EXCEPT ![h] = "state"]
    /\ IF job[h] = "install" THEN client' = h \/ (before[h].client = h /\ client' = client)
       ELSE client' = IF stays THEN client ELSE NoHome
    /\ before' = IF stays THEN [before EXCEPT ![h].client = NoHome] ELSE before
    /\ UNCHANGED <<claims, homeState, homePlist, job, made>>

OwnWriteState(h) ==
    /\ homeStep[h] = "state"
    /\ homeState' = [homeState EXCEPT ![h] = IF job[h] = "install" THEN "managed" ELSE "manual"]
    /\ OwnGoto(h, "plist")
    /\ UNCHANGED <<claims, client, homePlist>>

OwnWritePlist(h) ==
    /\ homeStep[h] = "plist"
    /\ homePlist' = [homePlist EXCEPT ![h] = TRUE] /\ OwnGoto(h, "finish")
    /\ UNCHANGED <<claims, client, homeState>>

OwnFinish(h) ==
    /\ homeStep[h] = "finish"
    /\ IF job[h] = "manual" THEN OwnGoto(h, "release") ELSE OwnEnd(h, "idle")
    /\ UNCHANGED <<claims, client, homeState, homePlist>>

(* The catch.  A failure of the backup undoes the claim only.  An update   *)
(* puts config.toml back as it was read, unless it was found in no need of *)
(* a write; before that is known it does so in either mode.                *)
OwnFail(h) ==
    /\ \/ /\ homeStep[h] = "backup" /\ before[h].state # "managed" /\ OwnGoto(h, "undo claim")
       \/ /\ homeStep[h] = "write"
          /\ OwnGoto(h, IF OwnSwitching(h) THEN "undo toml" ELSE "undo plist")
       \/ /\ homeStep[h] \in {"state", "plist", "finish"}
          /\ OwnGoto(h, IF ~OwnSwitching(h) THEN "undo plist"
                     ELSE IF job[h] = "manual" /\ before[h].state # "managed" THEN "undo state"
                     ELSE "undo toml")
       \/ /\ homeStep[h] \in {"state", "plist", "finish"}
          /\ OwnSwitching(h) /\ job[h] = "install" /\ before[h].client = h
          /\ OwnGoto(h, "undo state")
    /\ UNCHANGED <<claims, client, homeState, homePlist>>

(* The copy has served then. *)
OwnUndoToml(h) ==
    /\ homeStep[h] = "undo toml" /\ homeStep' = [homeStep EXCEPT ![h] = "undo state"]
    /\ client' = IF OwnSwitching(h) \/ job[h] = "install" THEN before[h].client ELSE client
    /\ before' = [before EXCEPT ![h].client = NoHome]
    /\ UNCHANGED <<claims, homeState, homePlist, job, made>>

OwnUndoState(h) ==
    /\ homeStep[h] = "undo state"
    /\ homeState' = [homeState EXCEPT ![h] = before[h].state]
    /\ OwnGoto(h, IF OwnSwitching(h) THEN "undo plist" ELSE "undo claim")
    /\ UNCHANGED <<claims, client, homePlist>>

UndoPlist(h) ==
    /\ homeStep[h] = "undo plist"
    /\ homePlist' = [homePlist EXCEPT ![h] = before[h].plist \/ (OwnSwitching(h) /\ homePlist[h])]
    /\ OwnGoto(h, IF OwnSwitching(h) THEN "undo claim" ELSE "undo toml")
    /\ UNCHANGED <<claims, client, homeState>>

(* Variant: the rollback does not ask who made the claim. *)
UndoClaimAlways(h) ==
    /\ homeStep[h] = "undo claim"
    /\ IF job[h] = "install" THEN OwnGoto(h, "release") ELSE OwnEnd(h, "idle")
    /\ UNCHANGED <<claims, client, homeState, homePlist>>

(* The function claimCodexHome returned. *)
OwnUndoClaim(h) ==
    /\ homeStep[h] = "undo claim"
    /\ IF made[h] = "made" /\ owner = h THEN OwnGoto(h, "release") ELSE OwnEnd(h, "idle")
    /\ UNCHANGED <<claims, client, homeState, homePlist>>

-----------------------------------------------------------------------------
(* releaseCodexHome: each name is read, and removed if it names this home. *)
AfterRelease(h) ==
    CASE job[h] = "uninstall" -> OwnGoto(h, "remove state")
      [] job[h] = "manual" -> OwnEnd(h, "idle")
      [] OTHER -> OwnEnd(h, "idle")

ReleaseOwner(h) ==
    /\ homeStep[h] = "release"
    /\ OwnGoto(h, IF owner = h THEN "drop owner" ELSE "release legacy")
    /\ UNCHANGED <<claims, client, homeState, homePlist>>

DropOwner(h) ==
    /\ homeStep[h] = "drop owner"
    /\ owner' = NoHome /\ OwnGoto(h, "release legacy")
    /\ UNCHANGED <<legacy, client, homeState, homePlist>>

ReleaseLegacy(h) ==
    /\ homeStep[h] = "release legacy"
    /\ IF legacy = h THEN OwnGoto(h, "drop legacy") ELSE AfterRelease(h)
    /\ UNCHANGED <<claims, client, homeState, homePlist>>

DropLegacy(h) ==
    /\ homeStep[h] = "drop legacy"
    /\ legacy' = NoHome /\ AfterRelease(h)
    /\ UNCHANGED <<owner, client, homeState, homePlist>>

-----------------------------------------------------------------------------
(* uninstall. *)
OwnRemove(h) ==
    /\ homeStep[h] = "remove"
    /\ homePlist' = [homePlist EXCEPT ![h] = FALSE]
    /\ OwnGoto(h, IF before[h].state = "managed" THEN "restore" ELSE "release")
    /\ UNCHANGED <<claims, client, homeState>>

Restore(h) ==
    /\ homeStep[h] = "restore"
    /\ client' = NoHome /\ OwnGoto(h, "mark")
    /\ UNCHANGED <<claims, homeState, homePlist>>

OwnMarkRestored(h) ==
    /\ homeStep[h] = "mark"
    /\ homeState' = [homeState EXCEPT ![h] = "restored"] /\ OwnGoto(h, "release")
    /\ UNCHANGED <<claims, client, homePlist>>

OwnRemoveState(h) ==
    /\ homeStep[h] = "remove state"
    /\ homeState' = [homeState EXCEPT ![h] = NoHome] /\ OwnEnd(h, "uninstalled")
    /\ UNCHANGED <<claims, client, homePlist>>

OwnCrash(h) ==
    /\ homeStep[h] \notin OwnQuiet
    /\ OwnEnd(h, "idle")
    /\ UNCHANGED <<claims, client, homeState, homePlist>>

-----------------------------------------------------------------------------
(* At most one home manages the directory, by a claim under either name or *)
(* both, or from before there were claims; others are there in manual mode.*)
OwnInit ==
    /\ client \in Homes \union {NoHome}
    /\ homeState \in [Homes -> {NoHome, "managed", "manual"}]
    /\ \A h \in Homes : homeState[h] = "managed" <=> client = h
    /\ homePlist = [h \in Homes |-> homeState[h] # NoHome]
    /\ owner \in {NoHome, client} /\ legacy \in {NoHome, client}
    /\ homeStep = [h \in Homes |-> "idle"] /\ job = [h \in Homes |-> "none"]
    /\ made = [h \in Homes |-> "none"]
    /\ before = [h \in Homes |-> Nothing]

Ask(h) == OwnBegin(h) \/ Look(h) \/ LookLegacy(h) \/ CheckStates(h) \/ CheckServices(h) \/ Read(h)
Take(h) == Adopt(h) \/ Rename(h) \/ Clean(h) \/ Own(h) \/ Link(h) \/ LinkExists(h)
Work(h) == OwnBackup(h) \/ OwnWriteToml(h) \/ OwnWriteState(h) \/ OwnWritePlist(h) \/ OwnFinish(h)
OwnUndo(h) == OwnFail(h) \/ OwnUndoToml(h) \/ OwnUndoState(h) \/ UndoPlist(h) \/ OwnUndoClaim(h)
OwnRelease(h) == ReleaseOwner(h) \/ DropOwner(h) \/ ReleaseLegacy(h) \/ DropLegacy(h)
OwnUninstall(h) == OwnRemove(h) \/ Restore(h) \/ OwnMarkRestored(h) \/ OwnRemoveState(h)

OwnNext == \E h \in Homes : Ask(h) \/ Take(h) \/ Work(h) \/ OwnUndo(h) \/ OwnRelease(h) \/ OwnUninstall(h) \/ OwnCrash(h)

OwnSpec == OwnInit /\ [][OwnNext]_ownVars

-----------------------------------------------------------------------------
(* Properties.                                                             *)

Working == {"backup", "write", "state", "plist", "finish", "undo toml", "undo state", "undo plist"}

OwnPlaces == OwnQuiet \union Working \union
    {"look", "look again", "states", "plists", "read", "adopt", "rename", "clean", "own", "link", "exists",
     "undo claim", "release", "drop owner", "release legacy", "drop legacy",
     "remove", "restore", "mark", "remove state"}

(* Types; the two names agree; and a claim that a command made stays its   *)
(* own until the command gives it up.                                      *)
OwnTypeOK ==
    /\ {owner, legacy, client} \subseteq Homes \union {NoHome}
    /\ owner # NoHome /\ legacy # NoHome => owner = legacy
    /\ \A h \in Homes : made[h] = "made" => owner = h \/ homeStep[h] \in {"release legacy", "drop legacy"}
    /\ homeState \in [Homes -> Modes \union {NoHome}] /\ homePlist \in [Homes -> BOOLEAN]
    /\ homeStep \in [Homes -> OwnPlaces] /\ job \in [Homes -> Jobs] /\ made \in [Homes -> Ways]
    /\ before \in [Homes -> [client : Homes \union {NoHome}, state : Modes \union {NoHome}, plist : BOOLEAN]]

(* A managed install that writes, or undoes what it wrote, has the owner   *)
(* file to itself: two never change config.toml together, and no parallel  *)
(* claim is overwritten (comments on claimCodexHome).  The exception is an *)
(* install that met a claim which was gone when it looked who had it.      *)
ClaimHolds ==
    \A h \in Homes : homeStep[h] \in Working /\ job[h] = "install" => owner = h \/ made[h] = "gone"

(* A claim comes and goes by the steps of the home it names alone, under   *)
(* whichever name it stands; and it does not go while state.json says that *)
(* the home manages the directory, whatever fails, dies or runs beside it: *)
(* only the command that made it may take it back (claimCodexHome,         *)
(* releaseCodexHome, and the order of uninstall and of a change of mode).  *)
HasClaim(h) == h \in {owner, legacy}
ClaimsAreOwn ==
    [][\A h \in Homes :
          /\ HasClaim(h) # HasClaim(h)' => homeStep'[h] # homeStep[h]
          /\ HasClaim(h) /\ ~HasClaim(h)' => homeState[h] # "managed" \/ made[h] = "made"]_ownVars

(* After uninstall neither name claims the directory for the home, so the  *)
(* old name cannot come back to life (comment on adoptOwnerFile).          *)
NoRevival == \A h \in Homes : homeStep[h] = "uninstalled" => h \notin {owner, legacy}
=============================================================================
