------------------------------ MODULE MCServices ------------------------------
(* The settings of a home, the service behind the Antigravity plugin, and   *)
(* the catalog and the tools of OpenCode Zen, for TLC.  The parts share no  *)
(* state: a behaviour is one of one part, beside which the others rest.     *)
EXTENDS HomeSettings, AgyService, ZenService, ZenTools, TLC

CONSTANTS high, mid, low, solo, old,            \* models of Antigravity
          zenFree, zenOther, zenBarred,         \* models of OpenCode Zen
          read, spawn, wait, waitFor, other     \* names of tools

VARIABLE part

(* A family of three tiers, a deprecated name, and accounts that are offered *)
(* two tiers or only one.                                                   *)
SomeTiers == ("high" :> high) @@ ("medium" :> mid) @@ ("low" :> low)
SomeMoved == old :> solo
SomeLists == {{high, low}, {mid, solo}}

(* A list of models that is empty or whole; metadata that know one model or *)
(* two, of which one is no longer offered.                                  *)
Fact(f, o) == [free |-> f, old |-> o]
SomeZenLists == {{}, {zenFree, zenOther, zenBarred}}
SomeZenMetas == {zenOther :> Fact(TRUE, FALSE),
                 (zenOther :> Fact(TRUE, TRUE)) @@ (zenFree :> Fact(TRUE, FALSE))}

(* Names of a refused pair, also in the form that renaming gives them and   *)
(* in another case.                                                         *)
SomePairs == {<<{spawn}, {wait, waitFor}>>}
SomeNames == {Plain(b) : b \in {read, spawn, wait, waitFor}}
             \union {[Plain(wait) EXCEPT !.cut = TRUE], [Plain(wait) EXCEPT !.caps = TRUE]}

-----------------------------------------------------------------------------
agyRest == /\ keychain = "none" /\ tokenFile = "none" /\ manual = TRUE /\ starting = FALSE
           /\ offered = [who \in Accounts |-> {high, low}]
           /\ ServiceInit
zenServiceRest ==
    /\ zenList = {} /\ zenMeta = zenOther :> Fact(TRUE, FALSE)
    /\ zenManual = TRUE /\ zenStarting = FALSE /\ ZenInit
toolsRest == /\ upstreamOf = "gemini" /\ clientOf = "gemini" /\ streaming = FALSE
             /\ muse = FALSE /\ declared = <<>> /\ ZenToolInit

(* The accounts of Antigravity are offered different models; the file has a *)
(* good token when the plugin starts, and so may the keychain, except in    *)
(* manual mode.  A catalog of OpenCode Zen has models then, of which one    *)
(* has metadata.                                                            *)
agyBegins ==
    /\ ServiceInit /\ tokenFile = "good" /\ starting
    /\ keychain \in (IF manual THEN {"none"} ELSE {"none", "good"})
    /\ offered["file"] = {mid, solo} /\ offered["keychain"] = {high, low}
zenBegins == ZenInit /\ zenList # {} /\ zenStarting /\ DOMAIN zenMeta = {zenOther}

settingsRest == SettingsInit /\ ~ownToml /\ ~home.conf.static

(* A home with a config.toml of the user's own begins in the other mode.    *)
settingsBegin == SettingsInit /\ (ownToml => ~home.conf.static)

ServicesInit ==
    \/ part = "settings" /\ settingsBegin /\ agyRest /\ zenServiceRest /\ toolsRest
    \/ part = "agy" /\ settingsRest /\ agyBegins /\ zenServiceRest /\ toolsRest
    \/ part = "zen" /\ settingsRest /\ agyRest /\ zenBegins /\ toolsRest
    \/ part = "tools" /\ settingsRest /\ agyRest /\ zenServiceRest /\ ZenToolInit

ServicesNext ==
    \/ part = "settings" /\ SettingsNext /\ UNCHANGED <<part, serviceVars, zenVars, zenToolVars>>
    \/ part = "agy" /\ ServiceNext /\ UNCHANGED <<part, settingVars, zenVars, zenToolVars>>
    \/ part = "zen" /\ ZenNext /\ UNCHANGED <<part, settingVars, serviceVars, zenToolVars>>
    \/ part = "tools" /\ ZenToolNext /\ UNCHANGED <<part, settingVars, serviceVars, zenVars>>

ServicesSpec ==
    ServicesInit /\ [][ServicesNext]_<<part, settingVars, serviceVars, zenVars, zenToolVars>>
=============================================================================
