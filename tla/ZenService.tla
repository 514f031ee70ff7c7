----------------------------- MODULE ZenService -----------------------------
(***************************************************************************)
(* The model catalog of the OpenCode Zen plugin                            *)
(* (packages/opencode-zen/src: catalog.ts, index.ts).                      *)
(*                                                                         *)
(* The catalog is fetched in one round at a time, of three steps: the list *)
(* of models, the metadata that tell which are free, and probes of those   *)
(* the metadata do not know.  Each step may fail by itself, and the round  *)
(* goes on with what was known before.  What is shown is computed from all *)
(* three.                                                                  *)
(***************************************************************************)
EXTENDS Naturals, FiniteSets

CONSTANTS
    ZenCallers,     \* those who list, refresh or reload the catalog
    ZenIds,         \* models
    FreeNamed,      \* those whose name ends in -free
    Barred,         \* those of a barred family
    ZenLists,       \* the lists of models the upstream may have
    ZenMetas,       \* the metadata it may have
    MaxZenChanges,  \* bound: changes upstream
    NoZen           \* nothing, nobody

Facts == [free : BOOLEAN, old : BOOLEAN]
Results == {"served", "drop"}
Values == [ids : SUBSET ZenIds, meta : ZenMetas \union {NoZen}, fresh : BOOLEAN, metaFresh : BOOLEAN,
           verdicts : UNION {[d -> Results] : d \in SUBSET FreeNamed}]
RoundType == [step : {"list", "meta", "probe"}, forced : BOOLEAN, deep : BOOLEAN,
              value : Values \union {NoZen}]

ASSUME ZenAssumption ==
    /\ FreeNamed \subseteq ZenIds /\ Barred \subseteq ZenIds
    /\ ZenLists \subseteq SUBSET ZenIds
    /\ \A m \in ZenMetas : DOMAIN m \subseteq ZenIds /\ \A i \in DOMAIN m : m[i] \in Facts
    /\ MaxZenChanges \in Nat
    /\ NoZen \notin RoundType \union Values

VARIABLES
    zenList, zenMeta,   \* what the upstream has
    zenManual,          \* catalogMode
    zenCached,          \* cached
    zenDisk,            \* opencode-zen-metadata.json
    zenCooling,         \* retryAt is to come
    metaCooling,        \* metadataRetryAt is to come
    zenRound,           \* refreshing
    zenStarting,        \* startup is pending
    caller,             \* where each caller is
    zenClosed,
    zenChanges,
    metaFailed,         \* the last round had to do without new metadata
    dropped             \* the models which the probes of the last round refused

zenWorld == <<zenList, zenMeta, zenManual, zenChanges>>
zenStore == <<zenCached, zenDisk, zenCooling, metaCooling, zenRound, metaFailed, dropped>>
zenVars == <<zenWorld, zenStore, zenStarting, caller, zenClosed>>

Snapshot(ids, meta, verdicts, fresh, metaFresh) ==
    [ids |-> ids, meta |-> meta, verdicts |-> verdicts, fresh |-> fresh, metaFresh |-> metaFresh]

(* A round: where it is, whether it was forced, for the metadata as well,   *)
(* and the value it is building.                                            *)
Round(step, forced, deep, value) ==
    [step |-> step, forced |-> forced, deep |-> deep, value |-> value]

ZenInit ==
    /\ zenList \in ZenLists /\ zenMeta \in ZenMetas /\ zenManual \in BOOLEAN
    /\ zenChanges = 0
    /\ zenCached = NoZen /\ zenDisk = NoZen /\ zenCooling = FALSE /\ metaCooling = FALSE
    /\ zenStarting \in BOOLEAN
    /\ zenRound = IF zenStarting THEN Round("list", TRUE, TRUE, NoZen) ELSE NoZen
    /\ metaFailed = FALSE /\ dropped = {}
    /\ caller = [c \in ZenCallers |-> "idle"]
    /\ zenClosed = FALSE

-----------------------------------------------------------------------------
(* filterOpencodeZenCatalogIds: barred families never; by the metadata, if  *)
(* they have the model; else by its name, unless the probes refused it.     *)
Shown(c) ==
    LET visible(id) ==
            IF c.meta # NoZen /\ id \in DOMAIN c.meta THEN c.meta[id].free /\ ~c.meta[id].old
            ELSE /\ id \in FreeNamed
                 /\ c.meta # NoZen => ~(id \in DOMAIN c.verdicts /\ c.verdicts[id] = "drop")
    IN IF c = NoZen THEN {} ELSE {id \in c.ids \ Barred : visible(id)}

Loaded(c) == IF c = NoZen THEN zenDisk ELSE c

(* refresh, until the first await: a round in progress is joined, whatever  *)
(* it was started for; else one starts if it must.                          *)
Starts(forced) ==
    forced \/ (~zenCooling /\ (Loaded(zenCached) = NoZen \/ ~Loaded(zenCached).fresh))
BeginRound(forced, deep) ==
    /\ zenCached' = Loaded(zenCached)
    /\ zenRound' = IF Starts(forced) THEN Round("list", forced, deep, NoZen) ELSE NoZen

(* The list is there: the value starts from it and from the metadata and    *)
(* the verdicts of before.                                                  *)

(* Variant: the value does not take over the metadata of before. *)
CarriedNothing(list) ==
    Snapshot(list, NoZen, IF zenCached = NoZen THEN <<>> ELSE zenCached.verdicts, TRUE, FALSE)

Carried(list) ==
    IF zenCached = NoZen THEN Snapshot(list, NoZen, <<>>, TRUE, FALSE)
    ELSE Snapshot(list, zenCached.meta, zenCached.verdicts, TRUE, zenCached.metaFresh)
ListArrives ==
    /\ zenRound # NoZen /\ zenRound.step = "list"
    /\ zenRound' = [zenRound EXCEPT !.step = "meta", !.value = Carried(zenList)]
    /\ UNCHANGED <<zenWorld, zenCached, zenDisk, zenCooling, metaCooling, metaFailed, dropped,
                   zenStarting, caller, zenClosed>>

(* Those who wait for the round go on, in error if it was one: the start    *)
(* of the plugin is awaited by refreshCatalog as well.                      *)
Next1(stage, error) ==
    CASE stage = "listing" -> "idle"
      [] stage = "forcing" -> IF error THEN "idle" ELSE "list"
      [] stage = "reloading" -> IF error THEN "idle" ELSE "reload"
      [] stage = "startList" -> "list" [] stage = "startReload" -> "ask"
      [] OTHER -> stage
Released(error) == caller' = [c \in ZenCallers |-> Next1(caller[c], error)]

(* The list fails: what there was before is kept.                           *)
ListFails ==
    /\ zenRound # NoZen /\ zenRound.step = "list"
    /\ zenCooling' = TRUE /\ zenCached' = Loaded(zenCached)
    /\ zenRound' = NoZen /\ zenStarting' = FALSE
    /\ Released(zenRound.forced /\ Loaded(zenCached) = NoZen)
    /\ UNCHANGED <<zenWorld, zenDisk, metaCooling, metaFailed, dropped, zenClosed>>

(* refreshMetadata: fetched unless still good or cooling; a failure, or an  *)
(* answer of another shape, keeps those of before; an empty list falls back on the models the metadata     *)
(* call free.                                                               *)
Filled(v) ==
    IF v.ids # {} \/ v.meta = NoZen THEN v
    ELSE [v EXCEPT !.ids = {id \in DOMAIN v.meta : v.meta[id].free /\ ~v.meta[id].old}]
Metadata(outcome) ==
    LET v == zenRound.value
        asks == zenRound.deep \/ (~metaCooling /\ (v.meta = NoZen \/ ~v.metaFresh))
        got == IF asks /\ outcome = "good" THEN [v EXCEPT !.meta = zenMeta, !.metaFresh = TRUE] ELSE v
    IN /\ zenRound # NoZen /\ zenRound.step = "meta"
       /\ outcome = "good" \/ asks
       /\ zenRound' = [zenRound EXCEPT !.step = "probe", !.value = Filled(got)]
       /\ metaCooling' = IF asks THEN outcome = "failed" ELSE metaCooling
       /\ metaFailed' = (outcome # "good")
       /\ UNCHANGED <<zenWorld, zenCached, zenDisk, zenCooling, dropped, zenStarting, caller,
                      zenClosed>>

(* The ladder of a probe, over the four protocols: a model that none serves *)
(* or that is offline is dropped; a failing network, or the refusal of      *)
(* every request, proves nothing.  Which protocol serves it is left open.   *)
Signals == {"served", "unsupported", "offline", "gate", "network"}
Ladder(signals) ==
    LET ends(i) == signals[i] \in {"served", "offline", "network"} \/ (signals[i] = "gate" /\ i = 1)
        last == {i \in 1..4 : ends(i) /\ \A j \in 1..(i - 1) : ~ends(j)}
    IN IF \E i \in last : signals[i] # "offline" THEN "served" ELSE "drop"
Verdicts == {Ladder(s) : s \in [1..4 -> Signals]}

(* probeMissing and the end of the round: models the metadata do not know   *)
(* and whose name promises that they are free; a verdict that is still good *)
(* is kept, a probe that fails leaves the verdict of before.                *)
Probed(v, asked, said) ==
    IF v.meta = NoZen THEN v
    ELSE [v EXCEPT !.verdicts =
             [id \in (DOMAIN v.verdicts \intersect v.ids) \union asked |->
                 IF id \in asked THEN said[id] ELSE v.verdicts[id]]]
Publish(asked, said, write) ==
    LET v == zenRound.value
        unknown == IF v.meta = NoZen THEN {}
                   ELSE {id \in (v.ids \intersect FreeNamed) \ Barred : id \notin DOMAIN v.meta}
        value == Probed(v, asked, said)
    IN /\ zenRound # NoZen /\ zenRound.step = "probe"
       /\ asked \subseteq unknown
       /\ zenCached' = value /\ zenDisk' = IF write THEN value ELSE zenDisk
       /\ zenCooling' = FALSE /\ zenRound' = NoZen /\ zenStarting' = FALSE
       /\ dropped' = {id \in asked : said[id] = "drop"}
       /\ Released(FALSE)
       /\ UNCHANGED <<zenWorld, metaCooling, metaFailed, zenClosed>>

-----------------------------------------------------------------------------
(* The catalog of the plugin.                                               *)

(* store.catalog: a manual catalog is read from the file, not refreshed.    *)
Listing(c) ==
    IF zenRound # NoZen
    THEN caller' = [caller EXCEPT ![c] = "listing"] /\ UNCHANGED <<zenCached, zenRound>>
    ELSE IF zenManual
    THEN /\ zenCached' = Loaded(zenCached) /\ caller' = [caller EXCEPT ![c] = "idle"]
         /\ UNCHANGED zenRound
    ELSE /\ BeginRound(FALSE, FALSE)
         /\ caller' = [caller EXCEPT ![c] = IF Starts(FALSE) THEN "listing" ELSE "idle"]

zenRest == <<zenWorld, zenDisk, zenCooling, metaCooling, metaFailed, dropped, zenStarting,
             zenClosed>>

(* catalog: after the start.                                                *)
List(c) ==
    /\ ~zenClosed /\ caller[c] = "idle"
    /\ IF zenStarting THEN caller' = [caller EXCEPT ![c] = "startList"] /\ UNCHANGED <<zenCached, zenRound>>
       ELSE Listing(c)
    /\ UNCHANGED zenRest

(* refreshCatalog: the start counts, else a round that asks for everything; *)
(* the timer asks for the list, and waits for nothing.                      *)
RefreshAll(c) ==
    /\ ~zenClosed /\ caller[c] = "idle"
    /\ caller' = [caller EXCEPT ![c] = "forcing"]
    /\ IF zenRound # NoZen THEN UNCHANGED <<zenCached, zenRound>> ELSE BeginRound(TRUE, TRUE)
    /\ UNCHANGED zenRest
Timer ==
    /\ ~zenClosed /\ ~zenManual /\ zenRound = NoZen
    /\ BeginRound(TRUE, FALSE)
    /\ UNCHANGED <<zenRest, caller>>

(* The catalog is listed after the round that was waited for.               *)
ListAfter(c) == caller[c] = "list" /\ Listing(c) /\ UNCHANGED zenRest

(* reloadCatalog: from the file, once the start and a round are over.       *)
Reload(c) ==
    /\ caller[c] \in {"ask", "reload"} \/ (~zenClosed /\ caller[c] = "idle")
    /\ IF zenRound = NoZen \/ (caller[c] = "reload" /\ zenRound.step = "list")
       THEN /\ zenCached' = zenDisk /\ zenCooling' = FALSE /\ metaCooling' = FALSE
            /\ caller' = [caller EXCEPT ![c] = "idle"]
       ELSE /\ caller[c] # "reload"
            /\ caller' = [caller EXCEPT ![c] = IF zenStarting THEN "startReload" ELSE "reloading"]
            /\ UNCHANGED <<zenCached, zenCooling, metaCooling>>
    /\ UNCHANGED <<zenWorld, zenDisk, zenRound, metaFailed, dropped, zenStarting, zenClosed>>

(* A command of another process refreshes its own store and writes the file.*)
(* This, and changes upstream, matter to a plugin that is open.             *)
Elsewhere ==
    /\ zenChanges < MaxZenChanges /\ zenChanges' = zenChanges + 1 /\ ~zenClosed
    /\ zenDisk' = Filled(Snapshot(zenList, zenMeta, <<>>, TRUE, TRUE))
    /\ UNCHANGED <<zenList, zenMeta, zenManual, zenCached, zenCooling, metaCooling, zenRound,
                   metaFailed, dropped, zenStarting, caller, zenClosed>>
Upstream ==
    /\ zenChanges < MaxZenChanges /\ zenChanges' = zenChanges + 1 /\ ~zenClosed
    /\ \/ zenList' \in ZenLists \ {zenList} /\ UNCHANGED zenMeta
       \/ zenMeta' \in ZenMetas \ {zenMeta} /\ UNCHANGED zenList
    /\ UNCHANGED <<zenManual, zenStore, zenStarting, caller, zenClosed>>

(* Time: the list is old, the metadata too; the pauses are over.            *)
Ages ==
    /\ zenCached # NoZen
    /\ \E deep \in BOOLEAN :
          /\ zenCached' = [zenCached EXCEPT !.fresh = FALSE, !.metaFresh = @ /\ ~deep]
          /\ zenDisk' = IF zenDisk = NoZen THEN NoZen
                        ELSE [zenDisk EXCEPT !.fresh = FALSE, !.metaFresh = @ /\ ~deep]
    /\ zenCached' # zenCached
    /\ UNCHANGED <<zenWorld, zenCooling, metaCooling, zenRound, metaFailed, dropped, zenStarting,
                   caller, zenClosed>>
PauseOver ==
    /\ zenCooling \/ metaCooling
    /\ zenCooling' = FALSE /\ metaCooling' = FALSE
    /\ UNCHANGED <<zenWorld, zenCached, zenDisk, zenRound, metaFailed, dropped, zenStarting, caller,
                   zenClosed>>

(* close: the timer ends; a round that runs ends for itself.                *)
CloseZen ==
    /\ ~zenClosed /\ zenClosed' = TRUE
    /\ UNCHANGED <<zenWorld, zenStore, zenStarting, caller>>

ZenNext ==
    \/ ListArrives \/ ListFails \/ Timer \/ Elsewhere \/ Upstream \/ Ages \/ PauseOver \/ CloseZen
    \/ \E outcome \in {"good", "garbled", "failed"} : Metadata(outcome)
    \/ \E asked \in SUBSET (FreeNamed \ Barred), write \in BOOLEAN :
          \E said \in [asked -> Verdicts] : Publish(asked, said, write)
    \/ \E c \in ZenCallers : List(c) \/ RefreshAll(c) \/ ListAfter(c) \/ Reload(c)
ZenSpec == ZenInit /\ [][ZenNext]_zenVars

-----------------------------------------------------------------------------
ZenTypeOK ==
    /\ zenList \in ZenLists /\ zenMeta \in ZenMetas /\ zenChanges \in 0..MaxZenChanges
    /\ {zenCached, zenDisk} \subseteq Values \union {NoZen}
    /\ {zenCooling, metaCooling, zenStarting, zenClosed, zenManual, metaFailed} \subseteq BOOLEAN
    /\ zenStarting => zenRound # NoZen
    /\ \A c \in ZenCallers : caller[c] \in {"idle", "list", "ask", "reload", "listing", "forcing",
                                            "reloading", "startList", "startReload"}

(* A round whose metadata cannot be fetched hides no model that it showed,  *)
(* so long as the upstream still lists the model and no probe refuses it:   *)
(* the metadata of before stay in force (refreshMetadata).                  *)
MetadataKeeps ==
    [][zenRound # NoZen /\ zenRound' = NoZen /\ zenRound.step = "probe" /\ metaFailed
        => Shown(zenCached) \intersect zenRound.value.ids \subseteq Shown(zenCached') \union dropped']_zenVars
=============================================================================
