---------------------------- MODULE ModelReload ----------------------------
(***************************************************************************)
(* The hot reload of model settings: apps/gateway/src/model-reload.ts, the *)
(* reload half of gateway.ts, and the two callers that save a              *)
(* configuration and ask the running gateway to load it (`models`/`config` *)
(* commands in cli.ts, the Web UI in webui.ts).                            *)
(*                                                                         *)
(* The parties are separate processes that share the files of one runtime  *)
(* home and nothing else:                                                  *)
(*                                                                         *)
(*   config.json                     content, one entry for every write    *)
(*   the static catalog file         catalog, the write it was built from  *)
(*   model-reload-requests/<r>.json  queue                                 *)
(*   model-reload-request.json       latestReq                             *)
(*   model-reload-result.json        results, oldest receipt first         *)
(*                                                                         *)
(* A save and its reload request are one Saver; the random revision of the *)
(* request is the saver itself.  A version is an index into content: the   *)
(* writes of config.json in the order they happened, roll-backs included.  *)
(* The gateway runs in upstream-only mode, where it also owns the static   *)
(* catalog file.                                                           *)
(***************************************************************************)
EXTENDS Integers, Sequences, FiniteSets, SequencesExt

CONSTANTS
    CliSavers,    \* runs of `models --sync`, `models --exclude`, ...
    UiSavers,     \* saves made in the Web UI
    Gateways,     \* gateway processes that share the runtime home
    Primary,      \* the one that listens on the configured port
    None,
    MaxReceipts,  \* MAX_RECEIPTS, 64 in the code
    MaxFaults     \* bound on crashes, stops and failing operations

Savers == CliSavers \cup UiSavers

ASSUME SaversAssumption == CliSavers \cap UiSavers = {} /\ IsFiniteSet(Savers)
ASSUME GatewaysAssumption == Primary \in Gateways
ASSUME NoneAssumption == None \notin Savers
ASSUME BoundsAssumption == MaxReceipts \in Nat \ {0} /\ MaxFaults \in Nat

VARIABLES
    content,     \* content[v]: whose settings the v-th write of config.json holds
    catalog,     \* the version the static catalog file was derived from
    queue,       \* revisions with a file in model-reload-requests/
    latestReq,   \* the revision in model-reload-request.json
    results,     \* the receipts in model-reload-result.json
    saver,       \* where each saver is
    savedAt,     \* the version a saver wrote, 0 before it wrote one
    snapshot,    \* what a saver restores when it fails: a version and a catalog
    gpc,         \* where each gateway's reload chain is
    closed,      \* the receiver's `closed` flag
    startup,     \* the gateway's modelsReady promise
    config,      \* the version each gateway serves
    next,        \* the version a reload in progress has read
    seenLatest,  \* latestRevision of the round
    base,        \* receipts of the round
    batch,       \* revisions of the round
    outcome,     \* status of the round
    answered,    \* history: revisions that were given a receipt
    faults       \* how many faults happened

files    == <<content, catalog, queue, latestReq, results>>
clients  == <<saver, savedAt, snapshot>>
process  == <<gpc, closed, startup, config>>
round    == <<next, seenLatest, base, batch, outcome>>
vars     == <<files, clients, process, round, answered, faults>>

Receipt == [revision : Savers, status : {"loaded", "failed"}]

SaverStates == {"new", "prepared", "saved", "catalogued", "queued", "requested",
                "probing", "lost", "waiting", "loaded", "deferred", "failed",
                "rolledBack", "dead"}

ChainStates == {"down", "booting", "idle", "again", "reading", "listed",
                "reloading", "confirming", "clearing"}

Version == Len(content)

Confirmed(receipts) == {receipts[i].revision : i \in DOMAIN receipts}

HasReceipt(s, status) ==
    \E i \in DOMAIN results : results[i] = [revision |-> s, status |-> status]

Up(g)        == gpc[g] \notin {"down", "booting"}
Listening(g) == Up(g) /\ ~closed[g]

(* The process has one thread: timers, requests, stop() and the end of the *)
(* startup run only where the chain has ended or awaits.                   *)
Yields(g) == gpc[g] \in {"idle", "reloading"}

(* entries.slice(-MAX_RECEIPTS) *)
Newest(receipts) ==
    SubSeq(receipts, IF Len(receipts) > MaxReceipts THEN Len(receipts) - MaxReceipts + 1 ELSE 1,
           Len(receipts))

Init ==
    /\ content = <<None>>
    /\ catalog = 1
    /\ queue = {} /\ latestReq = None /\ results = <<>>
    /\ saver = [s \in Savers |-> "new"]
    /\ savedAt = [s \in Savers |-> 0]
    /\ snapshot = [s \in Savers |-> [version |-> 1, catalog |-> 1]]
    /\ gpc = [g \in Gateways |-> "down"]
    /\ closed = [g \in Gateways |-> FALSE]
    /\ startup = [g \in Gateways |-> "pending"]
    /\ config = [g \in Gateways |-> 1]
    /\ next = [g \in Gateways |-> 1]
    /\ seenLatest = [g \in Gateways |-> None]
    /\ base = [g \in Gateways |-> <<>>]
    /\ batch = [g \in Gateways |-> {}]
    /\ outcome = [g \in Gateways |-> "loaded"]
    /\ answered = {} /\ faults = 0

-----------------------------------------------------------------------------
(* Savers: a command or a Web UI request.                                  *)

Becomes(s, state) == saver' = [saver EXCEPT ![s] = state]

(* Every fault of the environment is counted against MaxFaults. *)
Fault == faults < MaxFaults /\ faults' = faults + 1

(* withModelFileRollback / modelSaveRollback: remember the files, then     *)
(* await the rebuilding of the upstream catalog.                           *)
Prepare(s) ==
    /\ saver[s] = "new"
    /\ Becomes(s, "prepared")
    /\ snapshot' = [snapshot EXCEPT ![s] = [version |-> Version, catalog |-> catalog]]
    /\ UNCHANGED <<files, savedAt, process, round, answered, faults>>

Save(s) ==
    /\ saver[s] = "prepared"
    /\ Becomes(s, "saved")
    /\ content' = Append(content, s)
    /\ savedAt' = [savedAt EXCEPT ![s] = Version + 1]
    /\ UNCHANGED <<catalog, queue, latestReq, results, snapshot, process, round, answered, faults>>

(* updateCodexModelCatalog, with the configuration the saver holds. *)
WriteCatalog(s) ==
    /\ saver[s] = "saved"
    /\ Becomes(s, "catalogued")
    /\ catalog' = savedAt[s]
    /\ UNCHANGED <<content, queue, latestReq, results, savedAt, snapshot, process, round, answered, faults>>

(* The remembered files are written back, whoever wrote them since. *)
Restore(s) ==
    /\ content' = Append(content, content[snapshot[s].version])
    /\ catalog' = snapshot[s].catalog

SaveFails(s) ==
    /\ saver[s] \in {"prepared", "saved"}
    /\ Fault
    /\ Becomes(s, "rolledBack")
    /\ Restore(s)
    /\ UNCHANGED <<queue, latestReq, results, savedAt, snapshot, process, round, answered>>

(* requestModelReload: two atomic writes, the queued notification first. *)
QueueRequest(s) ==
    /\ saver[s] = "catalogued"
    /\ Becomes(s, "queued")
    /\ queue' = queue \cup {s}
    /\ UNCHANGED <<content, catalog, latestReq, results, savedAt, snapshot, process, round, answered, faults>>

WriteLatest(s) ==
    /\ saver[s] = "queued"
    /\ Becomes(s, "requested")
    /\ latestReq' = s
    /\ UNCHANGED <<content, catalog, queue, results, savedAt, snapshot, process, round, answered, faults>>

(* GET /healthz: refused when nobody listens, and the request is kept.     *)
(* Otherwise the request itself runs the chain (or joins the running one). *)
Probe(s) ==
    /\ saver[s] = "requested"
    /\ IF Listening(Primary)
       THEN /\ Yields(Primary)
            /\ Becomes(s, "probing")
            /\ gpc' = [gpc EXCEPT ![Primary] = IF @ = "idle" THEN "reading" ELSE @]
            /\ seenLatest' = IF gpc[Primary] = "idle"
                             THEN [seenLatest EXCEPT ![Primary] = latestReq] ELSE seenLatest
       ELSE Becomes(s, "deferred") /\ UNCHANGED <<gpc, seenLatest>>
    /\ UNCHANGED <<files, savedAt, snapshot, closed, startup, config, next, base, batch, outcome, answered, faults>>

(* The probe is answered when the chain it joined has ended and modelsReady *)
(* has settled well.                                                        *)
ProbeAnswered(s) ==
    /\ saver[s] = "probing"
    /\ Listening(Primary) /\ gpc[Primary] = "idle" /\ startup[Primary] = "ready"
    /\ Becomes(s, "waiting")
    /\ UNCHANGED <<files, savedAt, snapshot, process, round, answered, faults>>

(* The client polls the result file; it sees its own receipt only. *)
SeeLoaded(s) ==
    /\ saver[s] = "waiting"
    /\ HasReceipt(s, "loaded")
    /\ Becomes(s, "loaded")
    /\ UNCHANGED <<files, savedAt, snapshot, process, round, answered, faults>>

(* reloadGatewayModels throws: an answer other than 200, a lost connection, *)
(* a failed receipt, or the deadline with no receipt in the file.  The      *)
(* command stops there; the Web UI restores the files it remembered.        *)
GiveUp(s) ==
    /\ \/ saver[s] \in {"probing", "lost"}
       \/ saver[s] = "waiting" /\ ~HasReceipt(s, "loaded")
    /\ IF s \in UiSavers
       THEN Becomes(s, "rolledBack") /\ Restore(s)
       ELSE Becomes(s, "failed") /\ UNCHANGED <<content, catalog>>
    /\ UNCHANGED <<queue, latestReq, results, savedAt, snapshot, process, round, answered, faults>>

(* The saver's process is killed between two of its writes. *)
SaverDies(s) ==
    /\ saver[s] \in {"prepared", "saved", "catalogued", "queued", "requested"}
    /\ Fault
    /\ Becomes(s, "dead")
    /\ UNCHANGED <<files, savedAt, snapshot, process, round, answered>>

SaverStep(s) ==
    \/ Prepare(s) \/ Save(s) \/ WriteCatalog(s) \/ QueueRequest(s) \/ WriteLatest(s)
    \/ Probe(s) \/ ProbeAnswered(s) \/ SeeLoaded(s) \/ GiveUp(s)
    \/ SaveFails(s) \/ SaverDies(s)

-----------------------------------------------------------------------------
(* Gateway processes.                                                      *)

At(g, state) == gpc' = [gpc EXCEPT ![g] = state]

(* The variables of a round end with it. *)
ForgetRound(g) ==
    /\ next' = [next EXCEPT ![g] = 1]
    /\ seenLatest' = [seenLatest EXCEPT ![g] = None]
    /\ base' = [base EXCEPT ![g] = <<>>]
    /\ batch' = [batch EXCEPT ![g] = {}]
    /\ outcome' = [outcome EXCEPT ![g] = "loaded"]

(* serve: the configuration is read before the port is bound. *)
Boot(g) ==
    /\ gpc[g] = "down"
    /\ At(g, "booting")
    /\ config' = [config EXCEPT ![g] = Version]
    /\ closed' = [closed EXCEPT ![g] = FALSE]
    /\ startup' = [startup EXCEPT ![g] = "pending"]
    /\ UNCHANGED <<files, clients, round, answered, faults>>

Bind(g) ==
    /\ gpc[g] = "booting"
    /\ At(g, "idle")
    /\ UNCHANGED <<files, clients, closed, startup, config, round, answered, faults>>

(* modelsReady: the refresh of the agents ends and the static catalog is   *)
(* published from the configuration the process started with.              *)
StartupReady(g) ==
    /\ Yields(g) /\ startup[g] = "pending"
    /\ startup' = [startup EXCEPT ![g] = "ready"]
    /\ catalog' = IF closed[g] THEN catalog ELSE config[g]
    /\ UNCHANGED <<content, queue, latestReq, results, clients, gpc, closed, config, round, answered, faults>>

StartupFails(g) ==
    /\ Yields(g) /\ startup[g] = "pending"
    /\ Fault
    /\ startup' = [startup EXCEPT ![g] = "failed"]
    /\ UNCHANGED <<files, clients, gpc, closed, config, round, answered>>

(* Variant: a poll looks at the queue only when the latest request changed. *)
ReadLatestIfChanged(g) ==
    /\ gpc[g] \in {"idle", "again"} /\ ~closed[g]
    /\ latestReq # seenLatest[g]
    /\ At(g, "reading")
    /\ seenLatest' = [seenLatest EXCEPT ![g] = latestReq]
    /\ UNCHANGED <<files, clients, closed, startup, config, next, base, batch, outcome, answered, faults>>

(* A poll of the timer, or the next turn of the loop, reads the latest     *)
(* notification ...                                                        *)
ReadLatest(g) ==
    /\ gpc[g] \in {"idle", "again"} /\ ~closed[g]
    /\ At(g, "reading")
    /\ seenLatest' = [seenLatest EXCEPT ![g] = latestReq]
    /\ UNCHANGED <<files, clients, closed, startup, config, next, base, batch, outcome, answered, faults>>

(* Variant: the receipts are not consulted. *)
UnconfirmedOrAnswered(g) ==
    queue \cup (IF seenLatest[g] = None THEN {} ELSE {seenLatest[g]})

(* ... then the receipts and the queue.  Notifications that already have a *)
(* receipt are dropped; the rest, with the latest, is the round's batch.   *)
Unconfirmed(g) ==
    (queue \cup (IF seenLatest[g] = None THEN {} ELSE {seenLatest[g]})) \ Confirmed(results)

ListQueue(g) ==
    /\ gpc[g] = "reading"
    /\ queue' = queue \ Confirmed(results)
    /\ base' = [base EXCEPT ![g] = results]
    /\ batch' = [batch EXCEPT ![g] = Unconfirmed(g)]
    /\ At(g, IF Unconfirmed(g) = {} THEN "idle" ELSE "listed")
    /\ UNCHANGED <<content, catalog, latestReq, results, clients, closed, startup, config, next, seenLatest, outcome, answered, faults>>

(* Variant: the configuration of the process is reloaded, not the file. *)
ReadConfigInMemory(g) ==
    /\ gpc[g] = "listed"
    /\ At(g, "reloading")
    /\ next' = [next EXCEPT ![g] = config[g]]
    /\ UNCHANGED <<files, clients, closed, startup, config, seenLatest, base, batch, outcome, answered, faults>>

(* config.json is read only after the batch is known. *)
ReadConfig(g) ==
    /\ gpc[g] = "listed"
    /\ At(g, "reloading")
    /\ next' = [next EXCEPT ![g] = Version]
    /\ UNCHANGED <<files, clients, closed, startup, config, seenLatest, base, batch, outcome, answered, faults>>

(* Variant: a reload publishes the configuration, not the catalog file. *)
PublishConfigOnly(g) ==
    /\ gpc[g] = "reloading"
    /\ startup[g] # "pending"
    /\ At(g, "confirming")
    /\ outcome' = [outcome EXCEPT ![g] = "loaded"]
    /\ config' = IF closed[g] THEN config ELSE [config EXCEPT ![g] = next[g]]
    /\ startup' = IF closed[g] THEN startup ELSE [startup EXCEPT ![g] = "ready"]
    /\ UNCHANGED <<files, clients, closed, next, seenLatest, base, batch, answered, faults>>

(* reloadConfig waits for modelsReady to settle, reloads the catalogs of   *)
(* the agents, then publishes catalog, exclusions and configuration in one *)
(* turn.  A closed gateway returns early, without an error.                *)
Publish(g) ==
    /\ gpc[g] = "reloading"
    /\ startup[g] # "pending"
    /\ At(g, "confirming")
    /\ outcome' = [outcome EXCEPT ![g] = "loaded"]
    /\ IF closed[g]
       THEN UNCHANGED <<catalog, config, startup>>
       ELSE /\ catalog' = next[g]
            /\ config' = [config EXCEPT ![g] = next[g]]
            /\ startup' = [startup EXCEPT ![g] = "ready"]
    /\ UNCHANGED <<content, queue, latestReq, results, clients, closed, next, seenLatest, base, batch, answered, faults>>

ReloadFails(g) ==
    /\ gpc[g] = "reloading"
    /\ Fault
    /\ At(g, "confirming")
    /\ outcome' = [outcome EXCEPT ![g] = "failed"]
    /\ UNCHANGED <<files, clients, closed, startup, config, next, seenLatest, base, batch, answered>>

(* Variant: the queue is listed again when the receipts are written. *)
OrdersRelisted(g) == SetToSeqs(batch[g] \cup (queue \ Confirmed(results)))

(* The receipts of the batch in directory order, the latest request last. *)
Orders(g) ==
    {order \in SetToSeqs(batch[g]) :
        seenLatest[g] \in batch[g] => Last(order) = seenLatest[g]}

Receipts(g, order) ==
    [i \in DOMAIN order |-> [revision |-> order[i], status |-> outcome[g]]]

(* The result file is written before the queue is touched ... *)
Confirm(g) ==
    /\ gpc[g] = "confirming"
    /\ At(g, "clearing")
    /\ \E order \in Orders(g) : results' = Newest(base[g] \o Receipts(g, order))
    /\ answered' = answered \cup batch[g]
    /\ UNCHANGED <<content, catalog, queue, latestReq, clients, closed, startup, config, round, faults>>

(* Variant: the whole queue directory is emptied. *)
ClearDirectory(g) ==
    /\ gpc[g] = "clearing"
    /\ queue' = {}
    /\ batch' = [batch EXCEPT ![g] = {}]
    /\ At(g, IF closed[g] THEN "idle" ELSE "again")
    /\ UNCHANGED <<content, catalog, latestReq, results, clients, closed, startup, config, next, seenLatest, base, outcome, answered, faults>>

(* ... and the notifications are unlinked one by one; then the loop reads  *)
(* the files again unless the receiver was closed.                         *)
ClearOne(g) ==
    /\ gpc[g] = "clearing"
    /\ \E s \in batch[g] :
        /\ queue' = queue \ {s}
        /\ batch' = [batch EXCEPT ![g] = @ \ {s}]
        /\ At(g, IF batch[g] # {s} THEN "clearing" ELSE IF closed[g] THEN "idle" ELSE "again")
    /\ UNCHANGED <<content, catalog, latestReq, results, clients, closed, startup, config, next, seenLatest, base, outcome, answered, faults>>

(* A probe of the primary gateway gets no good answer. *)
LoseProbes(g) ==
    saver' = [s \in Savers |->
                 IF g = Primary /\ saver[s] = "probing" THEN "lost" ELSE saver[s]]

(* A notification is unreadable, the write of the result file or an unlink *)
(* throws: the chain ends, the requests that waited for it answer 503, and *)
(* a later poll starts over.                                               *)
RoundFails(g) ==
    /\ gpc[g] \in {"reading", "confirming", "clearing"}
    /\ Fault
    /\ At(g, "idle")
    /\ LoseProbes(g)
    /\ ForgetRound(g)
    /\ UNCHANGED <<files, savedAt, snapshot, closed, startup, config, answered>>

(* The process dies: a crash, a `launchctl kickstart -k`, or the end of a  *)
(* process that was stopped.  Nothing but the files survives.              *)
Crash(g) ==
    /\ gpc[g] # "down" /\ ~closed[g]
    /\ Fault
    /\ At(g, "down")
    /\ LoseProbes(g)
    /\ ForgetRound(g)
    /\ UNCHANGED <<files, savedAt, snapshot, closed, startup, config, answered>>

(* server.stop closes the receiver and the handler; the chain in progress  *)
(* runs to the end of its turn, unless the process exits first.            *)
Stop(g) ==
    /\ Yields(g) /\ ~closed[g]
    /\ Fault
    /\ closed' = [closed EXCEPT ![g] = TRUE]
    /\ LoseProbes(g)
    /\ UNCHANGED <<files, savedAt, snapshot, gpc, startup, config, round, answered>>

Exit(g) ==
    /\ gpc[g] # "down" /\ closed[g]
    /\ At(g, "down")
    /\ ForgetRound(g)
    /\ UNCHANGED <<files, clients, closed, startup, config, answered, faults>>

(* One turn of `while (!closed)`. *)
ChainStep(g) ==
    \/ ReadLatest(g) \/ ListQueue(g) \/ ReadConfig(g) \/ Publish(g)
    \/ Confirm(g) \/ ClearOne(g)

GatewayStep(g) ==
    \/ Boot(g) \/ Bind(g) \/ StartupReady(g) \/ ChainStep(g) \/ Exit(g)
    \/ StartupFails(g) \/ ReloadFails(g) \/ RoundFails(g) \/ Crash(g) \/ Stop(g)

Next ==
    \/ \E s \in Savers : SaverStep(s)
    \/ \E g \in Gateways : GatewayStep(g)

Spec == Init /\ [][Next]_vars

(* launchd keeps the process alive (KeepAlive, RunAtLoad), its poll timer  *)
(* fires every 250 ms, and the awaits of a start and a reload settle.      *)
GatewayFairness ==
    \A g \in Gateways :
        /\ WF_vars(Boot(g)) /\ WF_vars(Bind(g)) /\ WF_vars(Exit(g))
        /\ WF_vars(StartupReady(g)) /\ WF_vars(ChainStep(g))

FairSpec == Spec /\ GatewayFairness

-----------------------------------------------------------------------------
(* Properties.                                                             *)

FilesOK ==
    /\ content \in Seq(Savers \cup {None}) /\ Version >= 1
    /\ catalog \in 1..Version
    /\ queue \subseteq Savers
    /\ latestReq \in Savers \cup {None}
    /\ results \in Seq(Receipt) /\ Len(results) <= MaxReceipts

ClientsOK ==
    /\ saver \in [Savers -> SaverStates]
    /\ savedAt \in [Savers -> 0..Version]
    /\ snapshot \in [Savers -> [version : 1..Version, catalog : 1..Version]]
    /\ \A s \in Savers : saver[s] = "saved" => savedAt[s] >= 1

ProcessOK ==
    /\ gpc \in [Gateways -> ChainStates]
    /\ closed \in [Gateways -> BOOLEAN]
    /\ startup \in [Gateways -> {"pending", "ready", "failed"}]
    /\ config \in [Gateways -> 1..Version]

RoundOK ==
    /\ next \in [Gateways -> 1..Version]
    /\ seenLatest \in [Gateways -> Savers \cup {None}]
    /\ base \in [Gateways -> Seq(Receipt)]
    /\ batch \in [Gateways -> SUBSET Savers]
    /\ outcome \in [Gateways -> {"loaded", "failed"}]

(* Versions were written before anyone holds them, and the receipt file    *)
(* keeps its bound.                                                        *)
TypeOK ==
    /\ FilesOK /\ ClientsOK /\ ProcessOK /\ RoundOK
    /\ answered \subseteq Savers /\ faults \in 0..MaxFaults

(* "Loaded" is the truth: once a receipt says so, or a command was told so, *)
(* the gateway that listens serves that save or a later write of           *)
(* config.json, over any crash, restart, stop or failing round             *)
(* (createModelReloadReceiver, reloadConfig, reloadGatewayModels).         *)
LoadedMeansServed ==
    \A s \in Savers :
        (HasReceipt(s, "loaded") \/ saver[s] = "loaded") /\ Listening(Primary)
            => config[Primary] >= savedAt[s]

(* A notification leaves the queue only with a receipt: no crash between   *)
(* the write of the result and the unlinks, and no saver that writes in    *)
(* between, loses one (lines 155-158).                                     *)
NoRequestLost ==
    \A s \in Savers :
        saver[s] \in {"queued", "requested", "probing", "lost", "waiting",
                      "loaded", "deferred", "failed"}
            => s \in queue \cup answered

(* A later round or a restarted gateway never turns a receipt that is in   *)
(* the file into another one (the comment on line 156).                    *)
ReceiptNeverRewritten ==
    [][\A s \in Savers, told, other \in {"loaded", "failed"} :
          HasReceipt(s, told) /\ HasReceipt(s, other)' => told = other]_vars

Settled(s) == saver[s] \in {"new", "prepared", "loaded", "deferred", "failed"}

(* When every saver is done and nothing is pending, the gateway and the    *)
(* static catalog both hold what config.json holds: the orders in which    *)
(* savers, the startup publication and reloads write the catalog file do   *)
(* not matter in the end (gateway.ts reloadConfig, "startup may write old  *)
(* rules first").                                                          *)
QuiescentAgreement ==
    (/\ \A s \in Savers : Settled(s) /\ ~HasReceipt(s, "failed")
     /\ queue = {} /\ gpc[Primary] = "idle" /\ Listening(Primary)
     /\ startup[Primary] = "ready")
    => content[config[Primary]] = content[Version] /\ content[catalog] = content[Version]

(* The gateway runs with the save, or its receipt says "failed" or has made *)
(* room for later ones.                                                     *)
Served(s) ==
    \/ Listening(Primary) /\ config[Primary] >= savedAt[s]
    \/ s \in answered /\ ~HasReceipt(s, "loaded")

(* Every save that was asked for is served in the end, whatever crashes in *)
(* between, and also when the command found no gateway and left the        *)
(* notification for the next start: there comes a time when no request is  *)
(* left unserved (reloadGatewayModels).                                    *)
RequestIsServed ==
    queue \cup answered # {} ~> \A s \in queue \cup answered : Served(s)
=============================================================================
