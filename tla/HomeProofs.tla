----------------------------- MODULE HomeProofs -----------------------------
(***************************************************************************)
(* Proofs about Installation, and about CodexOwnership for any number of   *)
(* homes.                                                                  *)
(*                                                                         *)
(* That management never outlives the claim is not inductive: a command    *)
(* that fails writes back a state.json it read earlier, and then may give  *)
(* the claim up.  The invariant says, place by place, what the snapshot,   *)
(* the claim and state.json have to do with each other.                    *)
(*                                                                         *)
(* ClaimHolds is not inductive either: a home that renames the old owner   *)
(* file replaces whatever the new one says by then.  That this is its own  *)
(* claim rests on the two names agreeing, and that on what a home has seen *)
(* of the old name before it links.                                        *)
(***************************************************************************)
EXTENDS Installation, CodexOwnership, TLAPS

Reading == {"prepared", "backup", "key", "catalog", "toml", "state"}
Held == {"backup", "key", "catalog", "toml", "state", "plist", "bootout", "bootstrap", "health"}
Launching == {"plist", "bootout", "bootstrap", "health"}

(* Where state.json is the one the command found. *)
StateFound ==
    /\ pc \in Reading \union {"undo claim"} => state = cmd.before.state
    /\ pc = "undo service" /\ Switching => state = cmd.before.state
    /\ pc = "undo config" /\ ~Switching => state = cmd.before.state

(* Who holds the claim. *)
Holding ==
    /\ Managed(state) => claim
    /\ pc \in Held /\ ~cmd.manual => claim
    /\ pc \in Held \union Undoing \union {"prepared"} /\ Managed(cmd.before.state) => claim
    /\ claimed => ~Managed(cmd.before.state) /\ pc \in Held \union Undoing

(* Where this home still, or no longer, manages config.toml. *)
Marked(s) == Managed(s) => "restored" \in DOMAIN s

GivenBack ==
    /\ Marked(state)
    /\ pc \notin Quiet => Marked(cmd.before.state)
    /\ pc = "remove service" /\ ~cmd.manual => Managed(state)
    /\ pc \in {"restore toml", "mark"} => Managed(state)
    /\ pc \in Launching /\ cmd.manual => ~Managed(state)
    /\ pc = "remove service" /\ cmd.manual => ~Managed(state)
    /\ pc \in {"delete key", "release", "remove state"} => ~Managed(state)

IInv == StateFound /\ Holding /\ GivenBack

-----------------------------------------------------------------------------
(* What a command knows as it starts. *)
LEMMA Snaps == Snapshot.state = state /\ Snapshot.toml = toml
BY DEF Snapshot

LEMMA Begins ==
    ASSUME Begin
    PROVE  cmd'.before = Snapshot /\ cmd'.port \in Ports /\ pc \in Quiet /\ pc' = "prepared"
<1>1. PICK port \in Ports, newKey \in Keys \union {None}, build \in Builds,
           option \in BOOLEAN, managedAnyway \in BOOLEAN :
        cmd' = [port |-> port, key |-> newKey, build |-> build, before |-> Snapshot,
                manual |-> (option \/ (state # None /\ ~state.managed)) /\ ~(option /\ managedAnyway)]
  BY DEF Begin
<1> QED BY <1>1 DEF Begin, Idle

LEMMA Uninstalls ==
    ASSUME Uninstall
    PROVE  cmd'.before = Snapshot /\ cmd'.manual = ~Managed(state) /\ pc \in Quiet /\ pc' = "remove service"
BY DEF Uninstall, Idle

USE DEF Marked, Reading, Held, Launching, Undoing, Quiet, Goto, End

LEMMA InitInv == Init => IInv
BY DEF Init, IInv, StateFound, Holding, GivenBack, Managed

LEMMA InstallInv == IInv /\ Install => IInv'
<1> SUFFICES ASSUME IInv, Install PROVE IInv'
    OBVIOUS
<1> USE DEF IInv, StateFound, Holding, GivenBack, Switching
<1>1. CASE Begin
  <2>1. cmd'.before = Snapshot
    BY <1>1, Begins
  <2>2. cmd'.before.state = state
    BY <2>1, Snaps
  <2>3. pc \in Quiet /\ pc' = "prepared" /\ cmd'.port \in Ports
    BY <1>1, Begins
  <2> QED BY <1>1, <2>2, <2>3 DEF Begin, Managed
<1>2. CASE Refuse
  BY <1>2 DEF Refuse, Managed
<1>3. CASE Claim
  BY <1>3 DEF Claim, Managed
<1>4. CASE Backup
  BY <1>4 DEF Backup, Managed
<1>5. CASE SaveKey
  BY <1>5 DEF SaveKey, Managed
<1>6. CASE WriteConfig
  BY <1>6 DEF WriteConfig, Managed
<1>7. CASE WriteToml
  BY <1>7 DEF WriteToml, Managed
<1>8. CASE WriteState
  BY <1>8 DEF WriteState, NewState, Managed
<1>9. CASE WritePlist
  BY <1>9 DEF WritePlist, Managed
<1>10. CASE Bootout
  BY <1>10 DEF Bootout, Managed
<1>11. CASE Bootstrap
  BY <1>11 DEF Bootstrap, Managed
<1>12. CASE Finish
  BY <1>12 DEF Finish, Managed
<1> QED BY <1>1, <1>2, <1>3, <1>4, <1>5, <1>6, <1>7, <1>8, <1>9, <1>10, <1>11, <1>12 DEF Install

LEMMA UndoInv == IInv /\ Undo => IInv'
<1> SUFFICES ASSUME IInv, Undo PROVE IInv'
    OBVIOUS
<1> USE DEF IInv, StateFound, Holding, GivenBack, Switching
<1>1. CASE Fail
  BY <1>1 DEF Fail, Managed
<1>2. CASE UndoToml
  BY <1>2 DEF UndoToml, Managed
<1>3. CASE UndoKey
  BY <1>3 DEF UndoKey, Managed
<1>4. CASE UndoFiles
  BY <1>4 DEF UndoFiles, Managed
<1>5. CASE UndoConfig
  BY <1>5 DEF UndoConfig, Managed
<1>6. CASE UndoState
  BY <1>6 DEF UndoState, Managed
<1>7. CASE UndoService
  BY <1>7 DEF UndoService, AfterService, Managed
<1>8. CASE UndoServiceFails
  BY <1>8 DEF UndoServiceFails, Managed
<1>9. CASE UndoClaim
  BY <1>9 DEF UndoClaim, Managed
<1> QED BY <1>1, <1>2, <1>3, <1>4, <1>5, <1>6, <1>7, <1>8, <1>9 DEF Undo

LEMMA RemoveInv == IInv /\ Remove => IInv'
<1> SUFFICES ASSUME IInv, Remove PROVE IInv'
    OBVIOUS
<1> USE DEF IInv, StateFound, Holding, GivenBack, Switching
<1>1. CASE Uninstall
  <2>1. cmd'.before = Snapshot
    BY <1>1, Uninstalls
  <2>2. cmd'.before.state = state
    BY <2>1, Snaps
  <2>3. pc \in Quiet /\ pc' = "remove service" /\ cmd'.manual = ~Managed(state)
    BY <1>1, Uninstalls
  <2> QED BY <1>1, <2>1, <2>2, <2>3 DEF Uninstall, Managed
<1>2. CASE RemoveService
  BY <1>2 DEF RemoveService, Managed
<1>3. CASE RestoreToml
  BY <1>3 DEF RestoreToml, Managed
<1>4. CASE MarkRestored
  BY <1>4 DEF MarkRestored, Managed
<1>5. CASE DeleteKey
  BY <1>5 DEF DeleteKey, Managed
<1>6. CASE Release
  BY <1>6 DEF Release, Managed
<1>7. CASE RemoveState
  BY <1>7 DEF RemoveState, Managed
<1> QED BY <1>1, <1>2, <1>3, <1>4, <1>5, <1>6, <1>7 DEF Remove

LEMMA SameInv ==
    ASSUME IInv, pc' = pc, cmd' = cmd, claimed' = claimed, claim' = claim, state' = state
    PROVE  IInv'
<1>1. (claim <=> claim') /\ (claimed <=> claimed')
  BY Zenon
<1>2. StateFound'
  BY ONLY IInv, pc' = pc, cmd' = cmd, state' = state DEF IInv, StateFound, Switching
<1>3. Holding'
  BY ONLY IInv, pc' = pc, cmd' = cmd, state' = state, <1>1 DEF IInv, Holding, Managed
<1>4. GivenBack'
  BY ONLY IInv, pc' = pc, cmd' = cmd, state' = state DEF IInv, GivenBack, Managed
<1> QED BY <1>2, <1>3, <1>4 DEF IInv

LEMMA UserInv == IInv /\ (EditRest \/ EditUrl \/ Crash \/ UNCHANGED vars) => IInv'
<1> SUFFICES ASSUME IInv, EditRest \/ EditUrl \/ Crash \/ UNCHANGED vars PROVE IInv'
    OBVIOUS
<1> USE DEF IInv, StateFound, Holding, GivenBack, Switching
<1>1. CASE Crash
  BY <1>1 DEF Crash, Managed
<1>2. CASE EditRest
  <2>1. pc' = pc /\ cmd' = cmd /\ claimed' = claimed /\ claim' = claim /\ state' = state
    BY <1>2 DEF EditRest, command
  <2> QED BY <2>1, SameInv
<1>3. CASE EditUrl
  BY <1>3 DEF EditUrl, command, Managed
<1>4. CASE UNCHANGED vars
  <2>1. pc' = pc /\ cmd' = cmd /\ claimed' = claimed /\ claim' = claim /\ state' = state
    BY <1>4 DEF vars, command
  <2> QED BY <2>1, SameInv
<1> QED BY <1>1, <1>2, <1>3, <1>4

(* While state.json says that this home manages config.toml, the owner     *)
(* file of Codex's directory names this home: after any sequence of        *)
(* installs, failures, crashes and uninstalls.                             *)
THEOREM ManagementIsClaimed == Spec => []ManagedHasClaim
<1>1. IInv /\ [Next]_vars => IInv'
  BY InstallInv, UndoInv, RemoveInv, UserInv DEF Next
<1>2. IInv => ManagedHasClaim
  BY DEF IInv, Holding, ManagedHasClaim
<1> QED BY InitInv, <1>1, <1>2, PTL DEF Spec

-----------------------------------------------------------------------------
(* The user's edits.  What uninstall or an undo may write must hold the    *)
(* edits that config.toml holds: the snapshot and the backup of the        *)
(* command do, and the backup of state.json holds those of its hash.       *)
Kept(s) == Managed(s) => s.backup \in Tomls /\ s.backup.rest = s.hash.rest

Copying == {"key", "catalog", "toml", "state"} \union Launching \union (Undoing \ {"undo claim"})

Copies ==
    /\ toml \in Tomls
    /\ Kept(state)
    /\ pc \notin Quiet => /\ cmd.before.toml \in Tomls /\ cmd.before.toml.rest = toml.rest
                          /\ Kept(cmd.before.state)
    /\ pc \in Held \union {"prepared"} => cmd.port \in Ports
    /\ pc \in Copying /\ NeedsBackup => backup \in Tomls /\ backup.rest = toml.rest

KInv == IInv /\ Copies

LEMMA InitCopies == Init => Copies
<1> SUFFICES ASSUME Init PROVE Copies
    OBVIOUS
<1>1. toml \in Tomls
  BY EditsAssumption DEF Init, Tomls
<1>2. state = None /\ pc = "idle"
  BY DEF Init
<1> QED BY <1>1, <1>2 DEF Copies, Kept, Copying, Managed

LEMMA InstallCopies == KInv /\ Install => Copies' /\ toml'.rest = toml.rest
<1> SUFFICES ASSUME KInv, Install PROVE Copies' /\ toml'.rest = toml.rest
    OBVIOUS
<1> USE DEF KInv, IInv, GivenBack, Copies, Kept, Copying, NeedsBackup, Switching, PreviousManaged
<1>1. CASE Begin
  <2>1. cmd'.before = Snapshot
    BY <1>1, Begins
  <2>2. cmd'.before.state = state /\ cmd'.before.toml = toml
    BY <2>1, Snaps
  <2>3. pc \in Quiet /\ pc' = "prepared" /\ cmd'.port \in Ports
    BY <1>1, Begins
  <2> QED BY <1>1, <2>1, <2>2, <2>3 DEF Begin, Managed
<1>2. CASE Refuse
  BY <1>2 DEF Refuse, Managed
<1>3. CASE Claim
  BY <1>3 DEF Claim, Managed
<1>4. CASE Backup
  BY <1>4 DEF Backup, Managed
<1>5. CASE SaveKey
  BY <1>5 DEF SaveKey, Managed
<1>6. CASE WriteConfig
  BY <1>6 DEF WriteConfig, Managed
<1>7. CASE WriteToml
  <2>1. state = cmd.before.state
    BY <1>7 DEF WriteToml, IInv, StateFound
  <2>2. Patched \in Tomls /\ Patched.rest = toml.rest
    BY <1>7 DEF WriteToml, Patched, Tomls
  <2>3. Managed(state) => Restored(state, cmd.before.toml) \in Tomls
                          /\ Restored(state, cmd.before.toml).rest = toml.rest
    BY <1>7 DEF WriteToml, Restored, Tomls
  <2>4. toml' \in Tomls /\ toml'.rest = toml.rest
    BY <1>7, <2>1, <2>2, <2>3 DEF WriteToml, Managed
  <2> QED BY <1>7, <2>4 DEF WriteToml, Managed
<1>8. CASE WriteState
  <2>1. state = cmd.before.state
    BY <1>8 DEF WriteState, IInv, StateFound
  <2>2. Patched.rest = toml.rest
    BY <1>8 DEF WriteState, Patched, Tomls
  <2>3. Kept(NewState)
    BY <1>8, <2>1, <2>2 DEF WriteState, NewState, Managed
  <2> QED BY <1>8, <2>3 DEF WriteState, Managed
<1>9. CASE WritePlist
  BY <1>9 DEF WritePlist, Managed
<1>10. CASE Bootout
  BY <1>10 DEF Bootout, Managed
<1>11. CASE Bootstrap
  BY <1>11 DEF Bootstrap, Managed
<1>12. CASE Finish
  BY <1>12 DEF Finish, Managed
<1> QED BY <1>1, <1>2, <1>3, <1>4, <1>5, <1>6, <1>7, <1>8, <1>9, <1>10, <1>11, <1>12 DEF Install

LEMMA UndoCopies == KInv /\ Undo => Copies' /\ toml'.rest = toml.rest
<1> SUFFICES ASSUME KInv, Undo PROVE Copies' /\ toml'.rest = toml.rest
    OBVIOUS
<1> USE DEF KInv, IInv, GivenBack, Copies, Kept, Copying, NeedsBackup, Switching, PreviousManaged
<1>1. CASE Fail
  BY <1>1 DEF Fail, Managed
<1>2. CASE UndoToml
  BY <1>2 DEF UndoToml, Managed
<1>3. CASE UndoKey
  BY <1>3 DEF UndoKey, Managed
<1>4. CASE UndoFiles
  BY <1>4 DEF UndoFiles, Managed
<1>5. CASE UndoConfig
  BY <1>5 DEF UndoConfig, Managed
<1>6. CASE UndoState
  BY <1>6 DEF UndoState, Managed
<1>7. CASE UndoService
  BY <1>7 DEF UndoService, AfterService, Managed
<1>8. CASE UndoServiceFails
  BY <1>8 DEF UndoServiceFails, Managed
<1>9. CASE UndoClaim
  BY <1>9 DEF UndoClaim, Managed
<1> QED BY <1>1, <1>2, <1>3, <1>4, <1>5, <1>6, <1>7, <1>8, <1>9 DEF Undo

LEMMA RemoveCopies == KInv /\ Remove => Copies' /\ toml'.rest = toml.rest
<1> SUFFICES ASSUME KInv, Remove PROVE Copies' /\ toml'.rest = toml.rest
    OBVIOUS
<1> USE DEF KInv, IInv, GivenBack, Copies, Kept, Copying, NeedsBackup, Switching, PreviousManaged
<1>1. CASE Uninstall
  <2>1. cmd'.before = Snapshot
    BY <1>1, Uninstalls
  <2>2. cmd'.before.state = state /\ cmd'.before.toml = toml
    BY <2>1, Snaps
  <2>3. pc \in Quiet /\ pc' = "remove service" /\ cmd'.manual = ~Managed(state)
    BY <1>1, Uninstalls
  <2> QED BY <1>1, <2>2, <2>3 DEF Uninstall, Managed
<1>2. CASE RemoveService
  BY <1>2 DEF RemoveService, Managed
<1>3. CASE RestoreToml
  <2>1. toml' \in Tomls /\ toml'.rest = toml.rest
    BY <1>3 DEF RestoreToml, Restored, Tomls
  <2> QED BY <1>3, <2>1 DEF RestoreToml, Managed
<1>4. CASE MarkRestored
  BY <1>4 DEF MarkRestored, Managed
<1>5. CASE DeleteKey
  BY <1>5 DEF DeleteKey, Managed
<1>6. CASE Release
  BY <1>6 DEF Release, Managed
<1>7. CASE RemoveState
  BY <1>7 DEF RemoveState, Managed
<1> QED BY <1>1, <1>2, <1>3, <1>4, <1>5, <1>6, <1>7 DEF Remove

LEMMA QuietEdits == ASSUME EditWindow = FALSE, EditRest PROVE pc \in Quiet
BY DEF EditRest, MayEdit, Idle

LEMMA RestIsCount == Copies => toml.rest \in Nat
BY EditsAssumption DEF Copies, Tomls

LEMMA EditCopies == KInv /\ pc \in Quiet /\ EditRest => Copies' /\ toml'.rest = toml.rest + 1
<1> SUFFICES ASSUME KInv, pc \in Quiet, EditRest PROVE Copies' /\ toml'.rest = toml.rest + 1
    OBVIOUS
<1>1. toml \in Tomls /\ toml.rest < MaxEdits /\ toml' = [toml EXCEPT !.rest = @ + 1]
  BY DEF KInv, Copies, EditRest
<1>2. toml' \in Tomls /\ toml'.rest = toml.rest + 1
  BY <1>1, EditsAssumption DEF Tomls
<1>3. pc' \in Quiet /\ state' = state
  BY DEF EditRest, command
<1> QED BY <1>2, <1>3 DEF KInv, Copies, Kept, Copying, Managed

LEMMA UrlCopies == KInv /\ EditUrl => Copies' /\ toml'.rest = toml.rest
<1> SUFFICES ASSUME KInv, EditUrl PROVE Copies' /\ toml'.rest = toml.rest
    OBVIOUS
<1>1. PICK url \in Ports \union UserUrls : toml' = [toml EXCEPT !.url = url]
  BY DEF EditUrl
<1>2. toml' \in Tomls /\ toml'.rest = toml.rest
  BY <1>1 DEF KInv, Copies, Tomls
<1>3. pc' \in Quiet /\ state' = state
  BY DEF EditUrl, Idle, command
<1> QED BY <1>2, <1>3 DEF KInv, Copies, Kept, Copying, Managed

LEMMA CrashCopies == KInv /\ Crash => Copies' /\ toml'.rest = toml.rest
<1> SUFFICES ASSUME KInv, Crash PROVE Copies' /\ toml'.rest = toml.rest
    OBVIOUS
<1>1. pc' \in Quiet /\ state' = state /\ toml' = toml
  BY DEF Crash
<1> QED BY <1>1 DEF KInv, Copies, Kept, Copying, Managed

LEMMA StillCopies == KInv /\ UNCHANGED vars => Copies'
BY DEF KInv, Copies, Kept, Copying, NeedsBackup, Switching, PreviousManaged, vars, command, Managed

(* While no edit falls into the waits of an install, no step of any        *)
(* command takes an edit of the user back.                                 *)
THEOREM EditsAreKept == ASSUME EditWindow = FALSE PROVE Spec => EditsSurvive
<1>1. KInv /\ [Next]_vars => KInv'
  BY InstallInv, UndoInv, RemoveInv, UserInv,
     InstallCopies, UndoCopies, RemoveCopies, QuietEdits, EditCopies, UrlCopies, CrashCopies, StillCopies DEF KInv, Next
<1>2. KInv /\ [Next]_vars => [toml'.rest >= toml.rest]_vars
  <2> SUFFICES ASSUME KInv, Next PROVE toml'.rest >= toml.rest
    OBVIOUS
  <2>1. toml.rest \in Nat
    BY RestIsCount DEF KInv
  <2>2. toml'.rest = toml.rest \/ toml'.rest = toml.rest + 1
    BY InstallCopies, UndoCopies, RemoveCopies, QuietEdits, EditCopies, UrlCopies, CrashCopies DEF Next
  <2> QED BY <2>1, <2>2
<1>3. Init => KInv
  BY InitInv, InitCopies DEF KInv
<1> QED BY <1>1, <1>2, <1>3, PTL DEF Spec, EditsSurvive

-----------------------------------------------------------------------------
(* Types.                                                                  *)

Commands == [port : Ports \union {None}, key : Keys \union {None}, build : Builds \union {None},
             before : Snapshots, manual : BOOLEAN]

Installing == {"prepared", "backup", "key", "catalog", "toml", "state", "plist", "bootout", "bootstrap",
               "health"} \union Undoing

Returnable(s) == Managed(s) => s.backup # None /\ s.hash # None

FileTypes ==
    /\ toml \in Tomls /\ config \in Ports \union {None} /\ key \in Keys \union {None}
    /\ state \in States \union {None} /\ plist \in Builds \union {None}
    /\ service \in [build : Builds, port : Ports] \union {None} /\ claim \in BOOLEAN
    /\ own \in Ports \union UserUrls /\ died \in BOOLEAN
    /\ Returnable(state)

CommandTypes ==
    /\ pc \in Places /\ backup \in Tomls \union {None}
    /\ {claimed, launch, unchanged} \subseteq BOOLEAN
    /\ cmd \in Commands \union {None}
    /\ pc \notin Quiet => cmd \in Commands /\ Returnable(cmd.before.state)
    /\ pc \in Installing => cmd.port \in Ports /\ cmd.build \in Builds

(* What an install has made when it comes to use it. *)
Written ==
    /\ pc \in {"toml", "state", "plist", "bootout", "bootstrap", "health"} => config \in Ports
    /\ pc \in {"bootout", "bootstrap", "health"} => plist \in Builds
    /\ pc \in {"undo toml", "undo key", "undo config", "undo state", "undo service"} /\ launch /\ Switching
          => config \in Ports
    /\ pc = "undo service" /\ launch => config \in Ports
    /\ launch => pc \in Installing \ Reading
    /\ pc = "undo state" => Switching
    /\ pc = "undo files" => ~Switching
    /\ pc \in {"key", "catalog", "toml", "state", "plist", "bootout", "bootstrap", "health"} /\ NeedsBackup
          => backup \in Tomls
    /\ pc \in {"undo service", "undo toml"} /\ ~Switching /\ ~cmd.manual => backup \in Tomls

TypeInv == IInv /\ FileTypes /\ CommandTypes /\ Written

LEMMA RestoredType ==
    ASSUME NEW s \in States, Returnable(s), Managed(s), NEW current \in Tomls
    PROVE  Restored(s, current) \in Tomls
BY DEF Restored, Returnable, States, Tomls

LEMMA SnapshotType == FileTypes => Snapshot \in Snapshots /\ Returnable(Snapshot.state)
BY DEF FileTypes, Snapshot, Snapshots

LEMMA BeginTypes == ASSUME FileTypes, Begin PROVE cmd' \in Commands /\ cmd'.before = Snapshot /\ cmd'.build \in Builds
<1>1. PICK port \in Ports, newKey \in Keys \union {None}, build \in Builds, option \in BOOLEAN, managedAnyway \in BOOLEAN :
        cmd' = [port |-> port, key |-> newKey, build |-> build, before |-> Snapshot,
                manual |-> (option \/ (state # None /\ ~state.managed)) /\ ~(option /\ managedAnyway)]
  BY DEF Begin
<1>2. ((option \/ (state # None /\ ~state.managed)) /\ ~(option /\ managedAnyway)) \in BOOLEAN
  OBVIOUS
<1> QED
  BY <1>1, <1>2, SnapshotType DEF Commands

LEMMA UninstallTypes == ASSUME FileTypes, Uninstall PROVE cmd' \in Commands /\ cmd'.before = Snapshot
<1>1. (~Managed(state)) \in BOOLEAN
  OBVIOUS
<1> QED
  BY <1>1, SnapshotType DEF Uninstall, Commands

LEMMA NewStateType ==
    ASSUME TypeInv, WriteState
    PROVE  NewState \in States /\ Returnable(NewState)
<1>1. /\ cmd \in Commands /\ cmd.port \in Ports /\ state = cmd.before.state /\ Returnable(state)
      /\ NeedsBackup => backup \in Tomls
  BY DEF TypeInv, WriteState, CommandTypes, Written, IInv, StateFound, FileTypes, Installing
<1>2. Patched \in Tomls
  BY <1>1 DEF Patched, Commands, Snapshots, Tomls
<1>3. ~cmd.manual /\ ~NeedsBackup => state \in States /\ state.backup \in Tomls /\ state.hash \in Tomls
  BY <1>1 DEF TypeInv, NeedsBackup, PreviousManaged, Switching, Returnable, FileTypes, States, Managed
<1> DEFINE managed == ~cmd.manual
           kept == IF cmd.manual THEN None ELSE IF NeedsBackup THEN backup ELSE state.backup
           hash == IF cmd.manual THEN None
                   ELSE IF NeedsBackup \/ (~unchanged /\ cmd.before.toml = state.hash) THEN Patched
                   ELSE state.hash
<1>4. managed \in BOOLEAN /\ kept \in Tomls \union {None} /\ hash \in Tomls \union {None}
  BY <1>1, <1>2, <1>3
<1>5. NewState = [managed |-> managed, restored |-> FALSE, backup |-> kept, hash |-> hash]
  BY DEF NewState
<1>6. managed => kept # None /\ hash # None
  BY <1>1, <1>2, <1>3, ChoicesAssumption
<1>7. NewState \in States /\ Returnable(NewState)
  <2> HIDE DEF managed, kept, hash
  <2> QED
    BY <1>4, <1>5, <1>6, ChoicesAssumption DEF States, Returnable, Managed
<1> QED
  BY <1>7

LEMMA InstallTypes ==
    ASSUME TypeInv, Install
    PROVE  FileTypes' /\ CommandTypes' /\ Written'
<1> USE DEF TypeInv
<1>1. CASE Begin
  <2>1. FileTypes'
    BY <1>1 DEF Begin, FileTypes, CommandTypes, Commands, Installing, Snapshots, Written, Switching
  <2>2. CommandTypes'
    BY <1>1, BeginTypes, Begins, SnapshotType DEF Begin, FileTypes, CommandTypes, Places, Installing
  <2>3. Written'
    BY <1>1, Begins DEF Begin, Written, CommandTypes, Installing
  <2> QED
    BY <2>1, <2>2, <2>3
<1>2. CASE Refuse
  <2>1. FileTypes'
    BY <1>2 DEF Refuse, FileTypes, CommandTypes, Commands, Installing, Snapshots, Written, Switching
  <2>2. CommandTypes'
    BY <1>2 DEF Refuse, CommandTypes, Places, Installing, Returnable, Switching
  <2>3. Written'
    BY <1>2 DEF Refuse, Written, CommandTypes, Installing, Switching, NeedsBackup, PreviousManaged
  <2> QED
    BY <2>1, <2>2, <2>3
<1>3. CASE Claim
  <2>1. FileTypes'
    BY <1>3 DEF Claim, FileTypes, CommandTypes, Commands, Installing, Snapshots, Written, Switching
  <2>2. CommandTypes'
    BY <1>3 DEF Claim, CommandTypes, Places, Installing, Returnable, Switching
  <2>3. Written'
    BY <1>3 DEF Claim, Written, CommandTypes, Installing, Switching, NeedsBackup, PreviousManaged
  <2> QED
    BY <2>1, <2>2, <2>3
<1>4. CASE Backup
  <2>1. FileTypes'
    BY <1>4 DEF Backup, FileTypes, CommandTypes, Commands, Installing, Snapshots, Written, Switching
  <2>2. CommandTypes'
    BY <1>4 DEF Backup, FileTypes, CommandTypes, Places, Installing
  <2>3. Written'
    BY <1>4 DEF Backup, FileTypes, CommandTypes, Installing, Switching, Written, NeedsBackup, PreviousManaged
  <2> QED
    BY <2>1, <2>2, <2>3
<1>5. CASE SaveKey
  <2>1. FileTypes'
    BY <1>5 DEF SaveKey, FileTypes, CommandTypes, Commands, Installing, Snapshots, Written, Switching
  <2>2. CommandTypes'
    BY <1>5 DEF SaveKey, CommandTypes, Places, Installing, Returnable, Switching
  <2>3. Written'
    BY <1>5 DEF SaveKey, Written, CommandTypes, Installing, Switching, NeedsBackup, PreviousManaged
  <2> QED
    BY <2>1, <2>2, <2>3
<1>6. CASE WriteConfig
  <2>1. FileTypes'
    BY <1>6 DEF WriteConfig, FileTypes, CommandTypes, Commands, Installing, Snapshots, Written, Switching
  <2>2. CommandTypes'
    BY <1>6 DEF WriteConfig, CommandTypes, Places, Installing, Returnable, Switching
  <2>3. Written'
    BY <1>6 DEF WriteConfig, Written, CommandTypes, Installing, Switching, NeedsBackup, PreviousManaged
  <2> QED
    BY <2>1, <2>2, <2>3
<1>7. CASE WriteToml
  <2>1. FileTypes'
    BY <1>7 DEF WriteToml, FileTypes, CommandTypes, Commands, Snapshots, Returnable, Managed, IInv, StateFound, States, Tomls, Restored, Patched,
               PreviousManaged, Switching, Installing
  <2>2. CommandTypes'
    BY <1>7 DEF WriteToml, CommandTypes, Places, Installing, Returnable, Switching
  <2>3. Written'
    BY <1>7 DEF WriteToml, Written, CommandTypes, Installing, Switching, NeedsBackup, PreviousManaged
  <2> QED
    BY <2>1, <2>2, <2>3
<1>8. CASE WriteState
  <2>1. FileTypes'
    BY <1>8, NewStateType DEF WriteState, FileTypes
  <2>2. CommandTypes'
    BY <1>8 DEF WriteState, CommandTypes, Places, Installing, Returnable, Switching
  <2>3. Written'
    BY <1>8 DEF WriteState, Written, CommandTypes, Installing, Switching, NeedsBackup, PreviousManaged
  <2> QED
    BY <2>1, <2>2, <2>3
<1>9. CASE WritePlist
  <2>1. FileTypes'
    BY <1>9 DEF WritePlist, FileTypes, CommandTypes, Commands, Installing, Snapshots, Written, Switching
  <2>2. CommandTypes'
    BY <1>9 DEF WritePlist, CommandTypes, Places, Installing, Returnable, Switching
  <2>3. Written'
    BY <1>9 DEF WritePlist, Written, CommandTypes, Installing, Switching, NeedsBackup, PreviousManaged
  <2> QED
    BY <2>1, <2>2, <2>3
<1>10. CASE Bootout
  <2>1. FileTypes'
    BY <1>10 DEF Bootout, FileTypes, CommandTypes, Commands, Installing, Snapshots, Written, Switching
  <2>2. CommandTypes'
    BY <1>10 DEF Bootout, CommandTypes, Places, Installing, Returnable, Switching
  <2>3. Written'
    BY <1>10 DEF Bootout, Written, CommandTypes, Installing, Switching, NeedsBackup, PreviousManaged
  <2> QED
    BY <2>1, <2>2, <2>3
<1>11. CASE Bootstrap
  <2>1. FileTypes'
    BY <1>11 DEF Bootstrap, FileTypes, CommandTypes, Commands, Snapshots, Returnable, Managed, Written, Loaded
  <2>2. CommandTypes'
    BY <1>11 DEF Bootstrap, CommandTypes, Places, Installing, Returnable, Switching
  <2>3. Written'
    BY <1>11 DEF Bootstrap, Written, CommandTypes, Installing, Switching, NeedsBackup, PreviousManaged
  <2> QED
    BY <2>1, <2>2, <2>3
<1>12. CASE Finish
  <2>1. FileTypes'
    BY <1>12 DEF Finish, FileTypes, CommandTypes, Commands, Installing, Snapshots, Written, Switching
  <2>2. CommandTypes'
    BY <1>12 DEF Finish, CommandTypes, Places, Installing, Returnable, Switching
  <2>3. Written'
    BY <1>12 DEF Finish, Written, CommandTypes, Installing, Switching, NeedsBackup, PreviousManaged
  <2> QED
    BY <2>1, <2>2, <2>3
<1> QED
  BY <1>1, <1>2, <1>3, <1>4, <1>5, <1>6, <1>7, <1>8, <1>9, <1>10, <1>11, <1>12 DEF Install

LEMMA UndoTypes ==
    ASSUME TypeInv, Undo
    PROVE  FileTypes' /\ CommandTypes' /\ Written'
<1> USE DEF TypeInv
<1>1. CASE Fail
  <2>1. FileTypes'
    BY <1>1 DEF Fail, FileTypes, CommandTypes, Commands, Installing, Snapshots, Written, Switching
  <2>2. CommandTypes'
    BY <1>1 DEF Fail, CommandTypes, Places, Installing, Returnable, Switching
  <2>3. Written'
    BY <1>1 DEF Fail, Written, CommandTypes, Installing, Switching, NeedsBackup, PreviousManaged
  <2> QED
    BY <2>1, <2>2, <2>3
<1>2. CASE UndoToml
  <2>1. FileTypes'
    BY <1>2 DEF UndoToml, FileTypes, CommandTypes, Commands, Installing, Snapshots, Written, Switching
  <2>2. CommandTypes'
    BY <1>2 DEF UndoToml, CommandTypes, Places, Installing, Returnable, Switching
  <2>3. Written'
    BY <1>2 DEF UndoToml, Written, CommandTypes, Installing, Switching, NeedsBackup, PreviousManaged
  <2> QED
    BY <2>1, <2>2, <2>3
<1>3. CASE UndoKey
  <2>1. FileTypes'
    BY <1>3 DEF UndoKey, FileTypes, CommandTypes, Commands, Installing, Snapshots, Written, Switching
  <2>2. CommandTypes'
    BY <1>3 DEF UndoKey, CommandTypes, Places, Installing, Returnable, Switching
  <2>3. Written'
    BY <1>3 DEF UndoKey, Written, CommandTypes, Installing, Switching, NeedsBackup, PreviousManaged
  <2> QED
    BY <2>1, <2>2, <2>3
<1>4. CASE UndoFiles
  <2>1. FileTypes'
    BY <1>4 DEF UndoFiles, FileTypes, CommandTypes, Commands, Snapshots, Returnable, Managed
  <2>2. CommandTypes'
    BY <1>4 DEF UndoFiles, CommandTypes, Places, Installing, Returnable, Switching
  <2>3. Written'
    BY <1>4 DEF UndoFiles, Written, CommandTypes, Installing, Switching, NeedsBackup, PreviousManaged
  <2> QED
    BY <2>1, <2>2, <2>3
<1>5. CASE UndoConfig
  <2>1. FileTypes'
    BY <1>5 DEF UndoConfig, FileTypes, CommandTypes, Commands, Installing, Snapshots, Written, Switching
  <2>2. CommandTypes'
    BY <1>5 DEF UndoConfig, CommandTypes, Places, Installing, Returnable, Switching
  <2>3. Written'
    BY <1>5 DEF UndoConfig, FileTypes, CommandTypes, Commands, Snapshots, Installing, Switching, Written
  <2> QED
    BY <2>1, <2>2, <2>3
<1>6. CASE UndoState
  <2>1. FileTypes'
    BY <1>6 DEF UndoState, FileTypes, CommandTypes, Commands, Installing, Snapshots, Written, Switching
  <2>2. CommandTypes'
    BY <1>6 DEF UndoState, CommandTypes, Places, Installing, Returnable, Switching
  <2>3. Written'
    BY <1>6 DEF UndoState, Written, CommandTypes, Installing, Switching, NeedsBackup, PreviousManaged
  <2> QED
    BY <2>1, <2>2, <2>3
<1>7. CASE UndoService
  <2>1. FileTypes'
    <3>1. /\ cmd.before.plist \in Builds \union {None} /\ UNCHANGED <<toml, config, key, state, claim, own, died>>
          /\ launch => config \in Ports
      BY <1>7 DEF UndoService, CommandTypes, Commands, Snapshots, Written
    <3>2. plist' \in Builds \union {None}
      BY <1>7, <3>1 DEF UndoService, FileTypes
    <3>3. service' \in [build : Builds, port : Ports] \union {None}
      <4>1. CASE ~launch
        BY <1>7, <4>1 DEF UndoService, FileTypes
      <4>2. CASE launch /\ cmd.before.plist = None /\ Switching
        <5>1. plist \in Builds /\ config \in Ports /\ service' = [build |-> plist, port |-> config]
          BY <1>7, <3>1, <4>2 DEF UndoService, FileTypes, Loaded
        <5> QED
          BY <5>1
      <4>3. CASE launch /\ cmd.before.plist = None /\ ~Switching
        BY <1>7, <4>3 DEF UndoService
      <4>4. CASE launch /\ cmd.before.plist # None
        <5>1. \/ service' = [build |-> cmd.before.plist, port |-> config]
              \/ service' = None
          BY <1>7, <4>4 DEF UndoService, Reloaded
        <5> QED
          BY <3>1, <4>4, <5>1
      <4> QED
        BY <4>1, <4>2, <4>3, <4>4
    <3> QED
      BY <3>1, <3>2, <3>3 DEF FileTypes
  <2>2. CommandTypes'
    BY <1>7 DEF UndoService, CommandTypes, Places, Installing, AfterService, Switching
  <2>3. Written'
    BY <1>7 DEF UndoService, CommandTypes, Places, Installing, AfterService, Switching, Written
  <2> QED
    BY <2>1, <2>2, <2>3
<1>8. CASE UndoServiceFails
  <2>1. FileTypes'
    BY <1>8 DEF UndoServiceFails, FileTypes, CommandTypes, Commands, Installing, Snapshots, Written, Switching
  <2>2. CommandTypes'
    BY <1>8 DEF UndoServiceFails, CommandTypes, Places, Installing, Returnable, Switching
  <2>3. Written'
    BY <1>8 DEF UndoServiceFails, Written, CommandTypes, Installing, Switching, NeedsBackup, PreviousManaged
  <2> QED
    BY <2>1, <2>2, <2>3
<1>9. CASE UndoClaim
  <2>1. FileTypes'
    BY <1>9 DEF UndoClaim, FileTypes, CommandTypes, Commands, Installing, Snapshots, Written, Switching
  <2>2. CommandTypes'
    BY <1>9 DEF UndoClaim, CommandTypes, Places, Installing, Returnable, Switching
  <2>3. Written'
    BY <1>9 DEF UndoClaim, Written, CommandTypes, Installing, Switching, NeedsBackup, PreviousManaged
  <2> QED
    BY <2>1, <2>2, <2>3
<1> QED
  BY <1>1, <1>2, <1>3, <1>4, <1>5, <1>6, <1>7, <1>8, <1>9 DEF Undo

LEMMA RemoveTypes ==
    ASSUME TypeInv, Remove
    PROVE  FileTypes' /\ CommandTypes' /\ Written'
<1> USE DEF TypeInv
<1>1. CASE Uninstall
  <2>1. FileTypes'
    BY <1>1 DEF Uninstall, FileTypes, CommandTypes, Commands, Installing, Snapshots, Written, Switching
  <2>2. CommandTypes'
    BY <1>1, UninstallTypes, SnapshotType DEF Uninstall, FileTypes, CommandTypes, Places, Installing, Idle
  <2>3. Written'
    BY <1>1, Uninstalls DEF Uninstall, Written, CommandTypes, Installing
  <2> QED
    BY <2>1, <2>2, <2>3
<1>2. CASE RemoveService
  <2>1. FileTypes'
    BY <1>2 DEF RemoveService, FileTypes, CommandTypes, Commands, Installing, Snapshots, Written, Switching
  <2>2. CommandTypes'
    BY <1>2 DEF RemoveService, CommandTypes, Places, Installing, Returnable, Switching
  <2>3. Written'
    BY <1>2 DEF RemoveService, Written, CommandTypes, Installing, Switching, NeedsBackup, PreviousManaged
  <2> QED
    BY <2>1, <2>2, <2>3
<1>3. CASE RestoreToml
  <2>1. FileTypes'
    <3>1. Managed(state) /\ state \in States /\ Returnable(state) /\ toml \in Tomls
      BY <1>3 DEF RestoreToml, IInv, GivenBack, FileTypes, Managed
    <3> QED
      BY <1>3, <3>1, RestoredType DEF RestoreToml, FileTypes
  <2>2. CommandTypes'
    BY <1>3 DEF RestoreToml, CommandTypes, Places, Installing, Returnable, Switching
  <2>3. Written'
    BY <1>3 DEF RestoreToml, Written, CommandTypes, Installing, Switching, NeedsBackup, PreviousManaged
  <2> QED
    BY <2>1, <2>2, <2>3
<1>4. CASE MarkRestored
  <2>1. FileTypes'
    BY <1>4 DEF MarkRestored, FileTypes, CommandTypes, Commands, Snapshots, Returnable, Managed, IInv, GivenBack, States
  <2>2. CommandTypes'
    BY <1>4 DEF MarkRestored, CommandTypes, Places, Installing, Returnable, Switching
  <2>3. Written'
    BY <1>4 DEF MarkRestored, Written, CommandTypes, Installing, Switching, NeedsBackup, PreviousManaged
  <2> QED
    BY <2>1, <2>2, <2>3
<1>5. CASE DeleteKey
  <2>1. FileTypes'
    BY <1>5 DEF DeleteKey, FileTypes, CommandTypes, Commands, Installing, Snapshots, Written, Switching
  <2>2. CommandTypes'
    BY <1>5 DEF DeleteKey, CommandTypes, Places, Installing, Returnable, Switching
  <2>3. Written'
    BY <1>5 DEF DeleteKey, Written, CommandTypes, Installing, Switching, NeedsBackup, PreviousManaged
  <2> QED
    BY <2>1, <2>2, <2>3
<1>6. CASE Release
  <2>1. FileTypes'
    BY <1>6 DEF Release, FileTypes, CommandTypes, Commands, Installing, Snapshots, Written, Switching
  <2>2. CommandTypes'
    BY <1>6 DEF Release, CommandTypes, Places, Installing, Returnable, Switching
  <2>3. Written'
    BY <1>6 DEF Release, Written, CommandTypes, Installing, Switching, NeedsBackup, PreviousManaged
  <2> QED
    BY <2>1, <2>2, <2>3
<1>7. CASE RemoveState
  <2>1. FileTypes'
    BY <1>7 DEF RemoveState, FileTypes, CommandTypes, Commands, Snapshots, Returnable, Managed
  <2>2. CommandTypes'
    BY <1>7 DEF RemoveState, CommandTypes, Places, Installing, Returnable, Switching
  <2>3. Written'
    BY <1>7 DEF RemoveState, Written, CommandTypes, Installing, Switching, NeedsBackup, PreviousManaged
  <2> QED
    BY <2>1, <2>2, <2>3
<1> QED
  BY <1>1, <1>2, <1>3, <1>4, <1>5, <1>6, <1>7 DEF Remove

LEMMA TypesInit == Init => TypeInv
<1> SUFFICES ASSUME Init PROVE TypeInv
  OBVIOUS
<1>1. FileTypes
  <2>1. toml \in Tomls /\ own \in Ports \union UserUrls
    BY EditsAssumption DEF Init, Tomls
  <2>2. /\ config \in Ports \union {None} /\ plist \in Builds \union {None}
        /\ service \in [build : Builds, port : Ports] \union {None}
    BY DEF Init, Loaded
  <2>3. /\ key = None /\ state = None /\ claim = FALSE /\ died = FALSE
    BY DEF Init
  <2> QED
    BY <2>1, <2>2, <2>3 DEF FileTypes, Returnable, Managed
<1>2. CommandTypes
  BY DEF Init, CommandTypes, Places, Installing
<1>3. Written
  BY DEF Init, Written, Installing
<1> QED
  BY <1>1, <1>2, <1>3, InitInv DEF TypeInv

LEMMA TypesStep == TypeInv /\ [Next]_vars => TypeInv'
<1> SUFFICES ASSUME TypeInv, [Next]_vars PROVE TypeInv'
  OBVIOUS
<1> USE DEF TypeInv
<1>1. IInv'
  BY InstallInv, UndoInv, RemoveInv, UserInv DEF Next
<1>2. CASE EditRest
  <2>1. FileTypes'
    BY <1>2, EditsAssumption DEF EditRest, FileTypes, Tomls
  <2>2. CommandTypes'
    BY <1>2 DEF EditRest, command, CommandTypes
  <2>3. Written'
    BY <1>2 DEF EditRest, command, Written, Switching, NeedsBackup, PreviousManaged
  <2> QED
    BY <1>1, <2>1, <2>2, <2>3
<1>3. CASE EditUrl
  <2>1. FileTypes'
    BY <1>3 DEF EditUrl, FileTypes, Tomls
  <2>2. CommandTypes'
    BY <1>3 DEF EditUrl, command, CommandTypes
  <2>3. Written'
    BY <1>3 DEF EditUrl, command, Written, Switching, NeedsBackup, PreviousManaged
  <2> QED
    BY <1>1, <2>1, <2>2, <2>3
<1>4. CASE Crash
  <2>1. FileTypes'
    BY <1>4 DEF Crash, FileTypes
  <2>2. CommandTypes'
    BY <1>4 DEF Crash, CommandTypes, Places, Installing
  <2>3. Written'
    BY <1>4 DEF Crash, Written
  <2> QED
    BY <1>1, <2>1, <2>2, <2>3
<1>5. CASE UNCHANGED vars
  <2>1. FileTypes'
    BY <1>5 DEF vars, FileTypes
  <2>2. CommandTypes'
    BY <1>5 DEF vars, command, CommandTypes
  <2>3. Written'
    BY <1>5 DEF vars, command, Written, Switching, NeedsBackup, PreviousManaged
  <2> QED
    BY <1>1, <2>1, <2>2, <2>3
<1> QED
  BY <1>1, <1>2, <1>3, <1>4, <1>5, InstallTypes, UndoTypes, RemoveTypes DEF Next

(* After any sequence of installs, failures, crashes and uninstalls, every *)
(* file is one the commands write, a service runs from a definition and an *)
(* address that were written, and a home that manages config.toml can give *)
(* it back.                                                                *)
THEOREM InstallationTypes == Spec => []TypeOK
<1>1. TypeInv => TypeOK
  BY DEF TypeInv, FileTypes, CommandTypes, TypeOK, Returnable, Snapshot, Snapshots, Commands
<1> QED
  BY <1>1, TypesInit, TypesStep, PTL DEF Spec

-----------------------------------------------------------------------------
(* What a command that fails restores.                                     *)

Early     == {"prepared", "backup", "key", "catalog", "toml"}
Undone    == {"undo key", "undo files", "undo config", "undo state", "undo claim"}

(* Place by place, which file is as the command found it.                  *)
TomlFound ==
    /\ pc \in Early \union Undone => toml = cmd.before.toml
    /\ pc = "undo service" /\ Switching => toml = cmd.before.toml
    /\ pc \in Early \union Quiet => ~unchanged
    /\ pc \in Held \union {"undo toml", "undo service"} /\ (unchanged \/ (cmd.manual /\ ~Switching))
          => toml = cmd.before.toml
    /\ pc \in Copying /\ NeedsBackup => backup = cmd.before.toml

KeyFound ==
    /\ pc \in {"prepared", "backup", "key"} \union (Undone \ {"undo key"}) => key = cmd.before.key
    /\ pc = "undo service" /\ Switching => key = cmd.before.key

ConfigFound ==
    /\ state # None => config # None
    /\ pc \notin Quiet /\ cmd.before.state # None => cmd.before.config # None
    /\ pc \in {"toml", "state"} \union Launching => config # None
    /\ pc \in {"prepared", "backup", "key", "catalog", "undo state", "undo claim"} => config = cmd.before.config
    /\ pc = "undo service" /\ Switching => config = cmd.before.config
    /\ pc = "undo config" /\ ~Switching => config = None

(* The service is back, or it is known that it is not.                     *)
ServiceBack ==
    /\ plist = cmd.before.plist
    /\ service = cmd.before.service \/ (launch /\ cmd.before.service # None /\ service = None)

ServiceFound ==
    /\ pc \in Installing /\ ~launch => plist = cmd.before.plist /\ service = cmd.before.service
    /\ pc \in Launching => launch
    /\ pc = "undo claim" /\ Restorable(cmd.before) => ServiceBack
    /\ pc \in {"undo toml", "undo key", "undo files", "undo config"} /\ ~Switching /\ Restorable(cmd.before)
          => ServiceBack
    /\ pc = "undo files" => ~Switching

ClaimFound ==
    /\ pc = "prepared" => claim = cmd.before.claim
    /\ pc \in Held \union Undoing => (claim /\ ~claimed) = cmd.before.claim

(* The managed keys as the user last set them are in config.toml or, while *)
(* this home manages it, in the backup that state.json holds.              *)
Given(s, t) == IF Managed(s) THEN s.backup.url = own ELSE t.url = own

KeysKnown ==
    /\ pc \in Quiet \union {"remove service"} \union Launching => Given(state, toml)
    /\ pc = "undo service" /\ ~Switching /\ launch => Given(state, toml)
    /\ pc \in Installing => Given(cmd.before.state, cmd.before.toml)
    /\ pc = "state" /\ cmd.manual => toml.url = own
    /\ pc = "restore toml" => state.backup.url = own
    /\ pc \in {"mark", "delete key", "release", "remove state", "uninstalled"} => toml.url = own

FoundState == TomlFound /\ KeyFound /\ ConfigFound /\ ServiceFound /\ ClaimFound

USE DEF Early, Undone, Copying, Installing

LEMMA AllSnaps ==
    /\ Snapshot.toml = toml /\ Snapshot.config = config /\ Snapshot.key = key /\ Snapshot.state = state
    /\ Snapshot.plist = plist /\ Snapshot.service = service /\ Snapshot.claim = claim
BY DEF Snapshot

LEMMA InstallFound == ASSUME TypeInv, FoundState, Install PROVE FoundState'
<1> USE DEF FoundState, TomlFound, KeyFound, ConfigFound, ServiceFound, ClaimFound, Switching, NeedsBackup, PreviousManaged
<1>0. /\ claim \in BOOLEAN /\ claimed \in BOOLEAN /\ launch \in BOOLEAN /\ unchanged \in BOOLEAN
      /\ pc \notin Quiet => cmd.before.claim \in BOOLEAN /\ cmd.manual \in BOOLEAN
      /\ launch => pc \in Installing \ Reading
      /\ pc \in Installing => cmd.port # None
      /\ StateFound /\ GivenBack
  BY ChoicesAssumption DEF TypeInv, FileTypes, CommandTypes, Written, Commands, Snapshots, IInv
<1>1. CASE Begin
  <2>1. cmd'.before = Snapshot /\ pc \in Quiet /\ pc' = "prepared"
    BY <1>1, Begins
  <2>2. /\ UNCHANGED <<toml, config, key, state, plist, service, claim>>
        /\ UNCHANGED <<backup, claimed, launch, unchanged>>
    BY <1>1 DEF Begin
  <2>3. ~launch
    BY <1>0, <2>1
  <2>4. /\ cmd'.before.toml = toml /\ cmd'.before.config = config /\ cmd'.before.key = key
        /\ cmd'.before.state = state /\ cmd'.before.plist = plist /\ cmd'.before.service = service
        /\ cmd'.before.claim = claim
    BY <2>1, AllSnaps
  <2> HIDE <1>1
  <2> QED BY <1>0, <2>1, <2>2, <2>3, <2>4
<1>2. CASE Refuse
  BY <1>0, <1>2 DEF Refuse
<1>3. CASE Claim
  <2>1. TomlFound'
    BY <1>0, <1>3 DEF Claim, StateFound
  <2>2. KeyFound'
    BY <1>0, <1>3 DEF Claim, StateFound
  <2>3. ConfigFound'
    BY <1>0, <1>3 DEF Claim, StateFound
  <2>4. ServiceFound'
    BY <1>0, <1>3 DEF Claim, StateFound, ServiceBack, Restorable
  <2>5. ClaimFound'
    BY <1>0, <1>3 DEF Claim, StateFound
  <2> QED BY <2>1, <2>2, <2>3, <2>4, <2>5
<1>4. CASE Backup
  BY <1>0, <1>4 DEF Backup
<1>5. CASE SaveKey
  BY <1>0, <1>5 DEF SaveKey
<1>6. CASE WriteConfig
  BY <1>0, <1>6 DEF WriteConfig
<1>7. CASE WriteToml
  <2>1. TomlFound'
    BY <1>0, <1>7 DEF WriteToml, Patched, StateFound
  <2>2. KeyFound'
    BY <1>0, <1>7 DEF WriteToml, Patched, StateFound
  <2>3. ConfigFound'
    BY <1>0, <1>7 DEF WriteToml, Patched, StateFound
  <2>4. ServiceFound'
    BY <1>0, <1>7 DEF WriteToml, Patched, StateFound, ServiceBack, Restorable
  <2>5. ClaimFound'
    BY <1>0, <1>7 DEF WriteToml, Patched, StateFound
  <2> QED BY <2>1, <2>2, <2>3, <2>4, <2>5
<1>8. CASE WriteState
  BY <1>0, <1>8 DEF WriteState
<1>9. CASE WritePlist
  BY <1>0, <1>9 DEF WritePlist
<1>10. CASE Bootout
  BY <1>0, <1>10 DEF Bootout
<1>11. CASE Bootstrap
  BY <1>0, <1>11 DEF Bootstrap
<1>12. CASE Finish
  BY <1>0, <1>12 DEF Finish
<1> QED BY <1>1, <1>2, <1>3, <1>4, <1>5, <1>6, <1>7, <1>8, <1>9, <1>10, <1>11, <1>12 DEF Install

LEMMA UndoFound == ASSUME TypeInv, FoundState, Undo PROVE FoundState'
<1> USE DEF FoundState, TomlFound, KeyFound, ConfigFound, ServiceFound, ClaimFound, Switching, NeedsBackup, PreviousManaged
<1>0. /\ claim \in BOOLEAN /\ claimed \in BOOLEAN /\ launch \in BOOLEAN /\ unchanged \in BOOLEAN
      /\ pc \notin Quiet => cmd.before.claim \in BOOLEAN /\ cmd.manual \in BOOLEAN
      /\ launch => pc \in Installing \ Reading
      /\ pc \in Installing => cmd.port # None
      /\ StateFound /\ GivenBack
  BY ChoicesAssumption DEF TypeInv, FileTypes, CommandTypes, Written, Commands, Snapshots, IInv
<1>1. CASE Fail
  <2>1. TomlFound'
    BY <1>0, <1>1 DEF Fail, StateFound
  <2>2. KeyFound'
    BY <1>0, <1>1 DEF Fail, StateFound
  <2>3. ConfigFound'
    BY <1>0, <1>1 DEF Fail, StateFound
  <2>4. ServiceFound'
    BY <1>0, <1>1 DEF Fail, StateFound, ServiceBack, Restorable
  <2>5. ClaimFound'
    BY <1>0, <1>1 DEF Fail, StateFound
  <2> QED BY <2>1, <2>2, <2>3, <2>4, <2>5
<1>2. CASE UndoToml
  <2>1. TomlFound'
    BY <1>0, <1>2 DEF UndoToml, StateFound
  <2>2. KeyFound'
    BY <1>0, <1>2 DEF UndoToml, StateFound
  <2>3. ConfigFound'
    BY <1>0, <1>2 DEF UndoToml, StateFound
  <2>4. ServiceFound'
    BY <1>0, <1>2 DEF UndoToml, StateFound, ServiceBack, Restorable
  <2>5. ClaimFound'
    BY <1>0, <1>2 DEF UndoToml, StateFound
  <2> QED BY <2>1, <2>2, <2>3, <2>4, <2>5
<1>3. CASE UndoKey
  <2>1. TomlFound'
    BY <1>0, <1>3 DEF UndoKey, StateFound
  <2>2. KeyFound'
    BY <1>0, <1>3 DEF UndoKey, StateFound
  <2>3. ConfigFound'
    BY <1>0, <1>3 DEF UndoKey, StateFound
  <2>4. ServiceFound'
    BY <1>0, <1>3 DEF UndoKey, StateFound, ServiceBack, Restorable
  <2>5. ClaimFound'
    BY <1>0, <1>3 DEF UndoKey, StateFound
  <2> QED BY <2>1, <2>2, <2>3, <2>4, <2>5
<1>4. CASE UndoFiles
  <2>1. TomlFound'
    BY <1>0, <1>4 DEF UndoFiles, StateFound
  <2>2. KeyFound'
    BY <1>0, <1>4 DEF UndoFiles, StateFound
  <2>3. ConfigFound'
    BY <1>0, <1>4 DEF UndoFiles, StateFound
  <2>4. ServiceFound'
    BY <1>0, <1>4 DEF UndoFiles, StateFound, ServiceBack, Restorable
  <2>5. ClaimFound'
    BY <1>0, <1>4 DEF UndoFiles, StateFound
  <2> QED BY <2>1, <2>2, <2>3, <2>4, <2>5
<1>5. CASE UndoConfig
  <2>1. TomlFound'
    BY <1>0, <1>5 DEF UndoConfig, StateFound
  <2>2. KeyFound'
    BY <1>0, <1>5 DEF UndoConfig, StateFound
  <2>3. ConfigFound'
    BY <1>0, <1>5 DEF UndoConfig, StateFound
  <2>4. ServiceFound'
    BY <1>0, <1>5 DEF UndoConfig, StateFound, ServiceBack, Restorable
  <2>5. ClaimFound'
    BY <1>0, <1>5 DEF UndoConfig, StateFound
  <2> QED BY <2>1, <2>2, <2>3, <2>4, <2>5
<1>6. CASE UndoState
  <2>1. TomlFound'
    BY <1>0, <1>6 DEF UndoState, StateFound
  <2>2. KeyFound'
    BY <1>0, <1>6 DEF UndoState, StateFound
  <2>3. ConfigFound'
    BY <1>0, <1>6 DEF UndoState, StateFound
  <2>4. ServiceFound'
    BY <1>0, <1>6 DEF UndoState, StateFound, ServiceBack, Restorable
  <2>5. ClaimFound'
    BY <1>0, <1>6 DEF UndoState, StateFound
  <2> QED BY <2>1, <2>2, <2>3, <2>4, <2>5
<1>7. CASE UndoService
  <2>1. TomlFound'
    BY <1>0, <1>7 DEF UndoService, AfterService, Reloaded, Loaded, StateFound
  <2>2. KeyFound'
    BY <1>0, <1>7 DEF UndoService, AfterService, Reloaded, Loaded, StateFound
  <2>3. ConfigFound'
    BY <1>0, <1>7 DEF UndoService, AfterService, Reloaded, Loaded, StateFound
  <2>4. ServiceFound'
    BY <1>0, <1>7 DEF UndoService, AfterService, Reloaded, Loaded, StateFound, ServiceBack, Restorable
  <2>5. ClaimFound'
    BY <1>0, <1>7 DEF UndoService, AfterService, Reloaded, Loaded, StateFound
  <2> QED BY <2>1, <2>2, <2>3, <2>4, <2>5
<1>8. CASE UndoServiceFails
  <2>1. TomlFound'
    BY <1>0, <1>8 DEF UndoServiceFails, StateFound
  <2>2. KeyFound'
    BY <1>0, <1>8 DEF UndoServiceFails, StateFound
  <2>3. ConfigFound'
    BY <1>0, <1>8 DEF UndoServiceFails, StateFound
  <2>4. ServiceFound'
    BY <1>0, <1>8 DEF UndoServiceFails, StateFound, ServiceBack, Restorable
  <2>5. ClaimFound'
    BY <1>0, <1>8 DEF UndoServiceFails, StateFound
  <2> QED BY <2>1, <2>2, <2>3, <2>4, <2>5
<1>9. CASE UndoClaim
  <2>1. TomlFound'
    BY <1>0, <1>9 DEF UndoClaim, StateFound
  <2>2. KeyFound'
    BY <1>0, <1>9 DEF UndoClaim, StateFound
  <2>3. ConfigFound'
    BY <1>0, <1>9 DEF UndoClaim, StateFound
  <2>4. ServiceFound'
    BY <1>0, <1>9 DEF UndoClaim, StateFound, ServiceBack, Restorable
  <2>5. ClaimFound'
    BY <1>0, <1>9 DEF UndoClaim, StateFound
  <2> QED BY <2>1, <2>2, <2>3, <2>4, <2>5
<1> QED BY <1>1, <1>2, <1>3, <1>4, <1>5, <1>6, <1>7, <1>8, <1>9 DEF Undo

LEMMA RemoveFound == ASSUME TypeInv, FoundState, Remove PROVE FoundState'
<1> USE DEF FoundState, TomlFound, KeyFound, ConfigFound, ServiceFound, ClaimFound, Switching, NeedsBackup, PreviousManaged
<1>0. /\ claim \in BOOLEAN /\ claimed \in BOOLEAN /\ launch \in BOOLEAN /\ unchanged \in BOOLEAN
      /\ pc \notin Quiet => cmd.before.claim \in BOOLEAN /\ cmd.manual \in BOOLEAN
      /\ launch => pc \in Installing \ Reading
      /\ pc \in Installing => cmd.port # None
      /\ StateFound /\ GivenBack
  BY ChoicesAssumption DEF TypeInv, FileTypes, CommandTypes, Written, Commands, Snapshots, IInv
<1>1. CASE Uninstall
  <2>1. cmd'.before = Snapshot /\ pc \in Quiet /\ pc' = "remove service"
    BY <1>1, Uninstalls
  <2> QED BY <1>0, <1>1, <2>1, AllSnaps DEF Uninstall
<1>2. CASE RemoveService
  BY <1>0, <1>2 DEF RemoveService
<1>3. CASE RestoreToml
  BY <1>0, <1>3 DEF RestoreToml
<1>4. CASE MarkRestored
  <2>1. TomlFound'
    BY <1>0, <1>4 DEF MarkRestored, StateFound, GivenBack, Managed
  <2>2. KeyFound'
    BY <1>0, <1>4 DEF MarkRestored, StateFound, GivenBack, Managed
  <2>3. ConfigFound'
    BY <1>0, <1>4 DEF MarkRestored, StateFound, GivenBack, Managed
  <2>4. ServiceFound'
    BY <1>0, <1>4 DEF MarkRestored, StateFound, GivenBack, Managed, ServiceBack, Restorable
  <2>5. ClaimFound'
    BY <1>0, <1>4 DEF MarkRestored, StateFound, GivenBack, Managed
  <2> QED BY <2>1, <2>2, <2>3, <2>4, <2>5
<1>5. CASE DeleteKey
  BY <1>0, <1>5 DEF DeleteKey
<1>6. CASE Release
  BY <1>0, <1>6 DEF Release
<1>7. CASE RemoveState
  BY <1>0, <1>7 DEF RemoveState
<1> QED BY <1>1, <1>2, <1>3, <1>4, <1>5, <1>6, <1>7 DEF Remove

LEMMA UserFound ==
    ASSUME EditWindow = FALSE, TypeInv, FoundState, EditRest \/ EditUrl \/ Crash \/ UNCHANGED vars
    PROVE  FoundState'
<1> USE DEF FoundState, TomlFound, KeyFound, ConfigFound, ServiceFound, ClaimFound, Switching, NeedsBackup, PreviousManaged
<1>0. /\ claim \in BOOLEAN /\ claimed \in BOOLEAN /\ launch \in BOOLEAN /\ unchanged \in BOOLEAN
      /\ launch => pc \in Installing \ Reading
      /\ StateFound
  BY DEF TypeInv, FileTypes, CommandTypes, Written, IInv
<1>1. CASE EditRest
  <2>1. pc \in Quiet /\ UNCHANGED <<config, key, state, plist, service, claim, command>>
    BY <1>1 DEF EditRest, MayEdit, Idle
  <2> QED BY <1>0, <2>1 DEF command
<1>2. CASE EditUrl
  <2>1. pc \in Quiet /\ UNCHANGED <<config, key, state, plist, service, claim, command>>
    BY <1>2 DEF EditUrl, Idle
  <2> QED BY <1>0, <2>1 DEF command
<1>3. CASE Crash
  <2>1. pc' = "crashed" /\ ~unchanged' /\ ~launch' /\ UNCHANGED <<config, state>>
    BY <1>3 DEF Crash
  <2> QED BY <1>0, <2>1
<1>4. CASE UNCHANGED vars
  <2>1. /\ UNCHANGED <<toml, config, key, state, plist, service, claim, pc, cmd, backup, launch>>
        /\ (claimed' <=> claimed) /\ (unchanged' <=> unchanged) /\ (claim' <=> claim)
    BY <1>4, Zenon DEF vars, command
  <2> HIDE <1>4
  <2>2. TomlFound'
    BY <1>0, <2>1
  <2>3. KeyFound' /\ ConfigFound'
    BY <1>0, <2>1
  <2>4. ServiceFound'
    BY <1>0, <2>1 DEF ServiceBack, Restorable
  <2>5. ClaimFound'
    BY <1>0, <2>1
  <2> QED BY <2>2, <2>3, <2>4, <2>5
<1> QED BY <1>1, <1>2, <1>3, <1>4

LEMMA FoundInit == Init => FoundState
BY DEF Init, FoundState, TomlFound, KeyFound, ConfigFound, ServiceFound, ClaimFound, Switching, NeedsBackup

LEMMA FoundStep == EditWindow = FALSE /\ TypeInv /\ FoundState /\ [Next]_vars => FoundState'
BY InstallFound, UndoFound, RemoveFound, UserFound DEF Next

-----------------------------------------------------------------------------
LEMMA RestoredUrl ==
    ASSUME NEW s, NEW current \in Tomls
    PROVE  Restored(s, current).url = s.backup.url
BY DEF Restored, Tomls

LEMMA WrittenState == ASSUME TypeInv, WriteState PROVE
    /\ state' # None /\ state'.managed = ~cmd.manual /\ state'.restored = FALSE
    /\ ~cmd.manual => state'.backup = IF NeedsBackup THEN backup ELSE state.backup
<1>1. NewState \in States
  BY NewStateType
<1>2. state' = NewState /\ state' # None
  BY <1>1, ChoicesAssumption DEF WriteState
<1> QED BY <1>2 DEF NewState

LEMMA InstallKnown == ASSUME TypeInv, FoundState, KeysKnown, Install, ~died' PROVE KeysKnown'
<1> USE DEF KeysKnown, Given, Switching
<1>0. /\ StateFound /\ GivenBack /\ TomlFound /\ toml \in Tomls
      /\ pc \notin Quiet => cmd.before.toml \in Tomls /\ cmd.manual \in BOOLEAN
      /\ launch => pc \in Installing \ Reading
      /\ pc = "undo state" => Switching
  BY DEF TypeInv, IInv, FoundState, FileTypes, CommandTypes, Commands, Snapshots, Written
<1>1. CASE Begin
  <2>1. /\ cmd'.before = Snapshot /\ pc \in Quiet /\ pc' = "prepared"
        /\ UNCHANGED <<toml, state, own>>
    BY <1>1, Begins DEF Begin
  <2> QED BY <2>1, AllSnaps DEF Managed
<1>2. CASE Refuse
  BY <1>0, <1>2 DEF Refuse, StateFound, TomlFound, Managed
<1>3. CASE Claim
  BY <1>0, <1>3 DEF Claim, Managed
<1>4. CASE Backup
  BY <1>0, <1>4 DEF Backup, Managed
<1>5. CASE SaveKey
  BY <1>0, <1>5 DEF SaveKey, Managed
<1>6. CASE WriteConfig
  BY <1>0, <1>6 DEF WriteConfig, Managed
<1>7. CASE WriteToml
  <2>1. pc = "toml" /\ pc' = "state" /\ state = cmd.before.state /\ UNCHANGED <<cmd, state, own>>
    BY <1>0, <1>7 DEF WriteToml, StateFound
  <2>2. toml = cmd.before.toml
    BY <1>0, <2>1 DEF TomlFound
  <2>3. Restored(state, cmd.before.toml).url = state.backup.url
    BY <1>0, <2>1, RestoredUrl
  <2>4. cmd.manual => toml' = (IF Switching /\ PreviousManaged THEN Restored(state, cmd.before.toml) ELSE toml)
    BY <1>7 DEF WriteToml
  <2> QED BY <2>1, <2>2, <2>3, <2>4 DEF PreviousManaged, Managed
<1>8. CASE WriteState
  <2>1. /\ pc = "state" /\ pc' = "plist" /\ state = cmd.before.state /\ UNCHANGED <<toml, cmd, own>>
        /\ state' = NewState
    BY <1>0, <1>8 DEF WriteState, StateFound
  <2>2. NeedsBackup => backup = cmd.before.toml
    BY <1>0, <2>1 DEF TomlFound
  <2>3. CASE cmd.manual
    BY <2>1, <2>3 DEF NewState, Managed
  <2>4. CASE ~cmd.manual
    <3>1. /\ state' # None /\ state'.managed = ~cmd.manual /\ state'.restored = FALSE
          /\ state'.backup = IF NeedsBackup THEN backup ELSE state.backup
      BY <1>8, <2>4, WrittenState
    <3>2. Managed(state')
      BY <2>4, <3>1 DEF Managed
    <3> QED BY <2>1, <2>2, <2>4, <3>1 DEF NeedsBackup, PreviousManaged, Managed
  <2> QED BY <2>3, <2>4
<1>9. CASE WritePlist
  BY <1>0, <1>9 DEF WritePlist, Managed
<1>10. CASE Bootout
  BY <1>0, <1>10 DEF Bootout, Managed
<1>11. CASE Bootstrap
  BY <1>0, <1>11 DEF Bootstrap, Managed
<1>12. CASE Finish
  BY <1>0, <1>12 DEF Finish, Managed
<1> QED BY <1>1, <1>2, <1>3, <1>4, <1>5, <1>6, <1>7, <1>8, <1>9, <1>10, <1>11, <1>12 DEF Install

LEMMA UndoKnown == ASSUME TypeInv, FoundState, KeysKnown, Undo, ~died' PROVE KeysKnown'
<1> USE DEF KeysKnown, Given, Switching
<1>0. /\ StateFound /\ GivenBack /\ TomlFound /\ toml \in Tomls
      /\ pc \notin Quiet => cmd.before.toml \in Tomls /\ cmd.manual \in BOOLEAN
      /\ launch => pc \in Installing \ Reading
      /\ pc = "undo state" => Switching
  BY DEF TypeInv, IInv, FoundState, FileTypes, CommandTypes, Commands, Snapshots, Written
<1>1. CASE Fail
  BY <1>0, <1>1 DEF Fail, Managed
<1>2. CASE UndoToml
  BY <1>0, <1>2 DEF UndoToml, Managed
<1>3. CASE UndoKey
  BY <1>0, <1>3 DEF UndoKey, Managed
<1>4. CASE UndoFiles
  BY <1>0, <1>4 DEF UndoFiles, Managed
<1>5. CASE UndoConfig
  BY <1>0, <1>5 DEF UndoConfig, Managed
<1>6. CASE UndoState
  BY <1>0, <1>6 DEF UndoState, Managed
<1>7. CASE UndoService
  BY <1>0, <1>7 DEF UndoService, AfterService, Managed
<1>8. CASE UndoServiceFails
  BY <1>0, <1>8 DEF UndoServiceFails, Managed
<1>9. CASE UndoClaim
  BY <1>0, <1>9 DEF UndoClaim, StateFound, TomlFound, Managed
<1> QED BY <1>1, <1>2, <1>3, <1>4, <1>5, <1>6, <1>7, <1>8, <1>9 DEF Undo

LEMMA RemoveKnown == ASSUME TypeInv, FoundState, KeysKnown, Remove, ~died' PROVE KeysKnown'
<1> USE DEF KeysKnown, Given, Switching
<1>0. /\ StateFound /\ GivenBack /\ TomlFound /\ toml \in Tomls
      /\ pc \notin Quiet => cmd.before.toml \in Tomls /\ cmd.manual \in BOOLEAN
      /\ launch => pc \in Installing \ Reading
      /\ pc = "undo state" => Switching
  BY DEF TypeInv, IInv, FoundState, FileTypes, CommandTypes, Commands, Snapshots, Written
<1>1. CASE Uninstall
  <2>1. /\ cmd'.before = Snapshot /\ pc \in Quiet /\ pc' = "remove service"
        /\ UNCHANGED <<toml, state, own>>
    BY <1>1, Uninstalls DEF Uninstall
  <2> QED BY <2>1, AllSnaps DEF Managed
<1>2. CASE RemoveService
  BY <1>0, <1>2 DEF RemoveService, GivenBack, Managed
<1>3. CASE RestoreToml
  <2>1. Restored(state, toml).url = state.backup.url
    BY <1>0, RestoredUrl
  <2> QED BY <1>3, <2>1 DEF RestoreToml, Managed
<1>4. CASE MarkRestored
  BY <1>0, <1>4 DEF MarkRestored, GivenBack, Marked, Managed
<1>5. CASE DeleteKey
  BY <1>0, <1>5 DEF DeleteKey, Managed
<1>6. CASE Release
  BY <1>0, <1>6 DEF Release, Managed
<1>7. CASE RemoveState
  BY <1>0, <1>7 DEF RemoveState, Managed
<1> QED BY <1>1, <1>2, <1>3, <1>4, <1>5, <1>6, <1>7 DEF Remove

LEMMA UserKnown == ASSUME TypeInv, FoundState, KeysKnown, EditWindow = FALSE,
             EditRest \/ EditUrl \/ Crash \/ UNCHANGED vars, ~died' PROVE KeysKnown'
<1> USE DEF KeysKnown, Given, Switching
<1>0. /\ StateFound /\ GivenBack /\ TomlFound /\ toml \in Tomls
      /\ pc \notin Quiet => cmd.before.toml \in Tomls /\ cmd.manual \in BOOLEAN
      /\ launch => pc \in Installing \ Reading
      /\ pc = "undo state" => Switching
  BY DEF TypeInv, IInv, FoundState, FileTypes, CommandTypes, Commands, Snapshots, Written
<1>1. CASE EditRest
  <2>1. toml'.url = toml.url /\ UNCHANGED <<pc, cmd, state, own, launch>>
    BY <1>0, <1>1 DEF EditRest, command, Tomls
  <2>2. pc \in Quiet
    BY <1>1 DEF EditRest, MayEdit, Idle
  <2> QED BY <2>1, <2>2 DEF Managed
<1>2. CASE EditUrl
  <2>1. toml'.url = own' /\ UNCHANGED <<pc, cmd, state, launch>> /\ ~Managed(state) /\ pc \in Quiet
    BY <1>0, <1>2 DEF EditUrl, command, Tomls, Idle
  <2> QED BY <2>1 DEF Managed
<1>3. CASE Crash
  BY <1>3 DEF Crash
<1>4. CASE UNCHANGED vars
  BY <1>4 DEF vars, command, Managed
<1> QED BY <1>1, <1>2, <1>3, <1>4

LEMMA DiedStays == ASSUME [Next]_vars, died PROVE died'
<1>1. died' = died \/ died'
  BY DEF Next, vars, EditRest, EditUrl, Crash, Install, Undo, Remove, Begin, Refuse, Claim, Backup, SaveKey,
         WriteConfig, WriteToml, WriteState, WritePlist, Bootout, Bootstrap, Finish, Fail, UndoToml, UndoKey,
         UndoFiles, UndoConfig, UndoState, UndoService, UndoServiceFails, UndoClaim, Uninstall, RemoveService,
         RestoreToml, MarkRestored, DeleteKey, Release, RemoveState
<1> QED BY <1>1

FoundInv == TypeInv /\ FoundState /\ (~died => KeysKnown)

LEMMA FoundInvInit == Init => FoundInv
<1>1. Init => KeysKnown
  BY DEF Init, KeysKnown, Given, Managed, Switching
<1> QED BY <1>1, TypesInit, FoundInit DEF FoundInv

LEMMA FoundInvStep == EditWindow = FALSE /\ FoundInv /\ [Next]_vars => FoundInv'
<1> SUFFICES ASSUME EditWindow = FALSE, FoundInv, [Next]_vars PROVE FoundInv'
  OBVIOUS
<1>1. TypeInv' /\ FoundState'
  BY TypesStep, FoundStep DEF FoundInv
<1>2. ASSUME ~died' PROVE KeysKnown'
  <2>1. ~died
    BY <1>2, DiedStays
  <2> QED BY <1>2, <2>1, InstallKnown, UndoKnown, RemoveKnown, UserKnown DEF Next, FoundInv
<1> QED BY <1>1, <1>2 DEF FoundInv

LEMMA UndoneIsBefore ==
    ASSUME FoundInv, UndoClaim, pc' = "failed", Restorable(cmd.before)
    PROVE  Snapshot' = cmd.before
<1>1. /\ pc = "undo claim" /\ claim' = (claim /\ ~claimed)
      /\ ~(launch /\ cmd.before.service # None /\ service = None)
      /\ UNCHANGED <<toml, config, key, state, plist, service>>
  BY DEF UndoClaim
<1>2. /\ toml' = cmd.before.toml /\ config' = cmd.before.config /\ key' = cmd.before.key
      /\ state' = cmd.before.state
  BY <1>1 DEF FoundInv, FoundState, TomlFound, KeyFound, ConfigFound, TypeInv, IInv, StateFound, Undone
<1>3. plist' = cmd.before.plist /\ service' = cmd.before.service
  BY <1>1 DEF FoundInv, FoundState, ServiceFound, ServiceBack
<1>4. claim' = cmd.before.claim
  BY <1>1 DEF FoundInv, FoundState, ClaimFound
<1>5. cmd.before \in Snapshots
  BY <1>1 DEF FoundInv, TypeInv, CommandTypes, Commands
<1> QED BY <1>2, <1>3, <1>4, <1>5 DEF Snapshot, Snapshots

(* An install that fails leaves every file, the service and the claim as   *)
(* it found them, wherever it failed (comments in the catch of             *)
(* installCurrent), and a finished uninstall leaves the managed keys as    *)
(* the user last set them unless a command was cut off (comment on         *)
(* restoreManagedCodexToml): if the user does not edit config.toml while a *)
(* command waits.                                                          *)
THEOREM CommandsRestoreAll == ASSUME EditWindow = FALSE PROVE Spec => CommandsRestore
<1> DEFINE Good == /\ (pc = "undo claim" /\ pc' = "failed" /\ Restorable(cmd.before)) => Snapshot' = cmd.before
                   /\ (pc' = "uninstalled" /\ ~died') => toml'.url = own'
<1>1. FoundInv /\ FoundInv' /\ [Next]_vars => [Good]_vars
  <2> SUFFICES ASSUME FoundInv, FoundInv', Next PROVE Good
    OBVIOUS
  <2>1. ASSUME pc = "undo claim", pc' = "failed", Restorable(cmd.before) PROVE Snapshot' = cmd.before
    <3>1. UndoClaim
      BY <2>1 DEF Next, Install, Undo, Remove, EditRest, EditUrl, MayEdit, Idle, Crash, Begin, Refuse, Claim,
             Backup, SaveKey, WriteConfig, WriteToml, WriteState, WritePlist, Bootout, Bootstrap, Finish, Fail,
             UndoToml, UndoKey, UndoFiles, UndoConfig, UndoState, UndoService, UndoServiceFails, Uninstall,
             RemoveService, RestoreToml, MarkRestored, DeleteKey, Release, RemoveState
    <3> QED BY <2>1, <3>1, UndoneIsBefore
  <2>2. (pc' = "uninstalled" /\ ~died') => toml'.url = own'
    BY DEF FoundInv, KeysKnown
  <2> QED BY <2>1, <2>2
<1> QED BY <1>1, FoundInvInit, FoundInvStep, PTL DEF Spec, CommandsRestore

-----------------------------------------------------------------------------
(* The owner of the Codex directory.  *)


Taking == {"adopt", "rename", "clean", "own", "link", "exists"}
Asked  == {"states", "plists"} \union Taking

NamesAgree == owner # NoHome /\ legacy # NoHome => owner = legacy

HomeInv(h) ==
    /\ homeStep[h] \in Taking => job[h] = "install"
    /\ homeStep[h] \in Asked /\ job[h] = "install" => legacy \in {NoHome, h}
    /\ homeStep[h] \in Working /\ job[h] = "install" => owner = h \/ made[h] = "gone"
    /\ homeStep[h] = "drop owner" => owner = h
    /\ homeStep[h] \in {"release legacy", "drop legacy", "remove state", "uninstalled"} => owner # h
    /\ homeStep[h] \in {"remove state", "uninstalled"} => legacy # h

Arrays == homeStep \in [Homes -> OwnPlaces] /\ job \in [Homes -> Jobs] /\ made \in [Homes -> Ways]

OwnIInv == Arrays /\ NamesAgree /\ \A h \in Homes : HomeInv(h)

USE DEF Taking, Asked, Working, OwnPlaces, OwnQuiet, Jobs, Ways

-----------------------------------------------------------------------------
LEMMA OwnInitInv == OwnInit => OwnIInv
BY DEF OwnInit, OwnIInv, Arrays, NamesAgree, HomeInv

(* A step of h moves h alone ... *)
Moved(h) ==
    /\ Arrays'
    /\ \A k \in Homes \ {h} : homeStep'[k] = homeStep[k] /\ job'[k] = job[k] /\ made'[k] = made[k]

LEMMA GotoMoves ==
    ASSUME Arrays, NEW h \in Homes, NEW place \in OwnPlaces, OwnGoto(h, place)
    PROVE  Moved(h) /\ homeStep'[h] = place /\ job'[h] = job[h] /\ made'[h] = made[h]
BY DEF Arrays, OwnGoto, Moved

LEMMA EndMoves ==
    ASSUME Arrays, NEW h \in Homes, NEW place \in OwnQuiet, OwnEnd(h, place)
    PROVE  Moved(h) /\ homeStep'[h] = place /\ job'[h] = "none"
BY DEF Arrays, OwnEnd, Moved

(* ... and the others keep what they rely on, if the step claims and gives *)
(* up for h alone.                                                         *)
LEMMA OthersKeep ==
    ASSUME OwnIInv, NEW h \in Homes, Moved(h), HomeInv(h)', NamesAgree',
           legacy' \in {NoHome, legacy}, owner' = owner \/ {owner, owner'} \subseteq {NoHome, h}
    PROVE  OwnIInv'
<1> SUFFICES ASSUME NEW k \in Homes, k # h PROVE HomeInv(k)'
  BY DEF OwnIInv, Moved
<1>1. HomeInv(k) /\ homeStep'[k] = homeStep[k] /\ job'[k] = job[k] /\ made'[k] = made[k]
  BY DEF OwnIInv, Moved
<1>2. owner' = k <=> owner = k
  BY HomesAssumption
<1> QED BY <1>1, <1>2, HomesAssumption DEF HomeInv

LEMMA AskInv == ASSUME OwnIInv, NEW h \in Homes, Ask(h) PROVE OwnIInv'
<1>a. Arrays /\ NamesAgree /\ HomeInv(h)
  BY DEF OwnIInv
<1>1. CASE OwnBegin(h)
  <2>a. PICK j \in {"ask", "manual", "uninstall"} :
            /\ job' = [job EXCEPT ![h] = j]
            /\ homeStep' = [homeStep EXCEPT ![h] = IF j = "manual" THEN "write"
                                       ELSE IF j = "uninstall" /\ homeState[h] # "managed" THEN "remove"
                                       ELSE "look"]
            /\ made' = made
    BY <1>1 DEF OwnBegin
  <2>1. /\ Moved(h)
        /\ \/ homeStep'[h] = "write" /\ job'[h] = "manual"
           \/ homeStep'[h] \in {"look", "remove"}
    BY <1>a, <2>a DEF Moved, Arrays
  <2>2. HomeInv(h)' /\ NamesAgree'
    BY <1>a, <1>1, <2>1 DEF OwnBegin, HomeInv, NamesAgree, claims
  <2>3. legacy' \in {NoHome, legacy} /\ (owner' = owner \/ {owner, owner'} \subseteq {NoHome, h})
    BY <1>a, <1>1 DEF OwnBegin, HomeInv, NamesAgree, claims
  <2> QED BY <2>1, <2>2, <2>3, OthersKeep
<1>2. CASE Look(h)
  <2>1. /\ Moved(h)
        /\ \/ homeStep'[h] = "look again" /\ job'[h] = job[h]
           \/ homeStep'[h] = "states" /\ job'[h] = job[h] /\ legacy \in {NoHome, h}
           \/ homeStep'[h] = "idle" /\ job'[h] = "none"
    BY <1>a, <1>2, GotoMoves, EndMoves DEF Look
  <2>2. HomeInv(h)' /\ NamesAgree'
    BY <1>a, <1>2, <2>1, HomesAssumption DEF Look, HomeInv, NamesAgree, claims
  <2>3. legacy' \in {NoHome, legacy} /\ (owner' = owner \/ {owner, owner'} \subseteq {NoHome, h})
    BY <1>a, <1>2 DEF Look, HomeInv, NamesAgree, claims
  <2> QED BY <2>1, <2>2, <2>3, OthersKeep
<1>3. CASE LookLegacy(h)
  <2>1. /\ Moved(h)
        /\ \/ homeStep'[h] = "states" /\ job'[h] = job[h] /\ legacy \in {NoHome, h}
           \/ homeStep'[h] = "idle" /\ job'[h] = "none"
    BY <1>a, <1>3, GotoMoves, EndMoves DEF LookLegacy
  <2>2. HomeInv(h)' /\ NamesAgree'
    BY <1>a, <1>3, <2>1, HomesAssumption DEF LookLegacy, HomeInv, NamesAgree, claims
  <2>3. legacy' \in {NoHome, legacy} /\ (owner' = owner \/ {owner, owner'} \subseteq {NoHome, h})
    BY <1>a, <1>3 DEF LookLegacy, HomeInv, NamesAgree, claims
  <2> QED BY <2>1, <2>2, <2>3, OthersKeep
<1>4. CASE CheckStates(h)
  <2>1. /\ Moved(h)
        /\ \/ homeStep'[h] = "plists" /\ job'[h] = job[h]
           \/ homeStep'[h] = "idle" /\ job'[h] = "none"
    BY <1>a, <1>4, GotoMoves, EndMoves DEF CheckStates
  <2>2. HomeInv(h)' /\ NamesAgree'
    BY <1>a, <1>4, <2>1, HomesAssumption DEF CheckStates, HomeInv, NamesAgree, claims
  <2>3. legacy' \in {NoHome, legacy} /\ (owner' = owner \/ {owner, owner'} \subseteq {NoHome, h})
    BY <1>a, <1>4 DEF CheckStates, HomeInv, NamesAgree, claims
  <2> QED BY <2>1, <2>2, <2>3, OthersKeep
<1>5. CASE CheckServices(h)
  <2>1. /\ Moved(h)
        /\ \/ homeStep'[h] = "read" /\ job'[h] = job[h]
           \/ homeStep'[h] = "remove"
           \/ homeStep'[h] = "adopt" /\ job[h] = "install" /\ job'[h] = "install"
           \/ homeStep'[h] = "idle" /\ job'[h] = "none"
    BY <1>a, <1>5, GotoMoves, EndMoves DEF CheckServices
  <2>2. HomeInv(h)' /\ NamesAgree'
    BY <1>a, <1>5, <2>1, HomesAssumption DEF CheckServices, HomeInv, NamesAgree, claims
  <2>3. legacy' \in {NoHome, legacy} /\ (owner' = owner \/ {owner, owner'} \subseteq {NoHome, h})
    BY <1>a, <1>5 DEF CheckServices, HomeInv, NamesAgree, claims
  <2> QED BY <2>1, <2>2, <2>3, OthersKeep
<1>6. CASE Read(h)
  <2>1. Moved(h) /\ homeStep'[h] = "look"
    BY <1>a, <1>6 DEF Read, Moved, Arrays
  <2>2. HomeInv(h)' /\ NamesAgree'
    BY <1>a, <1>6, <2>1 DEF Read, HomeInv, NamesAgree, claims
  <2>3. legacy' \in {NoHome, legacy} /\ (owner' = owner \/ {owner, owner'} \subseteq {NoHome, h})
    BY <1>a, <1>6 DEF Read, HomeInv, NamesAgree, claims
  <2> QED BY <2>1, <2>2, <2>3, OthersKeep
<1> QED BY <1>1, <1>2, <1>3, <1>4, <1>5, <1>6 DEF Ask

LEMMA TakeInv == ASSUME OwnIInv, NEW h \in Homes, Take(h) PROVE OwnIInv'
<1>a. Arrays /\ NamesAgree /\ HomeInv(h)
  BY DEF OwnIInv
<1>1. CASE Adopt(h)
  <2>1. /\ Moved(h)
        /\ \/ homeStep'[h] = "own" /\ job'[h] = job[h]
           \/ homeStep'[h] = "rename" /\ job'[h] = job[h]
           \/ homeStep'[h] = "clean" /\ job'[h] = job[h]
           \/ homeStep'[h] = "idle" /\ job'[h] = "none"
    BY <1>a, <1>1, GotoMoves, EndMoves DEF Adopt
  <2>2. HomeInv(h)' /\ NamesAgree'
    BY <1>a, <1>1, <2>1, HomesAssumption DEF Adopt, HomeInv, NamesAgree, claims
  <2>3. legacy' \in {NoHome, legacy} /\ (owner' = owner \/ {owner, owner'} \subseteq {NoHome, h})
    BY <1>a, <1>1 DEF Adopt, HomeInv, NamesAgree, claims
  <2> QED BY <2>1, <2>2, <2>3, OthersKeep
<1>2. CASE Rename(h)
  <2>1. /\ Moved(h)
        /\ \/ homeStep'[h] = "own" /\ job'[h] = job[h]
           \/ homeStep'[h] = "idle" /\ job'[h] = "none"
    BY <1>a, <1>2, GotoMoves, EndMoves DEF Rename
  <2>2. HomeInv(h)' /\ NamesAgree'
    BY <1>a, <1>2, <2>1, HomesAssumption DEF Rename, HomeInv, NamesAgree, claims
  <2>3. legacy' \in {NoHome, legacy} /\ (owner' = owner \/ {owner, owner'} \subseteq {NoHome, h})
    BY <1>a, <1>2 DEF Rename, HomeInv, NamesAgree, claims
  <2> QED BY <2>1, <2>2, <2>3, OthersKeep
<1>3. CASE Clean(h)
  <2>1. Moved(h) /\ homeStep'[h] = "own" /\ job'[h] = job[h]
    BY <1>a, <1>3, GotoMoves, EndMoves DEF Clean
  <2>2. HomeInv(h)' /\ NamesAgree'
    BY <1>a, <1>3, <2>1, HomesAssumption DEF Clean, HomeInv, NamesAgree, claims
  <2>3. legacy' \in {NoHome, legacy} /\ (owner' = owner \/ {owner, owner'} \subseteq {NoHome, h})
    BY <1>a, <1>3 DEF Clean, HomeInv, NamesAgree, claims
  <2> QED BY <2>1, <2>2, <2>3, OthersKeep
<1>4. CASE Own(h)
  <2>1. /\ Moved(h)
        /\ \/ homeStep'[h] = "link" /\ job'[h] = job[h]
           \/ homeStep'[h] = "backup" /\ job'[h] = job[h] /\ owner = h
           \/ homeStep'[h] = "idle" /\ job'[h] = "none"
    BY <1>a, <1>4, GotoMoves, EndMoves DEF Own
  <2>2. HomeInv(h)' /\ NamesAgree'
    BY <1>a, <1>4, <2>1, HomesAssumption DEF Own, HomeInv, NamesAgree, claims
  <2>3. legacy' \in {NoHome, legacy} /\ (owner' = owner \/ {owner, owner'} \subseteq {NoHome, h})
    BY <1>a, <1>4 DEF Own, HomeInv, NamesAgree, claims
  <2> QED BY <2>1, <2>2, <2>3, OthersKeep
<1>5. CASE Link(h)
  <2>0. job[h] = "install" /\ legacy \in {NoHome, h}
    BY <1>a, <1>5 DEF Link, HomeInv
  <2>1. CASE owner = NoHome
    <3>1. Moved(h) /\ homeStep'[h] = "backup"
      BY <1>a, <1>5, <2>1 DEF Link, Moved, Arrays
    <3>2. owner' = h /\ legacy' = legacy
      BY <1>5, <2>1 DEF Link
    <3>3. HomeInv(h)' /\ NamesAgree'
      BY <2>0, <3>1, <3>2 DEF HomeInv, NamesAgree
    <3> QED BY <2>1, <3>1, <3>2, <3>3, OthersKeep
  <2>2. CASE owner # NoHome
    <3>1. Moved(h) /\ homeStep'[h] = "exists" /\ job'[h] = job[h]
      BY <1>a, <1>5, <2>2, GotoMoves DEF Link
    <3>2. owner' = owner /\ legacy' = legacy
      BY <1>5, <2>2 DEF Link
    <3>3. HomeInv(h)' /\ NamesAgree'
      BY <1>a, <2>0, <3>1, <3>2 DEF HomeInv, NamesAgree
    <3> QED BY <3>1, <3>2, <3>3, OthersKeep
  <2> QED BY <2>1, <2>2
<1>6. CASE LinkExists(h)
  <2>1. /\ Moved(h)
        /\ \/ homeStep'[h] = "backup" /\ (owner = h \/ made'[h] = "gone")
           \/ homeStep'[h] = "idle" /\ job'[h] = "none"
    <3>1. CASE owner = NoHome
      BY <1>a, <1>6, <3>1 DEF LinkExists, Moved, Arrays
    <3>2. CASE owner # NoHome
      BY <1>a, <1>6, <3>2, GotoMoves, EndMoves DEF LinkExists
    <3> QED BY <3>1, <3>2
  <2>2. HomeInv(h)' /\ NamesAgree'
    BY <1>a, <1>6, <2>1, HomesAssumption DEF LinkExists, HomeInv, NamesAgree, claims
  <2>3. legacy' \in {NoHome, legacy} /\ (owner' = owner \/ {owner, owner'} \subseteq {NoHome, h})
    BY <1>a, <1>6 DEF LinkExists, HomeInv, NamesAgree, claims
  <2> QED BY <2>1, <2>2, <2>3, OthersKeep
<1> QED BY <1>1, <1>2, <1>3, <1>4, <1>5, <1>6 DEF Take

LEMMA WorkInv == ASSUME OwnIInv, NEW h \in Homes, Work(h) PROVE OwnIInv'
<1>a. Arrays /\ NamesAgree /\ HomeInv(h)
  BY DEF OwnIInv
<1>1. CASE OwnWriteToml(h)
  <2>1. Moved(h) /\ homeStep'[h] = "state" /\ job'[h] = job[h] /\ made'[h] = made[h]
    BY <1>a, <1>1 DEF OwnWriteToml, Moved, Arrays
  <2>2. HomeInv(h)' /\ NamesAgree'
    BY <1>a, <1>1, <2>1, HomesAssumption DEF OwnWriteToml, HomeInv, NamesAgree, claims
  <2>3. legacy' \in {NoHome, legacy} /\ (owner' = owner \/ {owner, owner'} \subseteq {NoHome, h})
    BY <1>a, <1>1 DEF OwnWriteToml, HomeInv, NamesAgree, claims
  <2> QED BY <2>1, <2>2, <2>3, OthersKeep
<1>2. CASE OwnWriteState(h)
  <2>1. Moved(h) /\ homeStep'[h] = "plist" /\ job'[h] = job[h] /\ made'[h] = made[h]
    BY <1>a, <1>2, GotoMoves, EndMoves DEF OwnWriteState
  <2>2. HomeInv(h)' /\ NamesAgree'
    BY <1>a, <1>2, <2>1, HomesAssumption DEF OwnWriteState, HomeInv, NamesAgree, claims
  <2>3. legacy' \in {NoHome, legacy} /\ (owner' = owner \/ {owner, owner'} \subseteq {NoHome, h})
    BY <1>a, <1>2 DEF OwnWriteState, HomeInv, NamesAgree, claims
  <2> QED BY <2>1, <2>2, <2>3, OthersKeep
<1>3. CASE OwnWritePlist(h)
  <2>1. Moved(h) /\ homeStep'[h] = "finish" /\ job'[h] = job[h] /\ made'[h] = made[h]
    BY <1>a, <1>3, GotoMoves, EndMoves DEF OwnWritePlist
  <2>2. HomeInv(h)' /\ NamesAgree'
    BY <1>a, <1>3, <2>1, HomesAssumption DEF OwnWritePlist, HomeInv, NamesAgree, claims
  <2>3. legacy' \in {NoHome, legacy} /\ (owner' = owner \/ {owner, owner'} \subseteq {NoHome, h})
    BY <1>a, <1>3 DEF OwnWritePlist, HomeInv, NamesAgree, claims
  <2> QED BY <2>1, <2>2, <2>3, OthersKeep
<1>4. CASE OwnFinish(h)
  <2>1. /\ Moved(h)
        /\ \/ homeStep'[h] = "release" /\ job'[h] = job[h] /\ made'[h] = made[h]
           \/ homeStep'[h] = "idle" /\ job'[h] = "none"
    BY <1>a, <1>4, GotoMoves, EndMoves DEF OwnFinish
  <2>2. HomeInv(h)' /\ NamesAgree'
    BY <1>a, <1>4, <2>1, HomesAssumption DEF OwnFinish, HomeInv, NamesAgree, claims
  <2>3. legacy' \in {NoHome, legacy} /\ (owner' = owner \/ {owner, owner'} \subseteq {NoHome, h})
    BY <1>a, <1>4 DEF OwnFinish, HomeInv, NamesAgree, claims
  <2> QED BY <2>1, <2>2, <2>3, OthersKeep
<1>5. CASE OwnBackup(h)
  <2>1. Moved(h) /\ homeStep'[h] = "write" /\ job'[h] = job[h] /\ made'[h] = made[h]
    BY <1>a, <1>5 DEF OwnBackup, Moved, Arrays
  <2>2. HomeInv(h)' /\ NamesAgree'
    BY <1>a, <1>5, <2>1, HomesAssumption DEF OwnBackup, HomeInv, NamesAgree, claims
  <2>3. legacy' \in {NoHome, legacy} /\ (owner' = owner \/ {owner, owner'} \subseteq {NoHome, h})
    BY <1>a, <1>5 DEF OwnBackup, HomeInv, NamesAgree, claims
  <2> QED BY <2>1, <2>2, <2>3, OthersKeep
<1> QED BY <1>1, <1>2, <1>3, <1>4, <1>5 DEF Work

LEMMA OwnUndoInv == ASSUME OwnIInv, NEW h \in Homes, OwnUndo(h) PROVE OwnIInv'
<1>a. Arrays /\ NamesAgree /\ HomeInv(h)
  BY DEF OwnIInv
<1>1. CASE OwnFail(h)
  <2>1. /\ Moved(h)
        /\ \/ homeStep'[h] = "undo claim" /\ job'[h] = job[h] /\ made'[h] = made[h]
           \/ homeStep'[h] = "undo toml" /\ job'[h] = job[h] /\ made'[h] = made[h]
           \/ homeStep'[h] = "undo plist" /\ job'[h] = job[h] /\ made'[h] = made[h]
           \/ homeStep'[h] = "undo state" /\ job'[h] = job[h] /\ made'[h] = made[h]
    BY <1>a, <1>1, GotoMoves, EndMoves DEF OwnFail
  <2>2. HomeInv(h)' /\ NamesAgree'
    BY <1>a, <1>1, <2>1, HomesAssumption DEF OwnFail, HomeInv, NamesAgree, claims
  <2>3. legacy' \in {NoHome, legacy} /\ (owner' = owner \/ {owner, owner'} \subseteq {NoHome, h})
    BY <1>a, <1>1 DEF OwnFail, HomeInv, NamesAgree, claims
  <2> QED BY <2>1, <2>2, <2>3, OthersKeep
<1>2. CASE OwnUndoToml(h)
  <2>1. Moved(h) /\ homeStep'[h] = "undo state" /\ job'[h] = job[h] /\ made'[h] = made[h]
    BY <1>a, <1>2 DEF OwnUndoToml, Moved, Arrays
  <2>2. HomeInv(h)' /\ NamesAgree'
    BY <1>a, <1>2, <2>1, HomesAssumption DEF OwnUndoToml, HomeInv, NamesAgree, claims
  <2>3. legacy' \in {NoHome, legacy} /\ (owner' = owner \/ {owner, owner'} \subseteq {NoHome, h})
    BY <1>a, <1>2 DEF OwnUndoToml, HomeInv, NamesAgree, claims
  <2> QED BY <2>1, <2>2, <2>3, OthersKeep
<1>3. CASE OwnUndoState(h)
  <2>1. /\ Moved(h)
        /\ \/ homeStep'[h] = "undo plist" /\ job'[h] = job[h] /\ made'[h] = made[h]
           \/ homeStep'[h] = "undo claim" /\ job'[h] = job[h] /\ made'[h] = made[h]
    BY <1>a, <1>3, GotoMoves, EndMoves DEF OwnUndoState
  <2>2. HomeInv(h)' /\ NamesAgree'
    BY <1>a, <1>3, <2>1, HomesAssumption DEF OwnUndoState, HomeInv, NamesAgree, claims
  <2>3. legacy' \in {NoHome, legacy} /\ (owner' = owner \/ {owner, owner'} \subseteq {NoHome, h})
    BY <1>a, <1>3 DEF OwnUndoState, HomeInv, NamesAgree, claims
  <2> QED BY <2>1, <2>2, <2>3, OthersKeep
<1>4. CASE UndoPlist(h)
  <2>1. /\ Moved(h)
        /\ \/ homeStep'[h] = "undo claim" /\ job'[h] = job[h] /\ made'[h] = made[h]
           \/ homeStep'[h] = "undo toml" /\ job'[h] = job[h] /\ made'[h] = made[h]
    BY <1>a, <1>4, GotoMoves, EndMoves DEF UndoPlist
  <2>2. HomeInv(h)' /\ NamesAgree'
    BY <1>a, <1>4, <2>1, HomesAssumption DEF UndoPlist, HomeInv, NamesAgree, claims
  <2>3. legacy' \in {NoHome, legacy} /\ (owner' = owner \/ {owner, owner'} \subseteq {NoHome, h})
    BY <1>a, <1>4 DEF UndoPlist, HomeInv, NamesAgree, claims
  <2> QED BY <2>1, <2>2, <2>3, OthersKeep
<1>5. CASE OwnUndoClaim(h)
  <2>1. /\ Moved(h)
        /\ \/ homeStep'[h] = "release" /\ job'[h] = job[h] /\ made'[h] = made[h]
           \/ homeStep'[h] = "idle" /\ job'[h] = "none"
    BY <1>a, <1>5, GotoMoves, EndMoves DEF OwnUndoClaim
  <2>2. HomeInv(h)' /\ NamesAgree'
    BY <1>a, <1>5, <2>1, HomesAssumption DEF OwnUndoClaim, HomeInv, NamesAgree, claims
  <2>3. legacy' \in {NoHome, legacy} /\ (owner' = owner \/ {owner, owner'} \subseteq {NoHome, h})
    BY <1>a, <1>5 DEF OwnUndoClaim, HomeInv, NamesAgree, claims
  <2> QED BY <2>1, <2>2, <2>3, OthersKeep
<1> QED BY <1>1, <1>2, <1>3, <1>4, <1>5 DEF OwnUndo

LEMMA ReleaseInv == ASSUME OwnIInv, NEW h \in Homes, OwnRelease(h) PROVE OwnIInv'
<1>a. Arrays /\ NamesAgree /\ HomeInv(h)
  BY DEF OwnIInv
<1>1. CASE ReleaseOwner(h)
  <2>1. /\ Moved(h)
        /\ \/ homeStep'[h] = "drop owner" /\ job'[h] = job[h] /\ owner = h
           \/ homeStep'[h] = "release legacy" /\ job'[h] = job[h] /\ owner # h
    BY <1>a, <1>1, GotoMoves, EndMoves DEF ReleaseOwner
  <2>2. HomeInv(h)' /\ NamesAgree'
    BY <1>a, <1>1, <2>1, HomesAssumption DEF ReleaseOwner, HomeInv, NamesAgree, claims
  <2>3. legacy' \in {NoHome, legacy} /\ (owner' = owner \/ {owner, owner'} \subseteq {NoHome, h})
    BY <1>a, <1>1 DEF ReleaseOwner, HomeInv, NamesAgree, claims
  <2> QED BY <2>1, <2>2, <2>3, OthersKeep
<1>2. CASE DropOwner(h)
  <2>1. Moved(h) /\ homeStep'[h] = "release legacy" /\ job'[h] = job[h]
    BY <1>a, <1>2, GotoMoves, EndMoves DEF DropOwner
  <2>2. HomeInv(h)' /\ NamesAgree'
    BY <1>a, <1>2, <2>1, HomesAssumption DEF DropOwner, HomeInv, NamesAgree, claims
  <2>3. legacy' \in {NoHome, legacy} /\ (owner' = owner \/ {owner, owner'} \subseteq {NoHome, h})
    BY <1>a, <1>2 DEF DropOwner, HomeInv, NamesAgree, claims
  <2> QED BY <2>1, <2>2, <2>3, OthersKeep
<1>3. CASE ReleaseLegacy(h)
  <2>1. /\ Moved(h)
        /\ \/ homeStep'[h] = "drop legacy" /\ job'[h] = job[h]
           \/ homeStep'[h] = "remove state" /\ job'[h] = job[h] /\ legacy # h
           \/ homeStep'[h] = "idle" /\ job'[h] = "none"
           \/ homeStep'[h] = "idle" /\ job'[h] = "none"
    BY <1>a, <1>3, GotoMoves, EndMoves DEF ReleaseLegacy, AfterRelease
  <2>2. HomeInv(h)' /\ NamesAgree'
    BY <1>a, <1>3, <2>1, HomesAssumption DEF ReleaseLegacy, HomeInv, NamesAgree, claims
  <2>3. legacy' \in {NoHome, legacy} /\ (owner' = owner \/ {owner, owner'} \subseteq {NoHome, h})
    BY <1>a, <1>3 DEF ReleaseLegacy, HomeInv, NamesAgree, claims
  <2> QED BY <2>1, <2>2, <2>3, OthersKeep
<1>4. CASE DropLegacy(h)
  <2>1. /\ Moved(h)
        /\ \/ homeStep'[h] = "remove state" /\ job'[h] = job[h]
           \/ homeStep'[h] = "idle" /\ job'[h] = "none"
           \/ homeStep'[h] = "idle" /\ job'[h] = "none"
    BY <1>a, <1>4, GotoMoves, EndMoves DEF DropLegacy, AfterRelease
  <2>2. HomeInv(h)' /\ NamesAgree'
    BY <1>a, <1>4, <2>1, HomesAssumption DEF DropLegacy, HomeInv, NamesAgree, claims
  <2>3. legacy' \in {NoHome, legacy} /\ (owner' = owner \/ {owner, owner'} \subseteq {NoHome, h})
    BY <1>a, <1>4 DEF DropLegacy, HomeInv, NamesAgree, claims
  <2> QED BY <2>1, <2>2, <2>3, OthersKeep
<1> QED BY <1>1, <1>2, <1>3, <1>4 DEF OwnRelease

LEMMA UninstallInv == ASSUME OwnIInv, NEW h \in Homes, OwnUninstall(h) PROVE OwnIInv'
<1>a. Arrays /\ NamesAgree /\ HomeInv(h)
  BY DEF OwnIInv
<1>1. CASE OwnRemove(h)
  <2>1. /\ Moved(h)
        /\ \/ homeStep'[h] = "restore" /\ job'[h] = job[h]
           \/ homeStep'[h] = "release" /\ job'[h] = job[h]
    BY <1>a, <1>1, GotoMoves, EndMoves DEF OwnRemove
  <2>2. HomeInv(h)' /\ NamesAgree'
    BY <1>a, <1>1, <2>1, HomesAssumption DEF OwnRemove, HomeInv, NamesAgree, claims
  <2>3. legacy' \in {NoHome, legacy} /\ (owner' = owner \/ {owner, owner'} \subseteq {NoHome, h})
    BY <1>a, <1>1 DEF OwnRemove, HomeInv, NamesAgree, claims
  <2> QED BY <2>1, <2>2, <2>3, OthersKeep
<1>2. CASE Restore(h)
  <2>1. Moved(h) /\ homeStep'[h] = "mark" /\ job'[h] = job[h]
    BY <1>a, <1>2, GotoMoves, EndMoves DEF Restore
  <2>2. HomeInv(h)' /\ NamesAgree'
    BY <1>a, <1>2, <2>1, HomesAssumption DEF Restore, HomeInv, NamesAgree, claims
  <2>3. legacy' \in {NoHome, legacy} /\ (owner' = owner \/ {owner, owner'} \subseteq {NoHome, h})
    BY <1>a, <1>2 DEF Restore, HomeInv, NamesAgree, claims
  <2> QED BY <2>1, <2>2, <2>3, OthersKeep
<1>3. CASE OwnMarkRestored(h)
  <2>1. Moved(h) /\ homeStep'[h] = "release" /\ job'[h] = job[h]
    BY <1>a, <1>3, GotoMoves, EndMoves DEF OwnMarkRestored
  <2>2. HomeInv(h)' /\ NamesAgree'
    BY <1>a, <1>3, <2>1, HomesAssumption DEF OwnMarkRestored, HomeInv, NamesAgree, claims
  <2>3. legacy' \in {NoHome, legacy} /\ (owner' = owner \/ {owner, owner'} \subseteq {NoHome, h})
    BY <1>a, <1>3 DEF OwnMarkRestored, HomeInv, NamesAgree, claims
  <2> QED BY <2>1, <2>2, <2>3, OthersKeep
<1>4. CASE OwnRemoveState(h)
  <2>1. Moved(h) /\ homeStep'[h] = "uninstalled" /\ job'[h] = "none"
    BY <1>a, <1>4, GotoMoves, EndMoves DEF OwnRemoveState
  <2>2. HomeInv(h)' /\ NamesAgree'
    BY <1>a, <1>4, <2>1, HomesAssumption DEF OwnRemoveState, HomeInv, NamesAgree, claims
  <2>3. legacy' \in {NoHome, legacy} /\ (owner' = owner \/ {owner, owner'} \subseteq {NoHome, h})
    BY <1>a, <1>4 DEF OwnRemoveState, HomeInv, NamesAgree, claims
  <2> QED BY <2>1, <2>2, <2>3, OthersKeep
<1> QED BY <1>1, <1>2, <1>3, <1>4 DEF OwnUninstall

LEMMA StepInv == OwnIInv /\ [OwnNext]_ownVars => OwnIInv'
<1> SUFFICES ASSUME OwnIInv, [OwnNext]_ownVars PROVE OwnIInv'
    OBVIOUS
<1>1. CASE UNCHANGED ownVars
  BY <1>1 DEF ownVars, claims, homeCommand, OwnIInv, Arrays, NamesAgree, HomeInv
<1>2. CASE OwnNext
  <2> PICK h \in Homes : Ask(h) \/ Take(h) \/ Work(h) \/ OwnUndo(h) \/ OwnRelease(h) \/ OwnUninstall(h) \/ OwnCrash(h)
    BY <1>2 DEF OwnNext
  <2>1. CASE OwnCrash(h)
    <3>a. Arrays /\ NamesAgree /\ HomeInv(h)
      BY DEF OwnIInv
    <3>1. Moved(h) /\ homeStep'[h] = "idle"
      BY <3>a, <2>1, EndMoves DEF OwnCrash
    <3>2. owner' = owner /\ legacy' = legacy
      BY <2>1 DEF OwnCrash, claims
    <3>3. HomeInv(h)' /\ NamesAgree'
      BY <3>a, <3>1, <3>2 DEF HomeInv, NamesAgree
    <3> QED BY <3>1, <3>2, <3>3, OthersKeep
  <2> QED BY <2>1, AskInv, TakeInv, WorkInv, OwnUndoInv, ReleaseInv, UninstallInv
<1> QED BY <1>1, <1>2

-----------------------------------------------------------------------------
(* Whatever the others do, a managed install writes config.toml, state.json*)
(* and the service definition, and undoes them, under an owner file that   *)
(* names its home, unless it met a claim that was gone at a second look:   *)
(* any number of homes, old claims and installations, crashes, failures.   *)
THEOREM ClaimsHold == OwnSpec => []ClaimHolds
<1>1. OwnIInv => ClaimHolds
  BY DEF OwnIInv, HomeInv, ClaimHolds
<1> QED BY OwnInitInv, StepInv, <1>1, PTL DEF OwnSpec

(* After uninstall neither name of the owner file claims the directory for *)
(* the home.                                                               *)
THEOREM ReleasedForGood == OwnSpec => []NoRevival
<1>1. OwnIInv => NoRevival
  BY DEF OwnIInv, HomeInv, NoRevival
<1> QED BY OwnInitInv, StepInv, <1>1, PTL DEF OwnSpec

-----------------------------------------------------------------------------
(* Types.                                                                  *)

OwnSnapshots == [client : Homes \union {NoHome}, state : Modes \union {NoHome}, plist : BOOLEAN]

OwnFileTypes ==
    /\ {owner, legacy, client} \subseteq Homes \union {NoHome}
    /\ homeState \in [Homes -> Modes \union {NoHome}] /\ homePlist \in [Homes -> BOOLEAN]

OwnCommandTypes == Arrays /\ before \in [Homes -> OwnSnapshots]

(* What a command made it made as an install, and it is still its own.     *)
MadeInv(h) ==
    /\ made[h] = "made" => job[h] = "install" /\ (owner = h \/ homeStep[h] \in {"release legacy", "drop legacy"})
    /\ homeStep[h] \in OwnQuiet => job[h] = "none"
    /\ homeStep[h] = "read" => job[h] = "ask"

OwnTypeInv == OwnIInv /\ OwnFileTypes /\ OwnCommandTypes /\ \A h \in Homes : MadeInv(h)

LEMMA GotoTypes ==
    ASSUME OwnCommandTypes, NEW h \in Homes, NEW place \in OwnPlaces, OwnGoto(h, place)
    PROVE  OwnCommandTypes'
BY DEF OwnCommandTypes, Arrays, OwnGoto

LEMMA EndTypes ==
    ASSUME OwnCommandTypes, NEW h \in Homes, NEW place \in OwnQuiet, OwnEnd(h, place)
    PROVE  OwnCommandTypes'
<1>1. Nothing \in OwnSnapshots
  BY DEF Nothing, OwnSnapshots
<1> QED
  BY <1>1 DEF OwnCommandTypes, Arrays, OwnEnd

LEMMA FoundType == ASSUME OwnFileTypes, NEW h \in Homes PROVE Found(h) \in OwnSnapshots
BY DEF OwnFileTypes, Found, OwnSnapshots

LEMMA AskTypes ==
    ASSUME OwnFileTypes, OwnCommandTypes, NEW h \in Homes, Ask(h)
    PROVE  OwnFileTypes' /\ OwnCommandTypes'
<1>1. CASE OwnBegin(h)
  <2>1. OwnCommandTypes'
    <3>1. Nothing \in OwnSnapshots /\ [Nothing EXCEPT !.state = homeState[h]] \in OwnSnapshots
      BY DEF Nothing, OwnSnapshots, OwnFileTypes
    <3>2. PICK j \in {"ask", "manual", "uninstall"}, place \in OwnPlaces, b \in OwnSnapshots :
             /\ job' = [job EXCEPT ![h] = j] /\ homeStep' = [homeStep EXCEPT ![h] = place]
             /\ before' = [before EXCEPT ![h] = b] /\ made' = made
      BY <1>1, <3>1, FoundType DEF OwnBegin
    <3> QED BY <3>2 DEF OwnCommandTypes, Arrays
  <2>2. OwnFileTypes'
    BY <1>1 DEF OwnBegin, OwnFileTypes, claims
  <2> QED
    BY <2>1, <2>2
<1>2. CASE Look(h)
  <2>1. OwnCommandTypes'
    BY <1>2, GotoTypes, EndTypes DEF Look
  <2>2. OwnFileTypes'
    BY <1>2 DEF Look, OwnFileTypes, claims
  <2> QED
    BY <2>1, <2>2
<1>3. CASE LookLegacy(h)
  <2>1. OwnCommandTypes'
    BY <1>3, GotoTypes, EndTypes DEF LookLegacy
  <2>2. OwnFileTypes'
    BY <1>3 DEF LookLegacy, OwnFileTypes, claims
  <2> QED
    BY <2>1, <2>2
<1>4. CASE CheckStates(h)
  <2>1. OwnCommandTypes'
    BY <1>4, GotoTypes, EndTypes DEF CheckStates
  <2>2. OwnFileTypes'
    BY <1>4 DEF CheckStates, OwnFileTypes, claims
  <2> QED
    BY <2>1, <2>2
<1>5. CASE CheckServices(h)
  <2>1. OwnCommandTypes'
    BY <1>5, GotoTypes, EndTypes DEF CheckServices
  <2>2. OwnFileTypes'
    BY <1>5 DEF CheckServices, OwnFileTypes, claims
  <2> QED
    BY <2>1, <2>2
<1>6. CASE Read(h)
  <2>1. OwnCommandTypes'
    BY <1>6, GotoTypes, EndTypes, FoundType DEF OwnCommandTypes, Arrays, Read
  <2>2. OwnFileTypes'
    BY <1>6 DEF Read, OwnFileTypes, claims
  <2> QED
    BY <2>1, <2>2
<1> QED
  BY <1>1, <1>2, <1>3, <1>4, <1>5, <1>6 DEF Ask

LEMMA TakeTypes ==
    ASSUME OwnFileTypes, OwnCommandTypes, NEW h \in Homes, Take(h)
    PROVE  OwnFileTypes' /\ OwnCommandTypes'
<1>1. CASE Adopt(h)
  <2>1. OwnCommandTypes'
    BY <1>1, GotoTypes, EndTypes DEF Adopt
  <2>2. OwnFileTypes'
    BY <1>1 DEF Adopt, OwnFileTypes, claims
  <2> QED
    BY <2>1, <2>2
<1>2. CASE Rename(h)
  <2>1. OwnCommandTypes'
    BY <1>2, GotoTypes, EndTypes DEF Rename
  <2>2. OwnFileTypes'
    BY <1>2 DEF Rename, OwnFileTypes, claims
  <2> QED
    BY <2>1, <2>2
<1>3. CASE Clean(h)
  <2>1. OwnCommandTypes'
    BY <1>3, GotoTypes, EndTypes DEF Clean
  <2>2. OwnFileTypes'
    BY <1>3 DEF Clean, OwnFileTypes, claims
  <2> QED
    BY <2>1, <2>2
<1>4. CASE Own(h)
  <2>1. OwnCommandTypes'
    BY <1>4, GotoTypes, EndTypes DEF Own
  <2>2. OwnFileTypes'
    BY <1>4 DEF Own, OwnFileTypes, claims
  <2> QED
    BY <2>1, <2>2
<1>5. CASE Link(h)
  <2>1. OwnCommandTypes'
    BY <1>5, GotoTypes, EndTypes DEF Link, OwnCommandTypes, Arrays
  <2>2. OwnFileTypes'
    BY <1>5 DEF Link, OwnFileTypes, claims
  <2> QED
    BY <2>1, <2>2
<1>6. CASE LinkExists(h)
  <2>1. OwnCommandTypes'
    BY <1>6, GotoTypes, EndTypes DEF LinkExists, OwnCommandTypes, Arrays
  <2>2. OwnFileTypes'
    BY <1>6 DEF LinkExists, OwnFileTypes, claims
  <2> QED
    BY <2>1, <2>2
<1> QED
  BY <1>1, <1>2, <1>3, <1>4, <1>5, <1>6 DEF Take

LEMMA WorkTypes ==
    ASSUME OwnFileTypes, OwnCommandTypes, NEW h \in Homes, Work(h)
    PROVE  OwnFileTypes' /\ OwnCommandTypes'
<1>1. CASE OwnWriteToml(h)
  <2>1. OwnCommandTypes'
    BY <1>1 DEF OwnWriteToml, OwnCommandTypes, Arrays, OwnSnapshots
  <2>2. OwnFileTypes'
    BY <1>1 DEF OwnWriteToml, OwnFileTypes, claims
  <2> QED
    BY <2>1, <2>2
<1>2. CASE OwnWriteState(h)
  <2>1. OwnCommandTypes'
    BY <1>2, GotoTypes, EndTypes DEF OwnWriteState
  <2>2. OwnFileTypes'
    BY <1>2 DEF OwnWriteState, OwnFileTypes, claims, Modes
  <2> QED
    BY <2>1, <2>2
<1>3. CASE OwnWritePlist(h)
  <2>1. OwnCommandTypes'
    BY <1>3, GotoTypes, EndTypes DEF OwnWritePlist
  <2>2. OwnFileTypes'
    BY <1>3 DEF OwnWritePlist, OwnFileTypes, claims
  <2> QED
    BY <2>1, <2>2
<1>4. CASE OwnFinish(h)
  <2>1. OwnCommandTypes'
    BY <1>4, GotoTypes, EndTypes DEF OwnFinish
  <2>2. OwnFileTypes'
    BY <1>4 DEF OwnFinish, OwnFileTypes, claims
  <2> QED
    BY <2>1, <2>2
<1>5. CASE OwnBackup(h)
  <2>1. OwnCommandTypes'
    BY <1>5 DEF OwnBackup, OwnCommandTypes, Arrays, OwnSnapshots, OwnFileTypes
  <2>2. OwnFileTypes'
    BY <1>5 DEF OwnBackup, OwnFileTypes, claims
  <2> QED
    BY <2>1, <2>2
<1> QED
  BY <1>1, <1>2, <1>3, <1>4, <1>5 DEF Work

LEMMA OwnUndoTypes ==
    ASSUME OwnFileTypes, OwnCommandTypes, NEW h \in Homes, OwnUndo(h)
    PROVE  OwnFileTypes' /\ OwnCommandTypes'
<1>1. CASE OwnFail(h)
  <2>1. OwnCommandTypes'
    BY <1>1, GotoTypes, EndTypes DEF OwnFail
  <2>2. OwnFileTypes'
    BY <1>1 DEF OwnFail, OwnFileTypes, claims
  <2> QED
    BY <2>1, <2>2
<1>2. CASE OwnUndoToml(h)
  <2>1. OwnCommandTypes'
    BY <1>2 DEF OwnUndoToml, OwnCommandTypes, Arrays, OwnSnapshots
  <2>2. OwnFileTypes'
    BY <1>2 DEF OwnUndoToml, OwnFileTypes, claims, Modes, OwnCommandTypes, OwnSnapshots
  <2> QED
    BY <2>1, <2>2
<1>3. CASE OwnUndoState(h)
  <2>1. OwnCommandTypes'
    BY <1>3, GotoTypes, EndTypes DEF OwnUndoState
  <2>2. OwnFileTypes'
    BY <1>3 DEF OwnUndoState, OwnFileTypes, claims, Modes, OwnCommandTypes, OwnSnapshots
  <2> QED
    BY <2>1, <2>2
<1>4. CASE UndoPlist(h)
  <2>1. OwnCommandTypes'
    BY <1>4, GotoTypes, EndTypes DEF UndoPlist
  <2>2. OwnFileTypes'
    BY <1>4 DEF UndoPlist, OwnFileTypes, claims
  <2> QED
    BY <2>1, <2>2
<1>5. CASE OwnUndoClaim(h)
  <2>1. OwnCommandTypes'
    BY <1>5, GotoTypes, EndTypes DEF OwnUndoClaim
  <2>2. OwnFileTypes'
    BY <1>5 DEF OwnUndoClaim, OwnFileTypes, claims
  <2> QED
    BY <2>1, <2>2
<1> QED
  BY <1>1, <1>2, <1>3, <1>4, <1>5 DEF OwnUndo

LEMMA ReleaseTypes ==
    ASSUME OwnFileTypes, OwnCommandTypes, NEW h \in Homes, OwnRelease(h)
    PROVE  OwnFileTypes' /\ OwnCommandTypes'
<1>1. CASE ReleaseOwner(h)
  <2>1. OwnCommandTypes'
    BY <1>1, GotoTypes, EndTypes DEF ReleaseOwner
  <2>2. OwnFileTypes'
    BY <1>1 DEF ReleaseOwner, OwnFileTypes, claims
  <2> QED
    BY <2>1, <2>2
<1>2. CASE DropOwner(h)
  <2>1. OwnCommandTypes'
    BY <1>2, GotoTypes, EndTypes DEF DropOwner
  <2>2. OwnFileTypes'
    BY <1>2 DEF DropOwner, OwnFileTypes, claims
  <2> QED
    BY <2>1, <2>2
<1>3. CASE ReleaseLegacy(h)
  <2>1. OwnCommandTypes'
    BY <1>3, GotoTypes, EndTypes DEF ReleaseLegacy, AfterRelease
  <2>2. OwnFileTypes'
    BY <1>3 DEF ReleaseLegacy, OwnFileTypes, claims
  <2> QED
    BY <2>1, <2>2
<1>4. CASE DropLegacy(h)
  <2>1. OwnCommandTypes'
    BY <1>4, GotoTypes, EndTypes DEF DropLegacy, AfterRelease
  <2>2. OwnFileTypes'
    BY <1>4 DEF DropLegacy, OwnFileTypes, claims
  <2> QED
    BY <2>1, <2>2
<1> QED
  BY <1>1, <1>2, <1>3, <1>4 DEF OwnRelease

LEMMA OwnUninstallTypes ==
    ASSUME OwnFileTypes, OwnCommandTypes, NEW h \in Homes, OwnUninstall(h)
    PROVE  OwnFileTypes' /\ OwnCommandTypes'
<1>1. CASE OwnRemove(h)
  <2>1. OwnCommandTypes'
    BY <1>1, GotoTypes, EndTypes DEF OwnRemove
  <2>2. OwnFileTypes'
    BY <1>1 DEF OwnRemove, OwnFileTypes, claims
  <2> QED
    BY <2>1, <2>2
<1>2. CASE Restore(h)
  <2>1. OwnCommandTypes'
    BY <1>2, GotoTypes, EndTypes DEF Restore
  <2>2. OwnFileTypes'
    BY <1>2 DEF Restore, OwnFileTypes, claims
  <2> QED
    BY <2>1, <2>2
<1>3. CASE OwnMarkRestored(h)
  <2>1. OwnCommandTypes'
    BY <1>3, GotoTypes, EndTypes DEF OwnMarkRestored
  <2>2. OwnFileTypes'
    BY <1>3 DEF OwnMarkRestored, OwnFileTypes, claims, Modes
  <2> QED
    BY <2>1, <2>2
<1>4. CASE OwnRemoveState(h)
  <2>1. OwnCommandTypes'
    BY <1>4, GotoTypes, EndTypes DEF OwnRemoveState
  <2>2. OwnFileTypes'
    BY <1>4 DEF OwnRemoveState, OwnFileTypes, claims
  <2> QED
    BY <2>1, <2>2
<1> QED
  BY <1>1, <1>2, <1>3, <1>4 DEF OwnUninstall

(* What one command made, the steps of another leave to it.                *)
LEMMA MadeStep ==
    ASSUME OwnTypeInv, NEW h \in Homes, NEW g \in Homes, g # h,
           Ask(h) \/ Take(h) \/ Work(h) \/ OwnUndo(h) \/ OwnRelease(h) \/ OwnUninstall(h) \/ OwnCrash(h)
    PROVE  MadeInv(g)'
<1>1. homeStep'[g] = homeStep[g] /\ job'[g] = job[g] /\ made'[g] = made[g]
  BY DEF OwnTypeInv, OwnCommandTypes, Arrays, Ask, OwnBegin, Look, LookLegacy, CheckStates, CheckServices, Read,
         Take, Adopt, Rename, Clean, Own, Link, LinkExists, Work, OwnBackup, OwnWriteToml, OwnWriteState, OwnWritePlist, OwnFinish,
         OwnUndo, OwnFail, OwnUndoToml, OwnUndoState, UndoPlist, OwnUndoClaim, OwnRelease, ReleaseOwner, DropOwner,
         ReleaseLegacy, DropLegacy, AfterRelease, OwnUninstall, OwnRemove, Restore, OwnMarkRestored, OwnRemoveState,
         OwnCrash, OwnGoto, OwnEnd
<1>2. owner = g => owner' = g
  BY HomesAssumption
  DEF OwnTypeInv, OwnIInv, NamesAgree, HomeInv, claims, Ask, OwnBegin, Look, LookLegacy, CheckStates, CheckServices, Read,
         Take, Adopt, Rename, Clean, Own, Link, LinkExists, Work, OwnBackup, OwnWriteToml, OwnWriteState, OwnWritePlist, OwnFinish,
         OwnUndo, OwnFail, OwnUndoToml, OwnUndoState, UndoPlist, OwnUndoClaim, OwnRelease, ReleaseOwner, DropOwner,
         ReleaseLegacy, DropLegacy, OwnUninstall, OwnRemove, Restore, OwnMarkRestored, OwnRemoveState, OwnCrash
<1> QED
  BY <1>1, <1>2 DEF OwnTypeInv, MadeInv

LEMMA MadeOwnStep ==
    ASSUME OwnTypeInv, NEW h \in Homes,
           Ask(h) \/ Take(h) \/ Work(h) \/ OwnUndo(h) \/ OwnRelease(h) \/ OwnUninstall(h) \/ OwnCrash(h)
    PROVE  MadeInv(h)'
<1>a. /\ homeStep \in [Homes -> OwnPlaces] /\ job \in [Homes -> Jobs] /\ made \in [Homes -> Ways]
      /\ MadeInv(h) /\ HomeInv(h) /\ NamesAgree
  BY DEF OwnTypeInv, OwnCommandTypes, Arrays, OwnIInv
<1>1. CASE \E place \in OwnQuiet : OwnEnd(h, place)
  BY <1>a, <1>1 DEF OwnEnd, MadeInv
<1>2. CASE Link(h)
  BY <1>a, <1>2 DEF Link, OwnGoto, MadeInv, HomeInv
<1>3. CASE OwnBegin(h)
  BY <1>a, <1>3 DEF OwnBegin, MadeInv
<1>4. CASE Read(h)
  BY <1>a, <1>4 DEF Read, MadeInv
<1>5. ASSUME NEW place \in OwnPlaces, OwnGoto(h, place),
             (owner = h => owner' = h) \/ place = "release legacy",
             homeStep[h] \in {"release legacy", "drop legacy"} =>
                place \in {"release legacy", "drop legacy"} \/ job[h] # "install",
             place \notin OwnQuiet, place = "read" => job[h] = "ask"
      PROVE  MadeInv(h)'
  BY <1>a, <1>5 DEF OwnGoto, MadeInv
<1>6. CASE Ask(h)
  BY <1>1, <1>3, <1>4, <1>5, <1>6 DEF Ask, Look, LookLegacy, CheckStates, CheckServices, claims
<1>7. CASE Take(h)
  <2>1. CASE LinkExists(h) /\ owner = NoHome
    BY <1>a, <2>1, HomesAssumption DEF LinkExists, MadeInv, HomeInv
  <2> QED BY <1>a, <1>1, <1>2, <1>5, <1>7, <2>1, HomesAssumption
          DEF Take, Adopt, Rename, Clean, Own, LinkExists, claims, NamesAgree, HomeInv
<1>8. CASE Work(h)
  <2>1. CASE OwnBackup(h)
    BY <1>a, <2>1 DEF OwnBackup, MadeInv, claims
  <2>2. CASE OwnWriteToml(h)
    BY <1>a, <2>2 DEF OwnWriteToml, MadeInv, claims
  <2> QED BY <1>1, <1>5, <1>8, <2>1, <2>2 DEF Work, OwnWriteState, OwnWritePlist, OwnFinish, claims
<1>9. CASE OwnUndo(h)
  <2>1. CASE OwnUndoToml(h)
    BY <1>a, <2>1 DEF OwnUndoToml, MadeInv, claims
  <2> QED BY <1>1, <1>5, <1>9, <2>1 DEF OwnUndo, OwnFail, OwnUndoState, UndoPlist, OwnUndoClaim, claims
<1>10. CASE OwnRelease(h)
  BY <1>1, <1>5, <1>10
  DEF OwnRelease, ReleaseOwner, DropOwner, ReleaseLegacy, DropLegacy, AfterRelease, claims
<1>11. CASE OwnUninstall(h)
  BY <1>1, <1>5, <1>11 DEF OwnUninstall, OwnRemove, Restore, OwnMarkRestored, OwnRemoveState, claims
<1>12. CASE OwnCrash(h)
  BY <1>1, <1>12 DEF OwnCrash
<1> QED
  BY <1>6, <1>7, <1>8, <1>9, <1>10, <1>11, <1>12

LEMMA OwnTypesInit == OwnInit => OwnTypeInv
<1>1. Nothing \in OwnSnapshots
  BY DEF Nothing, OwnSnapshots
<1> QED
  BY <1>1, OwnInitInv, HomesAssumption
  DEF OwnInit, OwnTypeInv, OwnIInv, OwnFileTypes, OwnCommandTypes, Arrays, MadeInv, Modes

LEMMA OwnTypesStep == OwnTypeInv /\ [OwnNext]_ownVars => OwnTypeInv'
<1> SUFFICES ASSUME OwnTypeInv, [OwnNext]_ownVars PROVE OwnTypeInv'
  OBVIOUS
<1>1. OwnIInv'
  BY StepInv DEF OwnTypeInv
<1>2. CASE UNCHANGED ownVars
  BY <1>1, <1>2 DEF ownVars, claims, homeCommand, OwnTypeInv, OwnFileTypes, OwnCommandTypes, Arrays, MadeInv
<1>3. CASE OwnNext
  <2> PICK h \in Homes : Ask(h) \/ Take(h) \/ Work(h) \/ OwnUndo(h) \/ OwnRelease(h) \/ OwnUninstall(h) \/ OwnCrash(h)
    BY <1>3 DEF OwnNext
  <2>1. \A g \in Homes : MadeInv(g)'
    BY MadeStep, MadeOwnStep
  <2>2. ASSUME OwnCrash(h) PROVE OwnFileTypes' /\ OwnCommandTypes'
    <3>1. OwnCommandTypes'
      BY <2>2, EndTypes DEF OwnCrash, OwnTypeInv
    <3>2. OwnFileTypes'
      BY <2>2 DEF OwnCrash, OwnTypeInv, OwnFileTypes, claims
    <3> QED
      BY <3>1, <3>2
  <2>3. OwnFileTypes' /\ OwnCommandTypes'
    BY <2>2, AskTypes, TakeTypes, WorkTypes, OwnUndoTypes, ReleaseTypes, OwnUninstallTypes DEF OwnTypeInv
  <2> QED
    BY <1>1, <2>1, <2>3 DEF OwnTypeInv
<1> QED
  BY <1>2, <1>3

(* Whatever commands run side by side, the two names agree, and what one   *)
(* of them made stays its own until it gives it up.                        *)
THEOREM OwnershipTypes == OwnSpec => []OwnTypeOK
<1>1. OwnTypeInv => OwnTypeOK
  BY DEF OwnTypeInv, OwnTypeOK, OwnIInv, NamesAgree, OwnFileTypes, OwnCommandTypes, Arrays, MadeInv, OwnSnapshots
<1> QED
  BY <1>1, OwnTypesInit, OwnTypesStep, PTL DEF OwnSpec

-----------------------------------------------------------------------------
(* Claims are taken back by their own home, once it no longer manages.     *)

Releasing == {"release", "drop owner", "release legacy", "drop legacy"}

(* What an uninstall has found is still so until it gives back, and nobody *)
(* but a failed install releases under a state.json that says "managed".   *)
StateInv(h) ==
    /\ homeStep[h] \in {"look", "look again", "states", "plists"} => job[h] \in {"ask", "install", "uninstall"}
    /\ homeStep[h] \in {"remove", "restore", "mark"} => job[h] = "uninstall"
    /\ homeStep[h] \in {"look", "look again", "states", "plists", "remove"} /\ job[h] = "uninstall" =>
          homeState[h] = before[h].state
    /\ homeStep[h] \in Working => job[h] \in {"install", "manual"}
    /\ homeStep[h] \in {"plist", "finish"} /\ job[h] = "manual" => homeState[h] = "manual"
    /\ homeStep[h] \in Releasing /\ job[h] # "install" => homeState[h] # "managed"

(* What a command relies on of the two names.                              *)
NameInv(h) ==
    /\ homeStep[h] \in {"own", "link", "exists"} \/ made[h] = "made" => legacy = NoHome
    /\ homeStep[h] = "clean" => owner = h
    /\ homeStep[h] = "drop legacy" => legacy \in {NoHome, h}
    /\ homeStep[h] \in Releasing /\ job[h] = "install" => made[h] = "made"

ClaimInv == OwnTypeInv /\ \A h \in Homes : StateInv(h) /\ NameInv(h)

USE DEF Releasing

OwnStep(h) ==
    Ask(h) \/ Take(h) \/ Work(h) \/ OwnUndo(h) \/ OwnRelease(h) \/ OwnUninstall(h) \/ OwnCrash(h)

(* A step of h leaves what the others know alone ...                       *)
LEMMA OthersFrame ==
    ASSUME OwnTypeInv, NEW h \in Homes, NEW k \in Homes, k # h, OwnStep(h)
    PROVE  /\ homeStep'[k] = homeStep[k] /\ job'[k] = job[k]
           /\ made'[k] = made[k] /\ before'[k] = before[k] /\ homeState'[k] = homeState[k]
BY DEF OwnTypeInv, OwnFileTypes, OwnCommandTypes, Arrays, OwnStep, OwnGoto, OwnEnd,
         Ask, OwnBegin, Look, LookLegacy, CheckStates, CheckServices, Read, Take, Adopt, Rename, Clean,
         Own, Link, LinkExists, Work, OwnBackup, OwnWriteToml, OwnWriteState, OwnWritePlist, OwnFinish, OwnUndo,
         OwnFail, OwnUndoToml, OwnUndoState, UndoPlist, OwnUndoClaim, OwnRelease, ReleaseOwner,
         DropOwner, ReleaseLegacy, DropLegacy, OwnUninstall, OwnRemove, Restore, OwnMarkRestored,
         OwnRemoveState, AfterRelease, OwnCrash

(* ... and takes no name away from them.                                   *)
LEMMA NamesFrame ==
    ASSUME ClaimInv, NEW h \in Homes, OwnStep(h)
    PROVE  /\ legacy' \in {NoHome, legacy}
           /\ \A k \in Homes \ {h} : (owner = k => owner' = k) /\ (legacy = k => k \in {owner', legacy'})
           /\ \/ owner' \in {owner, NoHome}
              \/ owner' = h /\ Link(h) /\ owner = NoHome
              \/ owner' = h /\ Rename(h) /\ legacy = h
<1>1. NamesAgree /\ HomeInv(h) /\ NameInv(h) /\ NoHome \notin Homes
  BY HomesAssumption DEF ClaimInv, OwnTypeInv, OwnIInv
<1>2. CASE Rename(h)
  BY <1>1, <1>2 DEF Rename, NamesAgree, HomeInv, claims
<1>3. CASE Clean(h)
  BY <1>1, <1>3 DEF Clean, NamesAgree, HomeInv, NameInv
<1>4. CASE Link(h)
  BY <1>1, <1>4 DEF Link, NamesAgree, HomeInv
<1>5. CASE DropOwner(h)
  BY <1>1, <1>5 DEF DropOwner, NamesAgree, HomeInv
<1>6. CASE DropLegacy(h)
  BY <1>1, <1>6 DEF DropLegacy, NamesAgree, NameInv
<1>7. CASE UNCHANGED claims
  BY <1>7 DEF claims
<1>8. \/ Rename(h) \/ Clean(h) \/ Link(h) \/ DropOwner(h) \/ DropLegacy(h)
      \/ UNCHANGED claims
  BY DEF OwnStep, Ask, Take, Work, OwnUndo, OwnRelease, OwnUninstall,
         OwnBegin, Look, LookLegacy, CheckStates, CheckServices, Read, Adopt, Own, LinkExists,
         OwnBackup, OwnWriteToml, OwnWriteState, OwnWritePlist, OwnFinish, OwnFail, OwnUndoToml, OwnUndoState,
         UndoPlist, OwnUndoClaim, ReleaseOwner, ReleaseLegacy, OwnRemove, Restore, OwnMarkRestored,
         OwnRemoveState, OwnCrash
<1> QED BY <1>2, <1>3, <1>4, <1>5, <1>6, <1>7, <1>8

LEMMA StateOwnStep ==
    ASSUME ClaimInv, NEW h \in Homes, OwnStep(h)
    PROVE  StateInv(h)'
<1>1. /\ homeStep \in [Homes -> OwnPlaces] /\ job \in [Homes -> Jobs] /\ made \in [Homes -> Ways]
      /\ before \in [Homes -> OwnSnapshots] /\ homeState \in [Homes -> Modes \union {NoHome}]
      /\ HomeInv(h) /\ MadeInv(h) /\ StateInv(h) /\ NameInv(h) /\ NamesAgree /\ NoHome \notin Homes
  BY HomesAssumption DEF ClaimInv, OwnTypeInv, OwnFileTypes, OwnCommandTypes, Arrays, OwnIInv
<1>2. CASE \E place \in OwnQuiet : OwnEnd(h, place)
  BY <1>1, <1>2 DEF OwnEnd, StateInv
<1>3. CASE Ask(h)
  <2>1. CASE OwnBegin(h)
    <3>1. job[h] = "none" /\ homeState' = homeState
      BY <1>1, <2>1 DEF OwnBegin, MadeInv
    <3>2. CASE job'[h] = "uninstall"
      <4>1. before'[h] = [Nothing EXCEPT !.state = homeState[h]]
        BY <1>1, <2>1, <3>2 DEF OwnBegin
      <4>2. /\ homeStep'[h] \in {"look", "remove"}
            /\ homeStep'[h] = "remove" => homeState[h] # "managed"
        BY <1>1, <2>1, <3>2 DEF OwnBegin
      <4> QED BY <3>1, <3>2, <4>1, <4>2 DEF StateInv, Nothing
    <3>3. CASE job'[h] # "uninstall"
      <4>1. \/ job'[h] = "manual" /\ homeStep'[h] = "write"
            \/ job'[h] = "ask" /\ homeStep'[h] = "look"
        BY <1>1, <2>1, <3>3 DEF OwnBegin
      <4> QED BY <3>1, <4>1 DEF StateInv
    <3> QED BY <3>2, <3>3
  <2>2. CASE Look(h)
    BY <1>1, <1>2, <2>2
    DEF Look, OwnGoto, claims, HomeInv, MadeInv, StateInv, NameInv
  <2>3. CASE LookLegacy(h)
    BY <1>1, <1>2, <2>3
    DEF LookLegacy, OwnGoto, claims, HomeInv, MadeInv, StateInv, NameInv
  <2>4. CASE CheckStates(h)
    BY <1>1, <1>2, <2>4
    DEF CheckStates, OwnGoto, claims, HomeInv, MadeInv, StateInv, NameInv
  <2>5. CASE CheckServices(h)
    BY <1>1, <1>2, <2>5
    DEF CheckServices, OwnGoto, claims, HomeInv, MadeInv, StateInv, NameInv
  <2>6. CASE Read(h)
    BY <1>1, <1>2, <2>6
    DEF Read, OwnGoto, claims, HomeInv, MadeInv, StateInv, NameInv, Found
  <2> QED BY <1>3, <2>1, <2>2, <2>3, <2>4, <2>5, <2>6 DEF Ask
<1>4. CASE Take(h)
  <2>1. CASE Adopt(h)
    BY <1>1, <1>2, <2>1
    DEF Adopt, OwnGoto, claims, HomeInv, MadeInv, StateInv, NameInv
  <2>2. CASE Rename(h)
    BY <1>1, <1>2, <2>2
    DEF Rename, OwnGoto, claims, HomeInv, MadeInv, StateInv, NameInv
  <2>3. CASE Clean(h)
    BY <1>1, <1>2, <2>3
    DEF Clean, OwnGoto, claims, HomeInv, MadeInv, StateInv, NameInv
  <2>4. CASE Own(h)
    BY <1>1, <1>2, <2>4
    DEF Own, OwnGoto, claims, HomeInv, MadeInv, StateInv, NameInv
  <2>5. CASE Link(h)
    BY <1>1, <1>2, <2>5
    DEF Link, OwnGoto, claims, HomeInv, MadeInv, StateInv, NameInv
  <2>6. CASE LinkExists(h)
    BY <1>1, <1>2, <2>6
    DEF LinkExists, OwnGoto, claims, HomeInv, MadeInv, StateInv, NameInv
  <2> QED BY <1>4, <2>1, <2>2, <2>3, <2>4, <2>5, <2>6 DEF Take
<1>5. CASE Work(h)
  <2>1. CASE OwnBackup(h)
    BY <1>1, <1>2, <2>1
    DEF OwnBackup, OwnGoto, claims, HomeInv, MadeInv, StateInv, NameInv
  <2>2. CASE OwnWriteToml(h)
    BY <1>1, <1>2, <2>2
    DEF OwnWriteToml, OwnGoto, claims, HomeInv, MadeInv, StateInv, NameInv
  <2>3. CASE OwnWriteState(h)
    BY <1>1, <1>2, <2>3
    DEF OwnWriteState, OwnGoto, claims, HomeInv, MadeInv, StateInv, NameInv
  <2>4. CASE OwnWritePlist(h)
    BY <1>1, <1>2, <2>4
    DEF OwnWritePlist, OwnGoto, claims, HomeInv, MadeInv, StateInv, NameInv
  <2>5. CASE OwnFinish(h)
    BY <1>1, <1>2, <2>5
    DEF OwnFinish, OwnGoto, claims, HomeInv, MadeInv, StateInv, NameInv
  <2> QED BY <1>5, <2>1, <2>2, <2>3, <2>4, <2>5 DEF Work
<1>6. CASE OwnUndo(h)
  <2>1. CASE OwnFail(h)
    BY <1>1, <1>2, <2>1
    DEF OwnFail, OwnGoto, claims, HomeInv, MadeInv, StateInv, NameInv
  <2>2. CASE OwnUndoToml(h)
    BY <1>1, <1>2, <2>2
    DEF OwnUndoToml, OwnGoto, claims, HomeInv, MadeInv, StateInv, NameInv
  <2>3. CASE OwnUndoState(h)
    BY <1>1, <1>2, <2>3
    DEF OwnUndoState, OwnGoto, claims, HomeInv, MadeInv, StateInv, NameInv
  <2>4. CASE UndoPlist(h)
    BY <1>1, <1>2, <2>4
    DEF UndoPlist, OwnGoto, claims, HomeInv, MadeInv, StateInv, NameInv
  <2>5. CASE OwnUndoClaim(h)
    BY <1>1, <1>2, <2>5
    DEF OwnUndoClaim, OwnGoto, claims, HomeInv, MadeInv, StateInv, NameInv
  <2> QED BY <1>6, <2>1, <2>2, <2>3, <2>4, <2>5 DEF OwnUndo
<1>7. CASE OwnRelease(h)
  <2>1. CASE ReleaseOwner(h)
    BY <1>1, <1>2, <2>1
    DEF ReleaseOwner, OwnGoto, claims, HomeInv, MadeInv, StateInv, NameInv
  <2>2. CASE DropOwner(h)
    BY <1>1, <1>2, <2>2
    DEF DropOwner, OwnGoto, claims, HomeInv, MadeInv, StateInv, NameInv
  <2>3. CASE ReleaseLegacy(h)
    BY <1>1, <1>2, <2>3
    DEF ReleaseLegacy, OwnGoto, claims, HomeInv, MadeInv, StateInv, NameInv, AfterRelease
  <2>4. CASE DropLegacy(h)
    BY <1>1, <1>2, <2>4
    DEF DropLegacy, OwnGoto, claims, HomeInv, MadeInv, StateInv, NameInv, AfterRelease
  <2> QED BY <1>7, <2>1, <2>2, <2>3, <2>4 DEF OwnRelease
<1>8. CASE OwnUninstall(h)
  <2>1. CASE OwnRemove(h)
    BY <1>1, <1>2, <2>1
    DEF OwnRemove, OwnGoto, claims, HomeInv, MadeInv, StateInv, NameInv
  <2>2. CASE Restore(h)
    BY <1>1, <1>2, <2>2
    DEF Restore, OwnGoto, claims, HomeInv, MadeInv, StateInv, NameInv
  <2>3. CASE OwnMarkRestored(h)
    BY <1>1, <1>2, <2>3
    DEF OwnMarkRestored, OwnGoto, claims, HomeInv, MadeInv, StateInv, NameInv
  <2>4. CASE OwnRemoveState(h)
    BY <1>1, <1>2, <2>4
    DEF OwnRemoveState, OwnGoto, claims, HomeInv, MadeInv, StateInv, NameInv
  <2> QED BY <1>8, <2>1, <2>2, <2>3, <2>4 DEF OwnUninstall
<1>9. CASE OwnCrash(h)
  BY <1>2, <1>9 DEF OwnCrash
<1> QED BY <1>3, <1>4, <1>5, <1>6, <1>7, <1>8, <1>9 DEF OwnStep

LEMMA NamesOwnStep ==
    ASSUME ClaimInv, NEW h \in Homes, OwnStep(h)
    PROVE  NameInv(h)'
<1>1. /\ homeStep \in [Homes -> OwnPlaces] /\ job \in [Homes -> Jobs] /\ made \in [Homes -> Ways]
      /\ before \in [Homes -> OwnSnapshots] /\ homeState \in [Homes -> Modes \union {NoHome}]
      /\ HomeInv(h) /\ MadeInv(h) /\ StateInv(h) /\ NameInv(h) /\ NamesAgree /\ NoHome \notin Homes
  BY HomesAssumption DEF ClaimInv, OwnTypeInv, OwnFileTypes, OwnCommandTypes, Arrays, OwnIInv
<1>2. CASE \E place \in OwnQuiet : OwnEnd(h, place)
  BY <1>1, <1>2 DEF OwnEnd, NameInv
<1>3. CASE Ask(h)
  <2>1. CASE OwnBegin(h)
    BY <1>1, <1>2, <2>1
    DEF OwnBegin, OwnGoto, claims, HomeInv, MadeInv, NameInv, NamesAgree, Found
  <2>2. CASE Look(h)
    BY <1>1, <1>2, <2>2
    DEF Look, OwnGoto, claims, HomeInv, MadeInv, NameInv, NamesAgree
  <2>3. CASE LookLegacy(h)
    BY <1>1, <1>2, <2>3
    DEF LookLegacy, OwnGoto, claims, HomeInv, MadeInv, NameInv, NamesAgree
  <2>4. CASE CheckStates(h)
    BY <1>1, <1>2, <2>4
    DEF CheckStates, OwnGoto, claims, HomeInv, MadeInv, NameInv, NamesAgree
  <2>5. CASE CheckServices(h)
    BY <1>1, <1>2, <2>5
    DEF CheckServices, OwnGoto, claims, HomeInv, MadeInv, NameInv, NamesAgree
  <2>6. CASE Read(h)
    BY <1>1, <1>2, <2>6
    DEF Read, OwnGoto, claims, HomeInv, MadeInv, NameInv, NamesAgree, Found
  <2> QED BY <1>3, <2>1, <2>2, <2>3, <2>4, <2>5, <2>6 DEF Ask
<1>4. CASE Take(h)
  <2>1. CASE Adopt(h)
    BY <1>1, <1>2, <2>1
    DEF Adopt, OwnGoto, claims, HomeInv, MadeInv, NameInv, NamesAgree
  <2>2. CASE Rename(h)
    BY <1>1, <1>2, <2>2
    DEF Rename, OwnGoto, claims, HomeInv, MadeInv, NameInv, NamesAgree
  <2>3. CASE Clean(h)
    BY <1>1, <1>2, <2>3
    DEF Clean, OwnGoto, claims, HomeInv, MadeInv, NameInv, NamesAgree
  <2>4. CASE Own(h)
    BY <1>1, <1>2, <2>4
    DEF Own, OwnGoto, claims, HomeInv, MadeInv, NameInv, NamesAgree
  <2>5. CASE Link(h)
    BY <1>1, <1>2, <2>5
    DEF Link, OwnGoto, claims, HomeInv, MadeInv, NameInv, NamesAgree
  <2>6. CASE LinkExists(h)
    BY <1>1, <1>2, <2>6
    DEF LinkExists, OwnGoto, claims, HomeInv, MadeInv, NameInv, NamesAgree
  <2> QED BY <1>4, <2>1, <2>2, <2>3, <2>4, <2>5, <2>6 DEF Take
<1>5. CASE Work(h)
  <2>1. CASE OwnBackup(h)
    BY <1>1, <1>2, <2>1
    DEF OwnBackup, OwnGoto, claims, HomeInv, MadeInv, NameInv, NamesAgree
  <2>2. CASE OwnWriteToml(h)
    BY <1>1, <1>2, <2>2
    DEF OwnWriteToml, OwnGoto, claims, HomeInv, MadeInv, NameInv, NamesAgree
  <2>3. CASE OwnWriteState(h)
    BY <1>1, <1>2, <2>3
    DEF OwnWriteState, OwnGoto, claims, HomeInv, MadeInv, NameInv, NamesAgree
  <2>4. CASE OwnWritePlist(h)
    BY <1>1, <1>2, <2>4
    DEF OwnWritePlist, OwnGoto, claims, HomeInv, MadeInv, NameInv, NamesAgree
  <2>5. CASE OwnFinish(h)
    BY <1>1, <1>2, <2>5
    DEF OwnFinish, OwnGoto, claims, HomeInv, MadeInv, NameInv, NamesAgree
  <2> QED BY <1>5, <2>1, <2>2, <2>3, <2>4, <2>5 DEF Work
<1>6. CASE OwnUndo(h)
  <2>1. CASE OwnFail(h)
    BY <1>1, <1>2, <2>1
    DEF OwnFail, OwnGoto, claims, HomeInv, MadeInv, NameInv, NamesAgree
  <2>2. CASE OwnUndoToml(h)
    BY <1>1, <1>2, <2>2
    DEF OwnUndoToml, OwnGoto, claims, HomeInv, MadeInv, NameInv, NamesAgree
  <2>3. CASE OwnUndoState(h)
    BY <1>1, <1>2, <2>3
    DEF OwnUndoState, OwnGoto, claims, HomeInv, MadeInv, NameInv, NamesAgree
  <2>4. CASE UndoPlist(h)
    BY <1>1, <1>2, <2>4
    DEF UndoPlist, OwnGoto, claims, HomeInv, MadeInv, NameInv, NamesAgree
  <2>5. CASE OwnUndoClaim(h)
    BY <1>1, <1>2, <2>5
    DEF OwnUndoClaim, OwnGoto, claims, HomeInv, MadeInv, NameInv, NamesAgree
  <2> QED BY <1>6, <2>1, <2>2, <2>3, <2>4, <2>5 DEF OwnUndo
<1>7. CASE OwnRelease(h)
  <2>1. CASE ReleaseOwner(h)
    BY <1>1, <1>2, <2>1
    DEF ReleaseOwner, OwnGoto, claims, HomeInv, MadeInv, NameInv, NamesAgree
  <2>2. CASE DropOwner(h)
    BY <1>1, <1>2, <2>2
    DEF DropOwner, OwnGoto, claims, HomeInv, MadeInv, NameInv, NamesAgree
  <2>3. CASE ReleaseLegacy(h)
    BY <1>1, <1>2, <2>3
    DEF ReleaseLegacy, OwnGoto, claims, HomeInv, MadeInv, NameInv, NamesAgree, AfterRelease
  <2>4. CASE DropLegacy(h)
    BY <1>1, <1>2, <2>4
    DEF DropLegacy, OwnGoto, claims, HomeInv, MadeInv, NameInv, NamesAgree, AfterRelease
  <2> QED BY <1>7, <2>1, <2>2, <2>3, <2>4 DEF OwnRelease
<1>8. CASE OwnUninstall(h)
  <2>1. CASE OwnRemove(h)
    BY <1>1, <1>2, <2>1
    DEF OwnRemove, OwnGoto, claims, HomeInv, MadeInv, StateInv, NameInv, NamesAgree
  <2>2. CASE Restore(h)
    BY <1>1, <1>2, <2>2
    DEF Restore, OwnGoto, claims, HomeInv, MadeInv, NameInv, NamesAgree
  <2>3. CASE OwnMarkRestored(h)
    BY <1>1, <1>2, <2>3
    DEF OwnMarkRestored, OwnGoto, claims, HomeInv, MadeInv, StateInv, NameInv, NamesAgree
  <2>4. CASE OwnRemoveState(h)
    BY <1>1, <1>2, <2>4
    DEF OwnRemoveState, OwnGoto, claims, HomeInv, MadeInv, NameInv, NamesAgree
  <2> QED BY <1>8, <2>1, <2>2, <2>3, <2>4 DEF OwnUninstall
<1>9. CASE OwnCrash(h)
  BY <1>2, <1>9 DEF OwnCrash
<1> QED BY <1>3, <1>4, <1>5, <1>6, <1>7, <1>8, <1>9 DEF OwnStep

LEMMA ClaimStep == ASSUME ClaimInv, [OwnNext]_ownVars PROVE ClaimInv'
<1>1. OwnTypeInv'
  BY OwnTypesStep DEF ClaimInv
<1>2. CASE UNCHANGED ownVars
  BY <1>1, <1>2 DEF ownVars, claims, homeCommand, ClaimInv, StateInv, NameInv
<1>3. ASSUME NEW h \in Homes, OwnStep(h) PROVE ClaimInv'
  <2>1. ASSUME NEW k \in Homes, k # h PROVE (StateInv(k) /\ NameInv(k))'
    <3>1. /\ homeStep'[k] = homeStep[k] /\ job'[k] = job[k]
          /\ made'[k] = made[k] /\ before'[k] = before[k] /\ homeState'[k] = homeState[k]
      BY <1>3, <2>1, OthersFrame DEF ClaimInv
    <3>2. StateInv(k) /\ NameInv(k)
      BY DEF ClaimInv
    <3>3. StateInv(k)'
      BY <3>1, <3>2 DEF StateInv
    <3>4. NameInv(k)'
      BY <1>3, <2>1, <3>1, <3>2, NamesFrame, HomesAssumption DEF NameInv
    <3> QED BY <3>3, <3>4
  <2> QED BY <1>1, <1>3, <2>1, StateOwnStep, NamesOwnStep DEF ClaimInv
<1> QED BY <1>2, <1>3 DEF OwnNext, OwnStep

LEMMA DropStep ==
    ASSUME ClaimInv, NEW h \in Homes, OwnStep(h), NEW g \in Homes
    PROVE  /\ HasClaim(g) # HasClaim(g)' => homeStep'[g] # homeStep[g]
           /\ HasClaim(g) /\ ~HasClaim(g)' => homeState[g] # "managed" \/ made[g] = "made"
<1>1. /\ HomeInv(h) /\ StateInv(h) /\ NameInv(h) /\ NamesAgree /\ NoHome \notin Homes
      /\ homeStep \in [Homes -> OwnPlaces]
  BY HomesAssumption DEF ClaimInv, OwnTypeInv, OwnIInv, OwnCommandTypes, Arrays
<1>2. CASE g # h
  <2>1. HasClaim(g) => HasClaim(g)'
    BY <1>1, <1>2, NamesFrame DEF HasClaim
  <2>2. HasClaim(g)' => HasClaim(g)
    BY <1>1, <1>2, NamesFrame DEF HasClaim
  <2> QED BY <2>1, <2>2 DEF HasClaim
<1>3. CASE g = h
  <2>1. CASE Rename(h)
    BY <1>1, <1>3, <2>1 DEF Rename, HomeInv, NamesAgree, HasClaim, OwnGoto, OwnEnd, claims
  <2>2. CASE Clean(h)
    BY <1>1, <1>3, <2>2 DEF Clean, NameInv, NamesAgree, HasClaim, OwnGoto
  <2>3. CASE Link(h)
    BY <1>1, <1>3, <2>3 DEF Link, HasClaim, OwnGoto
  <2>4. CASE DropOwner(h)
    BY <1>1, <1>3, <2>4 DEF DropOwner, NameInv, StateInv, HasClaim, OwnGoto
  <2>5. CASE DropLegacy(h)
    BY <1>1, <1>3, <2>5 DEF DropLegacy, NameInv, StateInv, HasClaim, AfterRelease, OwnGoto, OwnEnd
  <2>6. CASE UNCHANGED claims
    BY <2>6 DEF claims, HasClaim
  <2> QED
    BY <2>1, <2>2, <2>3, <2>4, <2>5, <2>6
    DEF OwnStep, Ask, Take, Work, OwnUndo, OwnRelease, OwnUninstall,
        OwnBegin, Look, LookLegacy, CheckStates, CheckServices, Read, Adopt, Own, LinkExists,
        OwnBackup, OwnWriteToml, OwnWriteState, OwnWritePlist, OwnFinish, OwnFail, OwnUndoToml, OwnUndoState,
        UndoPlist, OwnUndoClaim, ReleaseOwner, ReleaseLegacy, OwnRemove, Restore, OwnMarkRestored,
        OwnRemoveState, OwnCrash
<1> QED BY <1>2, <1>3

(* Only steps of the home that a claim names make it or take it away, and  *)
(* while state.json says that the home manages the directory, only the     *)
(* failed command that made the claim takes it away: any number of homes   *)
(* and commands side by side, failures and crashes.                        *)
THEOREM ClaimsStayOwn == OwnSpec => ClaimsAreOwn
<1> DEFINE StepOwn == \A h \in Homes :
          /\ HasClaim(h) # HasClaim(h)' => homeStep'[h] # homeStep[h]
          /\ HasClaim(h) /\ ~HasClaim(h)' => homeState[h] # "managed" \/ made[h] = "made"
<1>1. OwnInit => ClaimInv
  BY OwnTypesInit DEF OwnInit, ClaimInv, StateInv, NameInv
<1>2. ClaimInv /\ [OwnNext]_ownVars => ClaimInv'
  BY ClaimStep
<1>3. ClaimInv /\ [OwnNext]_ownVars => [StepOwn]_ownVars
  BY DropStep DEF OwnNext, OwnStep
<1> QED BY <1>1, <1>2, <1>3, PTL DEF OwnSpec, ClaimsAreOwn
=============================================================================
