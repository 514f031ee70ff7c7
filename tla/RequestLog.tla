----------------------------- MODULE RequestLog -----------------------------
(***************************************************************************)
(* The directory of request logs of one gateway process:                   *)
(* apps/gateway/src/request-log.ts, with the connections of gateway.ts     *)
(* that hold a file while they last.                                       *)
(*                                                                         *)
(* Every HTTP exchange and every WebSocket connection appends to a file;   *)
(* connections of one session share theirs.  A write may sweep the         *)
(* directory down to maxLogs files, but never a file that is in use.  All  *)
(* of it is synchronous, so a write and its sweep are one step.            *)
(***************************************************************************)
EXTENDS Integers, FiniteSets

CONSTANTS
    Names,          \* names of request logs; other files are never touched
    Sockets,    \* WebSocket connections open at once
    Limits,         \* values of maxRequestLogs; 0 keeps everything
    SweepInterval,  \* SWEEP_INTERVAL
    NoFile            \* no file

ASSUME LogAssumption ==
    /\ Limits \subseteq Nat /\ SweepInterval \in Nat \ {0}
    /\ IsFiniteSet(Names) /\ IsFiniteSet(Sockets)
    /\ NoFile \notin Names

VARIABLES
    files,      \* the request logs in the directory
    older,      \* older[f]: the files last written before f
    holds,      \* the file a connection retains, or NoFile
    writes,     \* writesSinceSweep
    maxLogs     \* maxRequestLogs of the process

logVars == <<files, older, holds, writes, maxLogs>>

(* activeLogCounts, as the number of connections that hold the file. *)
ActiveCount(file) == Cardinality({c \in Sockets : holds[c] = file})

-----------------------------------------------------------------------------
(* Variant: a file leaves the count with its first connection. *)
CandidatesOnce(all) == {f \in all : ActiveCount(f) # 1}

(* pruneLogDir: the files that count are those not in use ... *)
Candidates(all) == {f \in all : ActiveCount(f) = 0}

(* ... and the newest maxLogs of them stay. *)
Stale(all, order) ==
    {f \in Candidates(all) : Cardinality({g \in Candidates(all) : f \in order[g]}) >= maxLogs}

(* Variant: a small directory waits for its turn like a large one. *)
DueSeldom == maxLogs # 0 /\ writes + 1 >= SweepInterval

(* sweepAfterWrite: a small directory is swept at every write, a large one *)
(* at every SweepInterval-th.                                              *)
Due == maxLogs # 0 /\ (maxLogs >= SweepInterval => writes + 1 >= SweepInterval)

Counted ==
    IF maxLogs = 0 \/ maxLogs < SweepInterval THEN writes
    ELSE IF Due THEN 0 ELSE writes + 1

(* append: the file is created or becomes the newest, then the sweep. *)
LogAppend(file) ==
    LET all   == files \union {file}
        order == [g \in Names |-> IF g = file THEN all \ {file} ELSE older[g] \ {file}]
        kept  == IF Due THEN all \ Stale(all, order) ELSE all
    IN  /\ files' = kept
        /\ older' = [g \in Names |-> IF g \in kept THEN order[g] \intersect kept ELSE {}]
        /\ writes' = Counted
        /\ UNCHANGED maxLogs

-----------------------------------------------------------------------------
(* An HTTP exchange, or an event of a connection that is already over. *)
Write(file) == LogAppend(file) /\ UNCHANGED holds

(* retainLogFile, when a connection starts. *)
Retain(c, file) ==
    /\ holds[c] = NoFile
    /\ holds' = [holds EXCEPT ![c] = file]
    /\ UNCHANGED <<files, older, writes, maxLogs>>

(* Events and frames of a connection go to the file it holds. *)
WriteHeld(c) ==
    /\ holds[c] # NoFile
    /\ LogAppend(holds[c]) /\ UNCHANGED holds

(* The function that retainLogFile returned; nothing is swept. *)
Release(c) ==
    /\ holds[c] # NoFile
    /\ holds' = [holds EXCEPT ![c] = NoFile]
    /\ UNCHANGED <<files, older, writes, maxLogs>>

(* The sweep of a process that holds nothing yet. *)
StaleAtStart(limit) ==
    IF limit = 0 THEN {} ELSE {f \in files : Cardinality({g \in files : f \in older[g]}) >= limit}

(* A new process starts with a sweep, whatever the last one held. *)
LogRestart ==
    \E limit \in Limits :
        LET kept == files \ StaleAtStart(limit)
        IN  /\ maxLogs' = limit
            /\ holds' = [c \in Sockets |-> NoFile]
            /\ writes' = 0
            /\ files' = kept
            /\ older' = [g \in Names |-> IF g \in kept THEN older[g] \intersect kept ELSE {}]

LogInit ==
    /\ files = {} /\ older = [g \in Names |-> {}]
    /\ holds = [c \in Sockets |-> NoFile]
    /\ writes = 0 /\ maxLogs \in Limits

LogNext ==
    \/ \E f \in Names : Write(f)
    \/ \E c \in Sockets : WriteHeld(c) \/ Release(c) \/ \E f \in Names : Retain(c, f)
    \/ LogRestart

LogSpec == LogInit /\ [][LogNext]_logVars

-----------------------------------------------------------------------------
(* Properties.                                                             *)

(* The order of the last writes is a strict total order of the files. *)
LogTypeOK ==
    /\ files \subseteq Names
    /\ holds \in [Sockets -> Names \union {NoFile}]
    /\ writes \in 0..SweepInterval - 1 /\ maxLogs \in Limits
    /\ older \in [Names -> SUBSET files]
    /\ \A f, g \in files : f # g => (f \in older[g] <=> g \notin older[f])
    /\ \A f, g, h \in files : f \in older[g] /\ g \in older[h] => f \in older[h]
    /\ \A f \in Names : f \notin older[f]

(* The file of a session is not deleted while any connection of it is      *)
(* open, whichever of them ends first (comment on activeLogCounts).        *)
HeldFilesStay ==
    [][\A c \in Sockets : holds[c] \in files /\ holds'[c] = holds[c] => holds[c] \in files']_logVars

(* The directory never holds more than maxLogs files and those that open   *)
(* connections or the writes since the last sweep account for.             *)
Interval == IF maxLogs >= SweepInterval THEN SweepInterval ELSE 1

DirectoryBounded ==
    maxLogs # 0 => Cardinality(files) <= maxLogs + Cardinality(Sockets) + Interval - 1
=============================================================================
