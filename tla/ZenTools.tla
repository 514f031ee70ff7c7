------------------------------ MODULE ZenTools ------------------------------
(***************************************************************************)
(* A request to OpenCode Zen and its tools, on their way to the upstream   *)
(* and back (packages/opencode-zen/src: fingerprint.ts, index.ts,          *)
(* convert.ts).  The upstream wants a tool named read, takes a limited     *)
(* number of tools, and refuses certain pairs of names; so tools are       *)
(* added, cut off and renamed, and a table says which tool of the client   *)
(* an upstream name stands for.                                            *)
(*                                                                         *)
(* A name is a base and what was done to it: whether a forbidden part is   *)
(* broken by an underscore, the number appended to it, and whether it      *)
(* differs from its lower-case form.                                       *)
(***************************************************************************)
EXTENDS Naturals, Sequences, FiniteSets

CONSTANTS
    Bases,          \* names, without case
    ReadBase,       \* read
    Pairs,          \* <<F, S>>: names with the first, the second part of a refused pair
    Declarable,     \* the names a client declares
    MaxDeclared,    \* bound: tools that a client declares
    MaxTools        \* OPENCODE_ZEN_TOOLS_MAX

Protocols == {"chat-completions", "responses", "anthropic", "gemini"}
Plain(b) == [base |-> b, cut |-> FALSE, no |-> 0, caps |-> FALSE]
ReadName == Plain(ReadBase)

ASSUME ZenToolsAssumption ==
    /\ ReadBase \in Bases /\ MaxTools \in Nat \ {0} /\ MaxDeclared \in Nat
    /\ \A p \in Pairs : p[1] \subseteq Bases /\ p[2] \subseteq Bases
    /\ \A p, q \in Pairs : p # q => p[2] \intersect q[2] = {}
    /\ Declarable \subseteq [base : Bases, cut : BOOLEAN, no : Nat, caps : BOOLEAN]

VARIABLES
    zenStage,       \* "new", "sent", "answering", "called", "over"
    zenShut,        \* closed
    bound,          \* the request can be aborted: it is among activeRequests
    declared,       \* the tools of the client: a name, and whether it is custom
    upstreamOf,     \* the protocol of the upstream, that of the client,
    clientOf,       \*   whether it streams, and whether the model is a muse-spark
    streaming,
    muse,
    sentTools,      \* what the upstream is told
    identity,       \* the table of identities
    shown           \* the name under which the client is told of a call

zenGiven == <<declared, upstreamOf, clientOf, streaming, muse>>
zenToolVars == <<zenStage, zenShut, bound, zenGiven, sentTools, identity, shown>>

Lists == UNION {[1..n -> [name : Declarable, custom : BOOLEAN]] : n \in 0..MaxDeclared}
NamesIn(tools) == {tools[i].name : i \in DOMAIN tools}

(* A client names each of its tools once; custom tools there are only in    *)
(* the protocol Responses.  The protocol of the upstream is that of the     *)
(* model, which the catalog tells when the request arrives.                 *)
ZenToolInit ==
    /\ zenStage = "new" /\ zenShut = FALSE /\ bound = TRUE
    /\ upstreamOf \in Protocols /\ clientOf \in Protocols
    /\ streaming \in BOOLEAN /\ muse \in BOOLEAN
    /\ declared \in Lists
    /\ \A i, j \in DOMAIN declared : i # j => declared[i].name # declared[j].name
    /\ \A i \in DOMAIN declared : declared[i].custom => clientOf = "responses"
    /\ sentTools = <<>> /\ identity = <<>> /\ shown = ReadName

-----------------------------------------------------------------------------
(* What the conversion leaves: a table of the names as they are, and custom *)
(* tools only on the way from Responses to Responses.                       *)
Converted ==
    [i \in DOMAIN declared |->
        [name |-> declared[i].name, of |-> declared[i].name,
         custom |-> declared[i].custom /\ upstreamOf = "responses"]]
Identities == [n \in NamesIn(declared) |-> n]

(* mergeOpencodeZenGateTools: read is there, at the end if the client has   *)
(* none, and the list is cut to what is allowed.  Its twin for Responses    *)
(* follows the same rule.                                                   *)
Gate(tools) ==
    LET added == [name |-> ReadName, of |-> ReadName, custom |-> FALSE]
        limit(n) == IF n < Len(tools) THEN n ELSE Len(tools)
    IN IF ReadName \in NamesIn(tools) THEN SubSeq(tools, 1, limit(MaxTools))
       ELSE Append(SubSeq(tools, 1, limit(MaxTools - 1)), added)

GateResponses(tools) == Gate(tools)

(* The adapters of the four protocols: only two of them add tools.          *)
Adapted ==
    CASE upstreamOf = "chat-completions" -> Gate(Converted)
      [] upstreamOf = "responses" -> GateResponses(Converted)
      [] OTHER -> Converted

(* dropMuseSparkCustomTools *)
Sanitized(tools) ==
    LET kept == {i \in DOMAIN tools : ~(muse /\ tools[i].custom)}
        rank(i) == Cardinality({j \in kept : j <= i})
    IN [n \in 1..Cardinality(kept) |-> tools[CHOOSE i \in kept : rank(i) = n]]

(* mergeOpencodeZenToolIdentities: read, if it was not the client's.        *)
WithGate(table, tools) ==
    IF ReadName \in NamesIn(tools) /\ ReadName \notin DOMAIN table
    THEN [n \in DOMAIN table \union {ReadName} |-> IF n = ReadName THEN n ELSE table[n]]
    ELSE table

Lower(n) == [n EXCEPT !.caps = FALSE]
Has(n, parts) == n.base \in parts /\ ~n.cut

(* Variant: a broken name may be one that is there already. *)
FreshHasty(n, taken) == [n EXCEPT !.cut = TRUE]

(* The broken name, with a number when it is taken: _2, _3, ...             *)
Fresh(n, taken) ==
    LET candidate(k) == [n EXCEPT !.cut = TRUE, !.no = IF k = 1 THEN n.no ELSE n.no * 10 + k]
        free == {k \in 1..(MaxDeclared + 2) : Lower(candidate(k)) \notin taken}
    IN candidate(CHOOSE k \in free : \A j \in free : k <= j)

(* breakOpencodeZenBlockedToolNamePairs: the second of a refused pair is    *)
(* renamed, one tool after the other.                                       *)
Blocked(tools) ==
    {i \in DOMAIN tools : \E p \in Pairs : /\ Has(tools[i].name, p[2])
                                           /\ \E j \in DOMAIN tools : Has(tools[j].name, p[1])}

(* The new name of tool i, when those before it have theirs.                *)
Renamed(tools, new, i) ==
    IF i \notin Blocked(tools) THEN tools[i].name
    ELSE Fresh(tools[i].name, {Lower(n) : n \in NamesIn(tools)}
                              \union {Lower(new[j]) : j \in Blocked(tools) \intersect 1..(i - 1)})

Broken(tools) ==
    LET new[i \in DOMAIN tools] == Renamed(tools, new, i)
    IN [i \in DOMAIN tools |-> [tools[i] EXCEPT !.name = new[i]]]

(* The new names are entered beside the old ones.                           *)
WithRenames(table, before, after) ==
    LET renamed == {i \in DOMAIN after : after[i].name # before[i].name}
        new(n) == {i \in renamed : after[i].name = n}
        original(n) == before[CHOOSE i \in new(n) : \A j \in new(n) : j <= i].name
    IN [n \in DOMAIN table \union {after[i].name : i \in renamed} |->
           IF new(n) = {} THEN table[n]
           ELSE IF original(n) \in DOMAIN table THEN table[original(n)] ELSE original(n)]

(* adaptOpencodeZenUpstreamRequest *)
Adapt ==
    LET tools == Sanitized(Adapted)
        table == IF upstreamOf \in {"chat-completions", "responses"}
                 THEN WithGate(Identities, Adapted) ELSE Identities
    IN /\ zenStage = "new" /\ zenStage' = "sent"
       /\ sentTools' = Broken(tools)
       /\ identity' = WithRenames(table, tools, Broken(tools))
       /\ UNCHANGED <<zenShut, bound, zenGiven, shown>>

(* Is the answer rendered anew, with the identities, or passed on as it is? *)
Rendered ==
    \/ upstreamOf # clientOf
    \/ upstreamOf = "responses" /\ ~streaming

(* The four handlers: a stream of the client's own protocol is passed on    *)
(* and let go; a whole answer is gathered first, everything else rendered.  *)
Passes(own) ==
    /\ zenStage = "sent" /\ clientOf = own
    /\ zenStage' = "answering" /\ bound' = ~(streaming /\ upstreamOf = own)
    /\ UNCHANGED <<zenShut, zenGiven, sentTools, identity, shown>>
ForwardChat == Passes("chat-completions")
ForwardResponses == Passes("responses")
ForwardMessages == Passes("anthropic")
ForwardGemini == Passes("gemini")

Restored(n) == IF n \in DOMAIN identity THEN identity[n] ELSE n

(* The model calls a tool it was told of.                                   *)
Called(i) ==
    /\ zenStage = "answering" /\ zenStage' = "called"
    /\ shown' = IF Rendered THEN Restored(sentTools[i].name) ELSE sentTools[i].name
    /\ UNCHANGED <<zenShut, bound, zenGiven, sentTools, identity>>

(* The upstream refuses or breaks off, the answer is over, or the client    *)
(* leaves a request that can still be aborted.                              *)
Ended == /\ zenStage \in {"sent", "answering", "called"}
         /\ zenStage' = "over" /\ sentTools' = <<>> /\ identity' = <<>>
         /\ UNCHANGED <<zenShut, bound, zenGiven, shown>>

(* close: no request begins any more, and those that are bound are aborted. *)
Shut ==
    /\ ~zenShut /\ zenShut' = TRUE
    /\ zenStage' = IF bound THEN "over" ELSE zenStage
    /\ sentTools' = (IF bound THEN <<>> ELSE sentTools)
    /\ identity' = (IF bound THEN <<>> ELSE identity)
    /\ UNCHANGED <<bound, zenGiven, shown>>

ZenToolNext ==
    \/ Adapt \/ ForwardChat \/ ForwardResponses \/ ForwardMessages \/ ForwardGemini
    \/ (\E i \in DOMAIN sentTools : Called(i)) \/ Ended \/ Shut
ZenToolSpec == ZenToolInit /\ [][ZenToolNext]_zenToolVars

-----------------------------------------------------------------------------
(* Every name the upstream is told stands for one tool, and the table leads *)
(* back to the tool of the client it was made of, whatever names the client *)
(* uses itself; no refused pair is left, and nothing beyond the limit       *)
(* (mergeOpencodeZenGateTools, breakOpencodeZenBlockedToolNamePairs).       *)
ToolsRestored ==
    zenStage \notin {"new", "over"} =>
        /\ \A i, j \in DOMAIN sentTools : i # j => sentTools[i].name # sentTools[j].name
        /\ \A i \in DOMAIN sentTools : Restored(sentTools[i].name) = sentTools[i].of
        /\ ~\E p \in Pairs : \E i, j \in DOMAIN sentTools :
              Has(sentTools[i].name, p[1]) /\ Has(sentTools[j].name, p[2])
        /\ upstreamOf \in {"chat-completions", "responses"} => Len(sentTools) <= MaxTools

(* The client hears of a call under the name that it gave the tool          *)
(* (adaptOpencodeZenUpstreamRequest: "the call of the answer is restored to *)
(* the name of the client").                                                *)
CallsComeBack == zenStage = "called" => shown \in NamesIn(declared) \union {ReadName}
=============================================================================
