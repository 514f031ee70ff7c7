-------------------------- MODULE RequestConversion --------------------------
(***************************************************************************)
(* A request on its way from the protocol of its caller to that of the     *)
(* upstream: convertRequest of llm-bridge/request.ts, one message of the   *)
(* history after the other, as its four source loops take them.  The       *)
(* builder gathers the prompt, the registry keeps under which safe name    *)
(* each tool went out, and the target's extras finish the body.            *)
(*                                                                         *)
(* A text is a word, an image is inline or a reference; what a message is  *)
(* made of, who said it, the identity of a call and the name of its tool   *)
(* are kept.  The engine that writes the body from the prompt is a library;*)
(* it keeps the order and the identities of the prompt (engine.ts).        *)
(***************************************************************************)
EXTENDS Naturals, Sequences, FiniteSets

CONSTANTS
    ToolNames,      \* names of tools, as the client knows them
    SafeNames,      \* names the upstream accepts
    MapName,        \* mapName: the safe name of a tool
    CallIds,        \* identities of calls, as the client gives them
    Blank,          \* the absence of a name or an identity
    MaxMessages,    \* bound: the messages of the history
    MaxDeclared     \* bound: the tools a request declares

(* A client gives no identity of the form that Gemini calls without one get.*)
GeneratedIds == {<<"gemini_call", k>> : k \in 0..MaxMessages}

ASSUME ConversionAssumption ==
    /\ MapName \in [ToolNames -> SafeNames]
    /\ MaxMessages \in Nat /\ MaxDeclared \in Nat
    /\ CallIds \intersect GeneratedIds = {}

VARIABLES
    route,          \* to: the protocol of the caller
    target,         \* from: the protocol of the upstream
    progress,       \* "open", "reading", "done" or "failed"
    declared,       \* the tools of the request: name -> whether it takes free text
    prompt,         \* the messages that are complete
    joining,        \* pendingAssistant: parts of the assistant's turn, <<>> for none
    registry,       \* the tools by the name they went out under
    nameOf,         \* callNameById
    settled,        \* the calls that have a result
    unanswered,     \* openCallsByName: the calls without identity, oldest first
    messages,       \* what the client said, message after message
    named,          \* under which name each call was made, by the client
    chosen,         \* toolChoice
    sentBody        \* the parts of the body, in order

convVars == <<route, target, progress, declared, prompt, joining, registry, nameOf,
              settled, unanswered, messages, named, chosen, sentBody>>

ConvProtocols == {"responses", "chat-completions", "anthropic", "gemini"}
Part(k, i, n) == [kind |-> k, id |-> i, name |-> n]
TextPart == Part("text", Blank, Blank)
ImagePart == Part("image", Blank, Blank)
UrlPart == Part("url", Blank, Blank)
Empty == [x \in {} |-> x]
Put(f, i, v) == [x \in DOMAIN f \union {i} |-> IF x = i THEN v ELSE f[x]]
Message(r, ps) == [role |-> r, parts |-> ps]

Declarations == UNION {[T -> BOOLEAN] : T \in {S \in SUBSET ToolNames : Cardinality(S) <= MaxDeclared}}

ConvInit ==
    /\ route \in ConvProtocols /\ target \in ConvProtocols /\ declared \in Declarations
    /\ route = "gemini" => \A n \in DOMAIN declared : ~declared[n]
    /\ progress = "open" /\ prompt = <<>> /\ joining = <<>> /\ registry = Empty
    /\ nameOf = Empty /\ settled = {} /\ unanswered = <<>> /\ messages = <<>>
    /\ named = Empty /\ chosen = Blank /\ sentBody = <<>>

-----------------------------------------------------------------------------
(* ToolRegistry and PromptBuilder.                                          *)

(* A safe name stands for one tool; the latest registration has its kind.   *)
Clash(reg, n) == MapName[n] \in DOMAIN reg /\ reg[MapName[n]].name # n
Registered(reg, n, custom) ==
    [m \in DOMAIN reg \union {MapName[n]} |->
        IF m = MapName[n] THEN [name |-> n, custom |-> custom] ELSE reg[m]]
Known(reg, n) == MapName[n] \in DOMAIN reg /\ reg[MapName[n]].name = n

Declare(reg, D) ==
    [m \in DOMAIN reg \union {MapName[n] : n \in DOMAIN D} |->
        IF \E n \in DOMAIN D : MapName[n] = m
        THEN LET n == CHOOSE x \in DOMAIN D : MapName[x] = m IN [name |-> n, custom |-> D[n]]
        ELSE reg[m]]
DeclareClash(reg, D) ==
    \/ \E n \in DOMAIN D : Clash(reg, n)
    \/ \E n, m \in DOMAIN D : n # m /\ MapName[n] = MapName[m]

Flushed == IF joining = <<>> THEN prompt ELSE Append(prompt, Message("assistant", joining))

(* Variant: text begins a turn and forgets the one before it. *)
AppendAssistantTextOver(p) ==
    IF \E i \in DOMAIN joining : joining[i].kind = "call"
    THEN joining' = Append(joining, p) /\ prompt' = prompt
    ELSE joining' = <<p>> /\ prompt' = prompt

(* Text joins only a turn that has a call already; a call joins any turn.   *)
AppendAssistantText(p) ==
    IF \E i \in DOMAIN joining : joining[i].kind = "call"
    THEN joining' = Append(joining, p) /\ prompt' = prompt
    ELSE joining' = <<p>> /\ prompt' = Flushed
AppendAssistantToolCall(p) == joining' = Append(joining, p) /\ prompt' = prompt
WithUser(words) == IF words = <<>> THEN <<>> ELSE <<Message("user", words)>>
Push(ms) == prompt' = Flushed \o ms /\ joining' = <<>>

Reading(said) ==
    /\ progress = "reading" /\ Len(messages) < MaxMessages
    /\ messages' = Append(messages, said)
    /\ UNCHANGED <<route, target, declared, chosen, sentBody>>
Refused == progress' = "failed"
           /\ UNCHANGED <<prompt, joining, registry, nameOf, settled, unanswered, named>>
Accepted == progress' = progress

-----------------------------------------------------------------------------
(* Responses declares its tools before it reads, the others afterwards.  A  *)
(* request for the protocol it is in already goes through as it is.         *)
ConvOpen ==
    /\ progress = "open"
    /\ progress' = IF route = target THEN "done"
                   ELSE IF route = "responses" /\ DeclareClash(Empty, declared) THEN "failed"
                   ELSE "reading"
    /\ registry' = IF route = target
                   THEN [n \in DOMAIN declared |->
                             [name |-> n, custom |-> declared[n] /\ route # "anthropic"]]
                   ELSE IF route = "responses" /\ ~DeclareClash(Empty, declared)
                   THEN Declare(Empty, declared) ELSE registry
    /\ UNCHANGED <<route, target, declared, prompt, joining, nameOf, settled, unanswered,
                   messages, named, chosen, sentBody>>

(* A message of the user; also what Codex injects as an output without a    *)
(* call, which only Responses has.                                          *)
UserSays(ps) ==
    /\ Reading(Message("user", ps)) /\ Accepted
    /\ Push(<<Message("user", ps)>>)
    /\ UNCHANGED <<registry, nameOf, settled, unanswered, named>>

(* Instructions are gathered apart; reasoning, calls of the server's own    *)
(* tools and thoughts are left out.                                         *)
Stripped ==
    /\ Reading(Message("aside", <<>>)) /\ Accepted
    /\ UNCHANGED <<prompt, joining, registry, nameOf, settled, unanswered, named>>

(* The assistant's words: a message of its own in chat and Anthropic, a     *)
(* part of the turn in Responses and Gemini.                                *)
AssistantSays ==
    /\ Reading(Message("assistant", <<TextPart>>)) /\ Accepted
    /\ IF route \in {"responses", "gemini"} THEN AppendAssistantText(TextPart)
       ELSE Push(<<Message("assistant", <<TextPart>>)>>)
    /\ UNCHANGED <<registry, nameOf, settled, unanswered, named>>

(* A call.  Of the names the client has declared Responses takes the kind   *)
(* from the declaration; a name it has not is registered as it is used.     *)
(* A Gemini client gives an identity once; the others are held to it.       *)
ConvCalls(i, n, custom, words) ==
    LET fresh == IF route = "responses" THEN n \notin DOMAIN declared ELSE ~Known(registry, n)
        call == Part("call", i, MapName[n])
        turn == route \in {"responses", "gemini"}
    IN /\ (custom => route = "responses") /\ (words # <<>> => ~turn)
       /\ (route = "gemini" => i \notin DOMAIN named)
       /\ Reading(Message("assistant", words \o <<Part("call", i, n)>>))
       /\ IF (fresh /\ Clash(registry, n)) \/ i \in DOMAIN nameOf THEN Refused
          ELSE /\ Accepted
               /\ registry' = IF fresh THEN Registered(registry, n, custom) ELSE registry
               /\ nameOf' = Put(nameOf, i, MapName[n])
               /\ named' = Put(named, i, n)
               /\ IF turn THEN AppendAssistantToolCall(call)
                  ELSE Push(<<Message("assistant", words \o <<call>>)>>)
               /\ UNCHANGED <<settled, unanswered>>

(* A call of Gemini without identity gets one, and waits under its name.    *)
GeminiCalls(n) ==
    LET i == <<"gemini_call", Len(messages)>>
    IN /\ route = "gemini"
       /\ Reading(Message("assistant", <<Part("call", i, n)>>))
       /\ IF ~Known(registry, n) /\ Clash(registry, n) THEN Refused
          ELSE /\ Accepted
               /\ registry' = IF Known(registry, n) THEN registry ELSE Registered(registry, n, FALSE)
               /\ named' = Put(named, i, n)
               /\ unanswered' = Append(unanswered, i)
               /\ AppendAssistantToolCall(Part("call", i, MapName[n]))
               /\ UNCHANGED <<nameOf, settled>>

(* A result, and in Anthropic what the user says with it, which goes        *)
(* behind.  Responses alone refuses a second result of a call.              *)
Answers(i, words) ==
    /\ route # "gemini" /\ (words # <<>> => route = "anthropic")
    /\ Reading(Message("tool", <<Part("result", i, IF i \in DOMAIN named THEN named[i] ELSE Blank)>> \o words))
    /\ IF i \notin DOMAIN nameOf \/ (route = "responses" /\ i \in settled) THEN Refused
       ELSE /\ Accepted
            /\ settled' = settled \union {i}
            /\ Push(<<Message("tool", <<Part("result", i, nameOf[i])>>)>> \o WithUser(words))
            /\ UNCHANGED <<registry, nameOf, unanswered, named>>

(* A response of Gemini that has an identity is taken as it is, with the    *)
(* name it gives.                                                           *)
GeminiResult(i, n, words) ==
    /\ route = "gemini"
    /\ Reading(Message("tool", <<Part("result", i, n)>> \o words))
    /\ IF ~Known(registry, n) /\ Clash(registry, n) THEN Refused
       ELSE /\ Accepted
            /\ registry' = IF Known(registry, n) THEN registry ELSE Registered(registry, n, FALSE)
            /\ settled' = settled \union {i}
            /\ Push(<<Message("tool", <<Part("result", i, MapName[n])>>)>> \o WithUser(words))
            /\ UNCHANGED <<nameOf, unanswered, named>>

(* A response of Gemini without identity goes to the oldest call of its     *)
(* name that has none.                                                      *)
Waiting(n) == {k \in DOMAIN unanswered : named[unanswered[k]] = n}
Oldest(n) == CHOOSE k \in Waiting(n) : \A j \in Waiting(n) : k <= j
GeminiAnswers(n) ==
    /\ route = "gemini"
    /\ Reading(Message("tool", <<Part("result", Blank, n)>>))
    /\ IF Waiting(n) = {} THEN Refused
       ELSE LET i == unanswered[Oldest(n)]
            IN /\ Accepted
               /\ unanswered' = SubSeq(unanswered, 1, Oldest(n) - 1)
                                 \o SubSeq(unanswered, Oldest(n) + 1, Len(unanswered))
               /\ settled' = settled \union {i}
               /\ Push(<<Message("tool", <<Part("result", i, MapName[n])>>)>>)
               /\ UNCHANGED <<registry, nameOf, named>>

-----------------------------------------------------------------------------
(* The end: the tools of the other protocols are declared, the choice is    *)
(* looked up, and the target's extras are applied.                          *)
Whole == Flushed
Parts(ms) ==
    LET upto[k \in 0..Len(ms)] == IF k = 0 THEN <<>> ELSE upto[k - 1] \o ms[k].parts
    IN upto[Len(ms)]

(* applyResponsesExtras: calls of free-text tools, and their results, have  *)
(* their own kind again.                                                    *)
Customs(reg, ps) ==
    {ps[k].id : k \in {j \in DOMAIN ps : ps[j].kind = "call" /\ reg[ps[j].name].custom}}
(* Variant: the calls get their kind back, their results do not. *)
RestoredCalls(reg, ps) ==
    [k \in DOMAIN ps |->
        IF ps[k].id \in Customs(reg, ps) /\ ps[k].kind = "call" THEN [ps[k] EXCEPT !.kind = "custom"]
        ELSE ps[k]]

Restored(reg, ps) ==
    [k \in DOMAIN ps |->
        IF ps[k].id \in Customs(reg, ps) /\ ps[k].kind = "call" THEN [ps[k] EXCEPT !.kind = "custom"]
        ELSE IF ps[k].id \in Customs(reg, ps) /\ ps[k].kind = "result"
        THEN [ps[k] EXCEPT !.kind = "customResult"] ELSE ps[k]]

BodyOf(reg) ==
    IF target = "responses" THEN Restored(reg, Parts(Whole)) ELSE Parts(Whole)

Choosable(reg, n) ==
    IF route = "responses" THEN n \in DOMAIN declared ELSE Known(reg, n)

ConvClose(choice) ==
    LET late == route # "responses"
        reg == IF late THEN Declare(registry, declared) ELSE registry
        bad == \/ (late /\ DeclareClash(registry, declared))
               \/ (choice # Blank /\ ~Choosable(reg, choice))
               \/ (target = "gemini" /\ \E k \in DOMAIN Parts(Whole) : Parts(Whole)[k].kind = "url")
    IN /\ progress = "reading" /\ messages # <<>>
       /\ progress' = IF bad THEN "failed" ELSE "done"
       /\ registry' = IF bad THEN registry ELSE reg
       /\ chosen' = IF bad \/ choice = Blank THEN Blank ELSE MapName[choice]
       /\ sentBody' = IF bad THEN <<>> ELSE BodyOf(reg)
       /\ UNCHANGED <<route, target, declared, prompt, joining, nameOf, settled, unanswered,
                      messages, named>>

ConvNext ==
    \/ ConvOpen
    \/ \E ps \in {<<TextPart>>, <<ImagePart, UrlPart>>} : UserSays(ps)
    \/ Stripped
    \/ AssistantSays
    \/ \E i \in CallIds, n \in ToolNames, custom \in BOOLEAN, ws \in {<<>>, <<TextPart>>} :
          ConvCalls(i, n, custom, ws)
    \/ \E n \in ToolNames : GeminiCalls(n) \/ GeminiAnswers(n)
    \/ \E i \in CallIds, ws \in {<<>>, <<TextPart>>} :
          Answers(i, ws) \/ \E n \in ToolNames : GeminiResult(i, n, ws)
    \/ \E choice \in ToolNames \union {Blank} : ConvClose(choice)

ConvSpec == ConvInit /\ [][ConvNext]_convVars

-----------------------------------------------------------------------------
Kind(p) == CASE p.kind \in {"call", "custom"} -> "call"
             [] p.kind \in {"result", "customResult"} -> "result"
             [] OTHER -> p.kind
ConvTypeOK ==
    /\ route \in ConvProtocols /\ target \in ConvProtocols
    /\ progress \in {"open", "reading", "done", "failed"}
    /\ \A m \in DOMAIN registry : registry[m].name \in ToolNames /\ registry[m].custom \in BOOLEAN
    /\ DOMAIN nameOf \subseteq CallIds /\ settled \subseteq CallIds \union DOMAIN named
    /\ chosen \in SafeNames \union {Blank}
    /\ Len(messages) <= MaxMessages /\ Len(prompt) <= 2 * MaxMessages

(* Whatever the two protocols are, a request that is converted says what    *)
(* the client said: every word, image, call and result of its history, in   *)
(* its order, none lost where turns are joined and none said twice          *)
(* (PromptBuilder and the four source loops of request.ts).                 *)
Said == Parts(messages)
ConversationKept ==
    progress = "done" /\ route # target =>
      /\ Len(sentBody) = Len(Said)
      /\ \A k \in DOMAIN Said :
            /\ Kind(sentBody[k]) = Said[k].kind
            /\ Said[k].name # Blank => sentBody[k].name = MapName[Said[k].name]
            /\ Said[k].id # Blank => sentBody[k].id = Said[k].id

(* One identity of a tool in all three places (the identity contract of     *)
(* request.ts): the name a call goes out under leads back to the name the   *)
(* client used and no other; a declared tool keeps its kind whatever the    *)
(* history called it; the tool that is chosen is one of the table; and the  *)
(* result of a call follows it, under its name and with its kind; a Gemini  *)
(* client answers for the identities it gives itself.                       *)
IdentitiesKept ==
    progress = "done" /\ route # target =>
      /\ \A n \in DOMAIN declared : registry[MapName[n]] = [name |-> n, custom |-> declared[n]]
      /\ chosen # Blank => chosen \in DOMAIN registry
      /\ \A k \in DOMAIN sentBody :
            /\ Kind(sentBody[k]) = "call" => registry[sentBody[k].name].name = named[sentBody[k].id]
            /\ Kind(sentBody[k]) = "result" /\ (route = "gemini" => sentBody[k].id \notin CallIds) =>
                 \E j \in 1..(k - 1) :
                    /\ Kind(sentBody[j]) = "call" /\ sentBody[j].id = sentBody[k].id
                    /\ sentBody[j].name = sentBody[k].name
                    /\ (sentBody[j].kind = "custom") <=> (sentBody[k].kind = "customResult")

(* A request that is converted is the request that was made: its            *)
(* conversation is kept, and so are the identities of its tools.            *)
RequestConverted == ConversationKept /\ IdentitiesKept
=============================================================================
