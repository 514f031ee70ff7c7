--------------------------- MODULE RequestsProofs ---------------------------
(***************************************************************************)
(* Theorems about RequestLog, for any number of files and connections and  *)
(* any limits, about ThreadRouting, for any threads, turns, connections    *)
(* and any bound on the turns remembered, about RequestConversion, for any *)
(* tools, names and identities and any length of the history, and about    *)
(* AgyLoop, for any tools and signatures and any length of an answer.      *)
(*                                                                         *)
(* Outside upstreamOnly mode the threads remembered are those the proxy    *)
(* served, and the sequence of turns holds the turns that came since its   *)
(* head: a turn that was evicted saw MaxTurns others since.                *)
(***************************************************************************)
EXTENDS RequestLog, ThreadRouting, RequestConversion, AgyLoop, FiniteSetTheorems, SequenceTheorems, TLAPS

-----------------------------------------------------------------------------
(* The conversion of a request.  What the builder has is, part for part,   *)
(* what the client said so far; names go out through the registry, and a   *)
(* result follows its call (Conversation).  The parts of the messages are  *)
(* a fold, so the lemmas about it descend from a smallest counterexample.  *)

LEMMA SmallestNumber ==
    ASSUME NEW T \in SUBSET Nat, T # {}
    PROVE  \E m \in T : \A k \in T : m <= k
<1> DEFINE R == OpToRel(<, Nat)
<1>0. \A k, m \in Nat : <<k, m>> \in R <=> k < m
  BY DEF OpToRel
<1>1. IsWellFoundedOn(R, Nat)
  BY NatLessThanWellFounded
<1> HIDE DEF R
<1>2. PICK m \in T : \A k \in T : ~(<<k, m>> \in R)
  BY <1>1, WFMin
<1>3. \A k \in T : k \in Nat /\ m \in Nat /\ (k < m \/ m <= k)
  OBVIOUS
<1> QED BY <1>2, <1>0, <1>3

-----------------------------------------------------------------------------
(* The parts of messages, one message after the other. *)

Upto(ms, g, N) == g = [k \in 0..N |-> IF k = 0 THEN <<>> ELSE g[k - 1] \o ms[k].parts]

LEMMA UptoExists ==
    ASSUME NEW ms, NEW N \in Nat
    PROVE  \E g : Upto(ms, g, N)
<1> DEFINE Never == {m \in Nat : ~\E g : Upto(ms, g, m)}
<1> SUFFICES ASSUME N \in Never PROVE FALSE
  OBVIOUS
<1>1. PICK m \in Never : \A k \in Never : m <= k
  <2>1. Never \in SUBSET Nat /\ Never # {}
    OBVIOUS
  <2> HIDE DEF Never
  <2> QED BY <2>1, SmallestNumber
<1>2. m # 0
  <2> DEFINE e == [k \in 0..0 |-> <<>>]
  <2>1. \A k \in 0..0 : k = 0
    OBVIOUS
  <2>2. Upto(ms, e, 0)
    BY <2>1 DEF Upto
  <2> QED BY <2>2, <1>1
<1>3. m \in Nat /\ m - 1 \in Nat /\ m - 1 \notin Never
  BY <1>1, <1>2
<1>4. PICK g : Upto(ms, g, m - 1)
  BY <1>3
<1> DEFINE last == g[m - 1] \o ms[m].parts
           h == [k \in 0..m |-> IF k = m THEN last ELSE g[k]]
<1>5. /\ \A k \in 0..(m - 1) : h[k] = g[k] /\ k \in 0..m
      /\ \A k \in 0..(m - 1) : g[k] = IF k = 0 THEN <<>> ELSE g[k - 1] \o ms[k].parts
      /\ h[m] = last /\ h = [k \in 0..m |-> h[k]]
  <2>1. \A k \in 0..(m - 1) : k # m /\ k \in 0..m
    BY <1>3
  <2>2. \A k \in 0..(m - 1) : g[k] = IF k = 0 THEN <<>> ELSE g[k - 1] \o ms[k].parts
    BY <1>4 DEF Upto
  <2>3. m \in 0..m
    BY <1>3
  <2> HIDE DEF last
  <2> QED BY <2>1, <2>2, <2>3
<1> HIDE DEF h
<1>6. \A k \in 0..m : h[k] = IF k = 0 THEN <<>> ELSE h[k - 1] \o ms[k].parts
  <2> SUFFICES ASSUME NEW k \in 0..m
               PROVE  h[k] = IF k = 0 THEN <<>> ELSE h[k - 1] \o ms[k].parts
    OBVIOUS
  <2>1. CASE k = 0
    <3>1. 0 \in 0..(m - 1)
      BY <1>3
    <3>2. h[0] = <<>>
      BY <3>1, <1>5
    <3> QED BY <3>2, <2>1
  <2>2. CASE k # 0
    <3>0. k - 1 \in 0..(m - 1)
      BY <2>2, <1>3
    <3>1. h[k - 1] = g[k - 1]
      BY <3>0, <1>5
    <3>2. CASE k = m
      <4>1. h[m] = g[m - 1] \o ms[m].parts /\ h[m - 1] = g[m - 1] /\ m # 0
        BY <3>1, <3>2, <1>2, <1>5
      <4> QED BY <4>1, <3>2
    <3>3. CASE k # m
      <4>1. k \in 0..(m - 1)
        BY <3>3, <1>3
      <4>2. h[k] = g[k] /\ g[k] = g[k - 1] \o ms[k].parts
        BY <4>1, <2>2, <1>5
      <4> QED BY <4>2, <3>1, <2>2
    <3> QED BY <3>2, <3>3
  <2> QED BY <2>1, <2>2
<1>7. Upto(ms, h, m)
  BY <1>5, <1>6 DEF Upto
<1> QED BY <1>1, <1>7

LEMMA PartsIs ==
    ASSUME NEW ms, Len(ms) \in Nat
    PROVE  \E g : Upto(ms, g, Len(ms)) /\ Parts(ms) = g[Len(ms)]
<1> DEFINE up == CHOOSE g : Upto(ms, g, Len(ms))
<1>1. Upto(ms, up, Len(ms))
  BY UptoExists
<1>2. Parts(ms) = up[Len(ms)]
  BY DEF Parts, Upto
<1> QED BY <1>1, <1>2

LEMMA PartsOfNone == Parts(<<>>) = <<>>
<1>1. Len(<<>>) = 0
  OBVIOUS
<1>2. PICK g : Upto(<<>>, g, 0) /\ Parts(<<>>) = g[0]
  BY <1>1, PartsIs
<1> QED BY <1>2 DEF Upto

LEMMA UptoAgree ==
    ASSUME NEW N \in Nat, NEW M \in Nat, N <= M, NEW ms, NEW ns,
           \A k \in 1..N : ms[k] = ns[k], NEW g, NEW h, Upto(ms, g, N), Upto(ns, h, M)
    PROVE  g[N] = h[N]
<1> DEFINE Odd == {k \in 0..N : g[k] # h[k]}
<1> SUFFICES ASSUME N \in Odd PROVE FALSE
  OBVIOUS
<1>1. PICK m \in Odd : \A k \in Odd : m <= k
  <2>1. Odd \in SUBSET Nat /\ Odd # {}
    OBVIOUS
  <2> HIDE DEF Odd
  <2> QED BY <2>1, SmallestNumber
<1>2. /\ \A k \in 0..N : g[k] = IF k = 0 THEN <<>> ELSE g[k - 1] \o ms[k].parts
      /\ \A k \in 0..M : h[k] = IF k = 0 THEN <<>> ELSE h[k - 1] \o ns[k].parts
  BY DEF Upto
<1>3. m \in 0..N /\ m \in 0..M /\ m # 0
  BY <1>1, <1>2
<1>4. m - 1 \in 0..N /\ m - 1 \notin Odd
  BY <1>1, <1>3
<1>5. g[m - 1] = h[m - 1] /\ ms[m] = ns[m]
  BY <1>3, <1>4
<1> QED BY <1>1, <1>2, <1>3, <1>5

LEMMA PartsAppend ==
    ASSUME NEW MT, NEW ms \in Seq(MT), NEW m \in MT
    PROVE  Parts(Append(ms, m)) = Parts(ms) \o m.parts
<1> DEFINE ns == Append(ms, m)
           L == Len(ms)
<1>1. /\ L \in Nat /\ Len(ns) = L + 1 /\ ns[L + 1] = m
      /\ \A k \in 1..L : ms[k] = ns[k]
  OBVIOUS
<1> HIDE DEF ns
<1>2. PICK g : Upto(ms, g, L) /\ Parts(ms) = g[L]
  BY <1>1, PartsIs
<1>3. PICK h : Upto(ns, h, L + 1) /\ Parts(ns) = h[L + 1]
  BY <1>1, PartsIs
<1>4. g[L] = h[L]
  <2>1. L + 1 \in Nat /\ L <= L + 1
    BY <1>1
  <2> HIDE DEF L
  <2> QED BY <2>1, <1>1, <1>2, <1>3, UptoAgree
<1>5. h[L + 1] = h[L] \o ns[L + 1].parts
  <2>1. \A k \in 0..(L + 1) : h[k] = IF k = 0 THEN <<>> ELSE h[k - 1] \o ns[k].parts
    BY <1>3 DEF Upto
  <2>2. L + 1 \in 0..(L + 1) /\ L + 1 # 0 /\ (L + 1) - 1 = L
    BY <1>1
  <2> HIDE DEF L
  <2> QED BY <2>1, <2>2
<1> QED BY <1>1, <1>2, <1>3, <1>4, <1>5 DEF ns

LEMMA PartsTyped ==
    ASSUME NEW PT, NEW ms, Len(ms) \in Nat, \A k \in 1..Len(ms) : ms[k].parts \in Seq(PT)
    PROVE  Parts(ms) \in Seq(PT)
<1> DEFINE L == Len(ms)
<1>1. PICK g : Upto(ms, g, L) /\ Parts(ms) = g[L]
  BY PartsIs
<1> DEFINE Odd == {k \in 0..L : g[k] \notin Seq(PT)}
<1> SUFFICES ASSUME L \in Odd PROVE FALSE
  BY <1>1
<1>2. PICK m \in Odd : \A k \in Odd : m <= k
  <2>1. Odd \in SUBSET Nat /\ Odd # {}
    OBVIOUS
  <2> HIDE DEF Odd
  <2> QED BY <2>1, SmallestNumber
<1>3. \A k \in 0..L : g[k] = IF k = 0 THEN <<>> ELSE g[k - 1] \o ms[k].parts
  BY <1>1 DEF Upto
<1>4. m \in 0..L /\ m # 0
  <2>1. <<>> \in Seq(PT) /\ g[m] \notin Seq(PT) /\ m \in 0..L
    BY <1>2
  <2> QED BY <2>1, <1>3
<1>5. g[m - 1] \in Seq(PT) /\ ms[m].parts \in Seq(PT)
  BY <1>2, <1>4
<1>6. g[m] = g[m - 1] \o ms[m].parts
  BY <1>3, <1>4
<1>7. g[m] \in Seq(PT)
  BY <1>5, <1>6
<1> QED BY <1>2, <1>7

-----------------------------------------------------------------------------
(* What goes out, part by part, beside what was said. *)

PartIds == CallIds \union {Blank} \union GeneratedIds
PartNames == ToolNames \union SafeNames \union {Blank}
PartType == [kind : {"text", "image", "url", "call", "result"}, id : PartIds, name : PartNames]
MessageType == [role : {"user", "assistant", "tool", "aside"}, parts : Seq(PartType)]

Renders(p, q) == /\ p.kind = q.kind
                 /\ q.name # Blank => p.name = MapName[q.name]
                 /\ q.id # Blank => p.id = q.id
Follows(out, said) == Len(out) = Len(said) /\ \A k \in DOMAIN said : Renders(out[k], said[k])

(* A call is of a tool of the registry; a result comes after its call.      *)
CallKnown(p, reg, nm) ==
    p.kind = "call" => /\ p.id \in DOMAIN nm /\ p.name = MapName[nm[p.id]]
                       /\ p.name \in DOMAIN reg /\ reg[p.name].name = nm[p.id]
Owed(r, p) == p.kind = "result" /\ (r = "gemini" => p.id \notin CallIds)
CallOf(c, p) == c.kind = "call" /\ c.id = p.id /\ c.name = p.name
MadeCall(i, nm) == Part("call", i, MapName[nm[i]])

Conversation(r, out, said, reg, nm) ==
    /\ out \in Seq(PartType) /\ said \in Seq(PartType) /\ Follows(out, said)
    /\ \A k \in DOMAIN out : CallKnown(out[k], reg, nm)
    /\ \A k \in DOMAIN out : Owed(r, out[k]) => \E j \in 1..(k - 1) : CallOf(out[j], out[k])
    /\ \A i \in DOMAIN nm : \E j \in DOMAIN out : out[j] = MadeCall(i, nm)

LEMMA JoinedParts ==
    ASSUME NEW a \in Seq(PartType), NEW b \in Seq(PartType)
    PROVE  /\ a \o b \in Seq(PartType) /\ Len(a \o b) = Len(a) + Len(b)
           /\ Len(a) \in Nat /\ Len(b) \in Nat
           /\ DOMAIN a = 1..Len(a) /\ DOMAIN b = 1..Len(b) /\ DOMAIN (a \o b) = 1..(Len(a) + Len(b))
           /\ \A k \in DOMAIN a : k \in DOMAIN (a \o b) /\ (a \o b)[k] = a[k]
           /\ \A k \in DOMAIN b : k + Len(a) \in DOMAIN (a \o b) /\ (a \o b)[k + Len(a)] = b[k]
           /\ \A k \in DOMAIN (a \o b) : k \in DOMAIN a \/ (k - Len(a) \in DOMAIN b /\ k > Len(a))
OBVIOUS

LEMMA ConversationGoesOn ==
    ASSUME NEW r, NEW out, NEW said, NEW reg, NEW nm, Conversation(r, out, said, reg, nm),
           NEW x \in Seq(PartType), NEW y \in Seq(PartType), Follows(x, y),
           NEW reg2, \A m \in DOMAIN reg : m \in DOMAIN reg2 /\ reg2[m].name = reg[m].name,
           NEW nm2, \A i \in DOMAIN nm : i \in DOMAIN nm2 /\ nm2[i] = nm[i],
           \A k \in DOMAIN x : CallKnown(x[k], reg2, nm2),
           \A k \in DOMAIN x : Owed(r, x[k]) => \E j \in DOMAIN out : CallOf(out[j], x[k]),
           \A i \in DOMAIN nm2 \ DOMAIN nm : \E k \in DOMAIN x : x[k] = MadeCall(i, nm2)
    PROVE  Conversation(r, out \o x, said \o y, reg2, nm2)
<1> DEFINE all == out \o x
           words == said \o y
<1>1. /\ out \in Seq(PartType) /\ said \in Seq(PartType) /\ Follows(out, said)
      /\ x \in Seq(PartType) /\ y \in Seq(PartType)
  BY DEF Conversation
<1>2. /\ all \in Seq(PartType) /\ Len(all) = Len(out) + Len(x)
      /\ Len(out) \in Nat /\ Len(x) \in Nat
      /\ DOMAIN out = 1..Len(out) /\ DOMAIN x = 1..Len(x) /\ DOMAIN all = 1..(Len(out) + Len(x))
      /\ \A k \in DOMAIN out : k \in DOMAIN all /\ all[k] = out[k]
      /\ \A k \in DOMAIN x : k + Len(out) \in DOMAIN all /\ all[k + Len(out)] = x[k]
      /\ \A k \in DOMAIN all : k \in DOMAIN out \/ (k - Len(out) \in DOMAIN x /\ k > Len(out))
  BY ONLY <1>1, JoinedParts
<1>3. /\ words \in Seq(PartType) /\ Len(words) = Len(said) + Len(y)
      /\ Len(said) \in Nat /\ Len(y) \in Nat
      /\ DOMAIN said = 1..Len(said) /\ DOMAIN y = 1..Len(y)
      /\ \A k \in DOMAIN said : words[k] = said[k]
      /\ \A k \in DOMAIN y : words[k + Len(said)] = y[k]
      /\ \A k \in DOMAIN words : k \in DOMAIN said \/ (k - Len(said) \in DOMAIN y /\ k > Len(said))
  BY ONLY <1>1, JoinedParts, SMTT(40)
<1> HIDE DEF all, words
<1>4. Len(out) = Len(said) /\ Len(x) = Len(y)
  BY <1>1 DEF Follows
<1>5. \A k \in DOMAIN x : \E l \in DOMAIN all : l = k + Len(out) /\ all[l] = x[k]
  BY <1>2
<1>6. ASSUME NEW k \in DOMAIN all, k \notin DOMAIN out
      PROVE  \E l \in DOMAIN x : k = l + Len(out) /\ all[k] = x[l]
  <2>1. k \in Int /\ k - Len(out) \in DOMAIN x /\ k = (k - Len(out)) + Len(out)
    BY <1>2, <1>6
  <2> QED BY <2>1, <1>2
<1>7. Follows(all, words)
  <2>1. ASSUME NEW k \in DOMAIN words PROVE Renders(all[k], words[k])
    <3>1. CASE k \in DOMAIN said
      BY <3>1, <1>1, <1>2, <1>3, <1>4 DEF Follows
    <3>2. CASE k \notin DOMAIN said
      <4>1. PICK l \in DOMAIN y : k = l + Len(said)
        <5>1. k \in Int /\ k - Len(said) \in DOMAIN y /\ k = (k - Len(said)) + Len(said)
          BY <1>3, <2>1, <3>2
        <5> QED BY <5>1
      <4>2. words[k] = y[l] /\ all[k] = x[l]
        BY <4>1, <1>2, <1>3, <1>4
      <4> QED BY <4>1, <4>2 DEF Follows
    <3> QED BY <3>1, <3>2
  <2> QED BY <2>1, <1>2, <1>3, <1>4 DEF Follows
<1>8. ASSUME NEW k \in DOMAIN all PROVE CallKnown(all[k], reg2, nm2)
  <2>1. CASE k \in DOMAIN out
    BY <2>1, <1>2 DEF Conversation, CallKnown
  <2>2. CASE k \notin DOMAIN out
    BY <2>2, <1>6
  <2> QED BY <2>1, <2>2
<1>9. ASSUME NEW k \in DOMAIN all, Owed(r, all[k])
      PROVE  \E j \in 1..(k - 1) : CallOf(all[j], all[k])
  <2>1. CASE k \in DOMAIN out
    <3>1. all[k] = out[k]
      BY <2>1, <1>2
    <3>2. PICK j \in 1..(k - 1) : CallOf(out[j], out[k])
      BY <3>1, <2>1, <1>9 DEF Conversation
    <3>3. j \in DOMAIN out
      BY <2>1, <1>2
    <3> QED BY <3>1, <3>2, <3>3, <1>2
  <2>2. CASE k \notin DOMAIN out
    <3>1. PICK l \in DOMAIN x : k = l + Len(out) /\ all[k] = x[l]
      BY <2>2, <1>6
    <3>2. PICK j \in DOMAIN out : CallOf(out[j], x[l])
      BY <3>1, <1>9
    <3>3. j \in 1..(k - 1) /\ all[j] = out[j]
      BY <3>1, <1>2
    <3> QED BY <3>1, <3>2, <3>3
  <2> QED BY <2>1, <2>2
<1>10. ASSUME NEW i \in DOMAIN nm2 PROVE \E j \in DOMAIN all : all[j] = MadeCall(i, nm2)
  <2>1. CASE i \in DOMAIN nm
    <3>1. PICK j \in DOMAIN out : out[j] = MadeCall(i, nm)
      BY <2>1 DEF Conversation
    <3>2. MadeCall(i, nm2) = MadeCall(i, nm)
      BY <2>1 DEF MadeCall
    <3> QED BY <3>1, <3>2, <1>2
  <2>2. CASE i \notin DOMAIN nm
    BY <2>2, <1>5
  <2> QED BY <2>1, <2>2
<1> QED BY <1>2, <1>3, <1>7, <1>8, <1>9, <1>10 DEF Conversation, all, words

-----------------------------------------------------------------------------
(* The builder: whatever joins a turn or begins one goes behind the rest.   *)

FlushedOf(ms, ps) == IF ps = <<>> THEN ms ELSE Append(ms, Message("assistant", ps))
BuilderOK == prompt \in Seq(MessageType) /\ joining \in Seq(PartType)
Out == Parts(Flushed)

LEMMA PartsOfMessages ==
    ASSUME NEW ms \in Seq(MessageType)
    PROVE  /\ Parts(ms) \in Seq(PartType)
           /\ \A m \in MessageType : Parts(Append(ms, m)) = Parts(ms) \o m.parts
<1>1. Len(ms) \in Nat /\ \A k \in 1..Len(ms) : ms[k] \in MessageType
  OBVIOUS
<1>2. \A k \in 1..Len(ms) : ms[k].parts \in Seq(PartType)
  BY <1>1 DEF MessageType
<1>3. Parts(ms) \in Seq(PartType)
  BY <1>1, <1>2, PartsTyped
<1> QED BY <1>3, PartsAppend

LEMMA FlushedParts ==
    ASSUME NEW ms \in Seq(MessageType), NEW ps \in Seq(PartType)
    PROVE  /\ FlushedOf(ms, ps) \in Seq(MessageType)
           /\ Parts(FlushedOf(ms, ps)) = Parts(ms) \o ps
           /\ Parts(FlushedOf(ms, ps)) \in Seq(PartType)
<1>1. Parts(ms) \in Seq(PartType)
  BY PartsOfMessages
<1>2. CASE ps = <<>>
  BY <1>1, <1>2 DEF FlushedOf
<1>3. CASE ps # <<>>
  <2> DEFINE m == Message("assistant", ps)
  <2>1. m \in MessageType /\ m.parts = ps
    BY DEF Message, MessageType
  <2>2. FlushedOf(ms, ps) = Append(ms, m)
    BY <1>3 DEF FlushedOf
  <2> HIDE DEF m
  <2>3. Append(ms, m) \in Seq(MessageType)
    BY <2>1
  <2>4. Parts(Append(ms, m)) = Parts(ms) \o ps
    BY <2>1, PartsOfMessages
  <2> QED BY <2>2, <2>3, <2>4, <1>1
<1> QED BY <1>2, <1>3

LEMMA OutIs ==
    /\ Flushed = FlushedOf(prompt, joining) /\ Out = Parts(FlushedOf(prompt, joining))
    /\ Flushed' = FlushedOf(prompt', joining') /\ Out' = Parts(FlushedOf(prompt', joining'))
BY DEF Flushed, FlushedOf, Out

LEMMA OnePart ==
    ASSUME NEW p \in PartType
    PROVE  <<p>> \in Seq(PartType) /\ Len(<<p>>) = 1 /\ DOMAIN <<p>> = 1..1 /\ <<p>>[1] = p /\ <<p>> # <<>>
OBVIOUS

LEMMA ThreeParts ==
    ASSUME NEW a \in Seq(PartType), NEW b \in Seq(PartType), NEW c \in Seq(PartType)
    PROVE  (a \o b) \o c = a \o (b \o c) /\ a \o b \in Seq(PartType) /\ a \o <<>> = a /\ <<>> \o a = a
OBVIOUS

LEMMA AppendIsJoin ==
    ASSUME NEW a \in Seq(PartType), NEW p \in PartType
    PROVE  Append(a, p) = a \o <<p>> /\ Append(a, p) \in Seq(PartType)
OBVIOUS

LEMMA CallJoins ==
    ASSUME BuilderOK, NEW p \in PartType, AppendAssistantToolCall(p)
    PROVE  BuilderOK' /\ Out' = Out \o <<p>>
<1>1. joining' = joining \o <<p>> /\ joining' \in Seq(PartType) /\ prompt' = prompt
  BY AppendIsJoin DEF AppendAssistantToolCall, BuilderOK
<1>2. Parts(prompt) \in Seq(PartType) /\ <<p>> \in Seq(PartType)
  BY PartsOfMessages, OnePart DEF BuilderOK
<1>3. Out' = Parts(prompt) \o (joining \o <<p>>) /\ Out = Parts(prompt) \o joining
  BY <1>1, OutIs, FlushedParts DEF BuilderOK
<1>4. (Parts(prompt) \o joining) \o <<p>> = Parts(prompt) \o (joining \o <<p>>)
  BY <1>2, ThreeParts DEF BuilderOK
<1> QED BY <1>1, <1>3, <1>4 DEF BuilderOK

LEMMA TextJoins ==
    ASSUME BuilderOK, NEW p \in PartType, AppendAssistantText(p)
    PROVE  BuilderOK' /\ Out' = Out \o <<p>>
<1>1. CASE \E i \in DOMAIN joining : joining[i].kind = "call"
  <2>1. AppendAssistantToolCall(p)
    BY <1>1 DEF AppendAssistantText, AppendAssistantToolCall
  <2> QED BY <2>1, CallJoins
<1>2. CASE ~\E i \in DOMAIN joining : joining[i].kind = "call"
  <2>1. joining' = <<p>> /\ prompt' = Flushed
    BY <1>2 DEF AppendAssistantText
  <2>2. Flushed \in Seq(MessageType) /\ <<p>> \in Seq(PartType)
    BY OutIs, FlushedParts, OnePart DEF BuilderOK
  <2>3. Parts(FlushedOf(Flushed, <<p>>)) = Parts(Flushed) \o <<p>>
    BY <2>2, FlushedParts
  <2> QED BY <2>1, <2>2, <2>3, OutIs DEF BuilderOK, Out
<1> QED BY <1>1, <1>2

LEMMA MessagePushed ==
    ASSUME BuilderOK, NEW m \in MessageType, Push(<<m>>)
    PROVE  BuilderOK' /\ Out' = Out \o m.parts
<1>1. Flushed \in Seq(MessageType)
  BY OutIs, FlushedParts DEF BuilderOK
<1>2. Flushed \o <<m>> = Append(Flushed, m) /\ Append(Flushed, m) \in Seq(MessageType)
  BY <1>1
<1>3. prompt' = Append(Flushed, m) /\ joining' = <<>>
  BY <1>2 DEF Push
<1>4. Out' = Parts(Append(Flushed, m))
  BY <1>3, OutIs DEF FlushedOf
<1>5. BuilderOK'
  BY <1>2, <1>3 DEF BuilderOK
<1> QED BY <1>1, <1>4, <1>5, PartsOfMessages DEF Out

LEMMA JoinsAssociate ==
    \A a, b, c \in Seq(PartType) : (a \o b) \o c = a \o (b \o c)
BY ThreeParts

LEMMA TwoPushed ==
    ASSUME BuilderOK, NEW m \in MessageType, NEW n \in MessageType, Push(<<m>> \o <<n>>)
    PROVE  BuilderOK' /\ Out' = Out \o (m.parts \o n.parts)
<1>1. Flushed \in Seq(MessageType)
  BY OutIs, FlushedParts DEF BuilderOK
<1> DEFINE one == Append(Flushed, m)
           two == Append(one, n)
<1>2. one \in Seq(MessageType) /\ two \in Seq(MessageType)
  BY <1>1
<1>3. Flushed \o (<<m>> \o <<n>>) = two
  BY <1>1
<1>4. prompt' = two /\ joining' = <<>>
  BY <1>3 DEF Push
<1> HIDE DEF two
<1>5. Out' = Parts(two) /\ BuilderOK'
  BY <1>2, <1>4, OutIs DEF FlushedOf, BuilderOK
<1> HIDE DEF one
<1>6. Parts(two) = Parts(one) \o n.parts
  BY <1>2, PartsOfMessages DEF two
<1>7. Parts(one) = Out \o m.parts /\ Out \in Seq(PartType)
  BY <1>1, PartsOfMessages DEF one, Out
<1>8. (Out \o m.parts) \o n.parts = Out \o (m.parts \o n.parts)
  <2>1. m.parts \in Seq(PartType) /\ n.parts \in Seq(PartType)
    BY DEF MessageType
  <2> QED BY <2>1, <1>7, JoinsAssociate, Zenon
<1> QED BY <1>5, <1>6, <1>7, <1>8

-----------------------------------------------------------------------------
(* The tools of the registry. *)

RegistryOK(reg) == \A m \in DOMAIN reg : reg[m].name \in ToolNames /\ MapName[reg[m].name] = m
KeepsDeclared(D, reg) ==
    \A n \in DOMAIN D : /\ MapName[n] \in DOMAIN reg
                        /\ reg[MapName[n]] = [name |-> n, custom |-> D[n]]
Grows(reg, reg2) == \A m \in DOMAIN reg : m \in DOMAIN reg2 /\ reg2[m].name = reg[m].name
HasTool(reg, n) == MapName[n] \in DOMAIN reg /\ reg[MapName[n]].name = n

LEMMA Registers ==
    ASSUME NEW reg, RegistryOK(reg), NEW n \in ToolNames, NEW custom, ~Clash(reg, n)
    PROVE  LET reg2 == Registered(reg, n, custom)
           IN /\ RegistryOK(reg2) /\ Grows(reg, reg2) /\ HasTool(reg2, n)
              /\ KeepsDeclared(declared, reg) /\ n \notin DOMAIN declared => KeepsDeclared(declared, reg2)
<1> DEFINE reg2 == Registered(reg, n, custom)
           here == MapName[n]
<1>1. /\ DOMAIN reg2 = DOMAIN reg \union {here}
      /\ reg2[here] = [name |-> n, custom |-> custom]
      /\ \A m \in DOMAIN reg : m # here => reg2[m] = reg[m]
  BY DEF Registered
<1>2. here \in DOMAIN reg => reg[here].name = n
  BY DEF Clash
<1> HIDE DEF reg2
<1>3. RegistryOK(reg2)
  BY <1>1 DEF RegistryOK
<1>4. Grows(reg, reg2) /\ HasTool(reg2, n)
  BY <1>1, <1>2 DEF Grows, HasTool
<1>5. ASSUME KeepsDeclared(declared, reg), n \notin DOMAIN declared PROVE KeepsDeclared(declared, reg2)
  <2> SUFFICES ASSUME NEW d \in DOMAIN declared
               PROVE  /\ MapName[d] \in DOMAIN reg2
                      /\ reg2[MapName[d]] = [name |-> d, custom |-> declared[d]]
    BY DEF KeepsDeclared
  <2>1. MapName[d] \in DOMAIN reg /\ reg[MapName[d]] = [name |-> d, custom |-> declared[d]] /\ d # n
    BY <1>5 DEF KeepsDeclared
  <2>2. MapName[d] # here
    BY <2>1, <1>2
  <2> QED BY <2>1, <2>2, <1>1
<1> QED BY <1>3, <1>4, <1>5 DEF reg2

LEMMA Declares ==
    ASSUME NEW reg, RegistryOK(reg), DOMAIN declared \subseteq ToolNames, ~DeclareClash(reg, declared)
    PROVE  LET reg2 == Declare(reg, declared)
           IN RegistryOK(reg2) /\ Grows(reg, reg2) /\ KeepsDeclared(declared, reg2)
<1> DEFINE reg2 == Declare(reg, declared)
           of(m) == CHOOSE x \in DOMAIN declared : MapName[x] = m
           new == {MapName[n] : n \in DOMAIN declared}
<1>1. \A n \in DOMAIN declared : of(MapName[n]) = n
  BY DEF DeclareClash
<1>2. /\ DOMAIN reg2 = DOMAIN reg \union new
      /\ \A m \in new : reg2[m] = [name |-> of(m), custom |-> declared[of(m)]]
      /\ \A m \in DOMAIN reg : m \notin new => reg2[m] = reg[m]
  BY DEF Declare
<1> HIDE DEF of, reg2
<1>3. \A n \in DOMAIN declared : /\ MapName[n] \in DOMAIN reg2
                                 /\ reg2[MapName[n]] = [name |-> n, custom |-> declared[n]]
  BY <1>1, <1>2
<1>4. ASSUME NEW m \in new
      PROVE  /\ m \in DOMAIN reg2 /\ reg2[m].name \in ToolNames /\ MapName[reg2[m].name] = m
             /\ m \in DOMAIN reg => reg2[m].name = reg[m].name
  <2>1. PICK n \in DOMAIN declared : m = MapName[n]
    OBVIOUS
  <2>2. m \in DOMAIN reg2 /\ reg2[m].name = n
    <3>1. m \in DOMAIN reg2 /\ reg2[m] = [name |-> n, custom |-> declared[n]]
      BY ONLY <2>1, <1>3
    <3> QED BY ONLY <3>1
  <2>3. m \in DOMAIN reg => reg[m].name = n
    BY <2>1 DEF DeclareClash, Clash
  <2> QED BY <2>1, <2>2, <2>3
<1>5. ASSUME NEW m \in DOMAIN reg, m \notin new
      PROVE  /\ m \in DOMAIN reg2 /\ reg2[m].name \in ToolNames /\ MapName[reg2[m].name] = m
             /\ reg2[m].name = reg[m].name
  <2>1. m \in DOMAIN reg2 /\ reg2[m] = reg[m]
    BY <1>2, <1>5
  <2> QED BY <2>1 DEF RegistryOK
<1> HIDE DEF new
<1>6. RegistryOK(reg2)
  BY <1>2, <1>4, <1>5 DEF RegistryOK
<1>7. Grows(reg, reg2)
  BY <1>4, <1>5 DEF Grows
<1> QED BY <1>3, <1>6, <1>7 DEF KeepsDeclared, reg2

-----------------------------------------------------------------------------
(* What one message adds to a conversation. *)

PlainParts(ps) == ps \in Seq(PartType)
                  /\ \A k \in DOMAIN ps : ps[k].name = Blank /\ ps[k].kind \notin {"call", "result"}

LEMMA SaysPlain ==
    ASSUME NEW r, NEW out, NEW said, NEW reg, NEW nm, Conversation(r, out, said, reg, nm),
           NEW ps, PlainParts(ps)
    PROVE  Conversation(r, out \o ps, said \o ps, reg, nm)
<1>1. Follows(ps, ps)
  BY DEF Follows, Renders, PlainParts
<1>2. \A k \in DOMAIN ps : CallKnown(ps[k], reg, nm) /\ ~Owed(r, ps[k])
  BY DEF PlainParts, CallKnown, Owed
<1>3. ps \in Seq(PartType)
  BY DEF PlainParts
<1> QED BY <1>1, <1>2, <1>3, ConversationGoesOn

LEMMA PartIs == \A k, i, n : /\ Part(k, i, n).kind = k /\ Part(k, i, n).id = i
                             /\ Part(k, i, n).name = n
BY DEF Part

LEMMA OneFollows ==
    ASSUME NEW p \in PartType, NEW q \in PartType, Renders(p, q)
    PROVE  Follows(<<p>>, <<q>>)
BY OnePart DEF Follows

LEMMA MakesCall ==
    ASSUME NEW r, NEW out, NEW said, NEW reg, NEW nm, Conversation(r, out, said, reg, nm),
           NEW i \in CallIds \union GeneratedIds, i \notin DOMAIN nm, NEW n \in ToolNames,
           NEW reg2, Grows(reg, reg2), HasTool(reg2, n)
    PROVE  Conversation(r, out \o <<Part("call", i, MapName[n])>>, said \o <<Part("call", i, n)>>,
                        reg2, Put(nm, i, n))
<1> DEFINE p == Part("call", i, MapName[n])
           q == Part("call", i, n)
           nm2 == Put(nm, i, n)
<1>1. p \in PartType /\ q \in PartType
  BY ConversionAssumption DEF Part, PartType, PartIds, PartNames
<1>2. /\ p.kind = "call" /\ p.id = i /\ p.name = MapName[n]
      /\ q.kind = "call" /\ q.id = i /\ q.name = n
  BY PartIs
<1>3. /\ DOMAIN nm2 = DOMAIN nm \union {i} /\ nm2[i] = n
      /\ \A j \in DOMAIN nm : nm2[j] = nm[j]
  BY DEF Put
<1>4. p = MadeCall(i, nm2)
  BY <1>3 DEF MadeCall
<1> HIDE DEF p, q, nm2
<1>5. Renders(p, q)
  BY <1>2 DEF Renders
<1>6. CallKnown(p, reg2, nm2) /\ ~Owed(r, p)
  BY <1>2, <1>3 DEF CallKnown, HasTool, Owed
<1>7. \A k \in DOMAIN <<p>> : <<p>>[k] = p
  BY <1>1, OnePart
<1>8. 1 \in DOMAIN <<p>> /\ <<p>> \in Seq(PartType) /\ <<q>> \in Seq(PartType)
  BY <1>1, OnePart
<1>9. Follows(<<p>>, <<q>>)
  BY <1>1, <1>5, OneFollows
<1> DEFINE x == <<p>>
           y == <<q>>
<1>10. /\ x \in Seq(PartType) /\ y \in Seq(PartType) /\ Follows(x, y)
       /\ \A k \in DOMAIN x : CallKnown(x[k], reg2, nm2) /\ ~Owed(r, x[k])
       /\ \A j \in DOMAIN nm2 \ DOMAIN nm : \E k \in DOMAIN x : x[k] = MadeCall(j, nm2)
  BY <1>3, <1>4, <1>6, <1>7, <1>8, <1>9
<1>11. \A j \in DOMAIN nm : j \in DOMAIN nm2 /\ nm2[j] = nm[j]
  BY <1>3
<1> HIDE DEF x, y
<1>12. Conversation(r, out \o x, said \o y, reg2, nm2)
  BY <1>10, <1>11, ConversationGoesOn DEF Grows
<1> QED BY <1>12 DEF x, y, p, q, nm2

LEMMA GivesResult ==
    ASSUME NEW r, NEW out, NEW said, NEW reg, NEW nm, Conversation(r, out, said, reg, nm),
           NEW reg2, Grows(reg, reg2), NEW p \in PartType, NEW q \in PartType,
           p.kind = "result", Renders(p, q),
           Owed(r, p) => p.id \in DOMAIN nm /\ p.name = MapName[nm[p.id]]
    PROVE  Conversation(r, out \o <<p>>, said \o <<q>>, reg2, nm)
<1> DEFINE x == <<p>>
           y == <<q>>
<1>1. x \in Seq(PartType) /\ y \in Seq(PartType) /\ \A k \in DOMAIN x : x[k] = p
  BY OnePart
<1>2. Follows(x, y)
  BY OneFollows
<1>3. CallKnown(p, reg2, nm)
  BY DEF CallKnown
<1>4. Owed(r, p) => \E j \in DOMAIN out : CallOf(out[j], p)
  <2> SUFFICES ASSUME Owed(r, p) PROVE \E j \in DOMAIN out : CallOf(out[j], p)
    OBVIOUS
  <2>1. PICK j \in DOMAIN out : out[j] = MadeCall(p.id, nm)
    BY DEF Conversation
  <2> QED BY <2>1, PartIs DEF CallOf, MadeCall
<1> HIDE DEF x, y
<1>5. /\ \A k \in DOMAIN x : CallKnown(x[k], reg2, nm)
      /\ \A k \in DOMAIN x : Owed(r, x[k]) => \E j \in DOMAIN out : CallOf(out[j], x[k])
  BY <1>1, <1>3, <1>4
<1>6. Conversation(r, out \o x, said \o y, reg2, nm)
  BY <1>1, <1>2, <1>5, ConversationGoesOn DEF Grows
<1> QED BY <1>6 DEF x, y

-----------------------------------------------------------------------------
(* What is so while a request is read.                                      *)

Generated(k) == <<"gemini_call", k>>
NamesOK(r, nm, ids, count) ==
    /\ \A i \in DOMAIN nm : nm[i] \in ToolNames
    /\ DOMAIN nm \subseteq CallIds \union GeneratedIds
    /\ DOMAIN ids \subseteq DOMAIN nm \intersect CallIds
    /\ \A i \in DOMAIN ids : ids[i] = MapName[nm[i]]
    /\ r # "gemini" => DOMAIN nm = DOMAIN ids
    /\ \A k \in 0..MaxMessages : Generated(k) \in DOMAIN nm => k < count

ReadInv ==
    /\ BuilderOK
    /\ messages \in Seq(MessageType) /\ Len(messages) <= MaxMessages
    /\ Conversation(route, Out, Said, registry, named)
    /\ RegistryOK(registry)
    /\ route = "responses" => KeepsDeclared(declared, registry)
    /\ NamesOK(route, named, nameOf, Len(messages))
    /\ unanswered \in Seq(GeneratedIds \intersect DOMAIN named)

LEMMA MessageIs ==
    ASSUME NEW r \in {"user", "assistant", "tool", "aside"}, NEW ps \in Seq(PartType)
    PROVE  Message(r, ps) \in MessageType /\ Message(r, ps).parts = ps
BY DEF Message, MessageType

LEMMA ReadsOn ==
    ASSUME ReadInv, NEW said \in MessageType, Reading(said)
    PROVE  /\ progress = "reading" /\ messages' \in Seq(MessageType)
           /\ Len(messages') <= MaxMessages /\ Len(messages') = Len(messages) + 1
           /\ Len(messages) \in 0..MaxMessages
           /\ Said' = Said \o said.parts
           /\ UNCHANGED <<route, target, declared>>
<1>1. messages \in Seq(MessageType) /\ messages' = Append(messages, said)
      /\ Len(messages) < MaxMessages /\ MaxMessages \in Nat
  BY ConversionAssumption DEF ReadInv, Reading
<1>2. Parts(Append(messages, said)) = Parts(messages) \o said.parts
  BY <1>1, PartsOfMessages
<1>3. Said' = Parts(messages')
  BY DEF Said
<1> QED BY <1>1, <1>2, <1>3 DEF Said, Reading

LEMMA WordsArePlain ==
    /\ PlainParts(<<TextPart>>) /\ PlainParts(<<>>) /\ PlainParts(<<ImagePart, UrlPart>>)
<1>1. /\ TextPart \in PartType /\ ImagePart \in PartType /\ UrlPart \in PartType
      /\ \A p \in {TextPart, ImagePart, UrlPart} : p.name = Blank /\ p.kind \notin {"call", "result"}
  BY DEF TextPart, ImagePart, UrlPart, Part, PartType, PartIds, PartNames
<1>2. PlainParts(<<TextPart>>)
  BY <1>1, OnePart DEF PlainParts
<1>3. PlainParts(<<>>)
  BY DEF PlainParts
<1>4. /\ <<ImagePart, UrlPart>> \in Seq(PartType) /\ DOMAIN <<ImagePart, UrlPart>> = 1..2
      /\ <<ImagePart, UrlPart>>[1] = ImagePart /\ <<ImagePart, UrlPart>>[2] = UrlPart
  BY <1>1
<1>5. PlainParts(<<ImagePart, UrlPart>>)
  <2> DEFINE ps == <<ImagePart, UrlPart>>
  <2>1. \A k \in DOMAIN ps : ps[k] \in {ImagePart, UrlPart}
    BY <1>4
  <2> HIDE DEF ps
  <2>2. ps \in Seq(PartType)
    BY <1>4 DEF ps
  <2>3. \A k \in DOMAIN ps : ps[k].name = Blank /\ ps[k].kind \notin {"call", "result"}
    BY <2>1, <1>1
  <2>4. PlainParts(ps)
    BY <2>2, <2>3 DEF PlainParts
  <2> QED BY <2>4 DEF ps
<1> QED BY <1>2, <1>3, <1>5

LEMMA ReadKept ==
    ASSUME ReadInv, NEW said \in MessageType, Reading(said), BuilderOK',
           Conversation(route, Out', Said \o said.parts, registry', named'),
           RegistryOK(registry'), route = "responses" => KeepsDeclared(declared, registry'),
           NamesOK(route, named', nameOf', Len(messages) + 1),
           unanswered' \in Seq(GeneratedIds \intersect DOMAIN named')
    PROVE  ReadInv'
<1>1. /\ messages' \in Seq(MessageType) /\ Len(messages') <= MaxMessages
      /\ Len(messages') = Len(messages) + 1
      /\ Said' = Said \o said.parts /\ UNCHANGED <<route, target, declared>>
  BY ReadsOn
<1> QED BY <1>1 DEF ReadInv

LEMMA NamesStay ==
    ASSUME ReadInv
    PROVE  NamesOK(route, named, nameOf, Len(messages) + 1)
<1>1. Len(messages) \in Nat /\ MaxMessages \in Nat
  BY ConversionAssumption DEF ReadInv
<1> QED BY <1>1 DEF ReadInv, NamesOK

(* A message that changes no table. *)
LEMMA TablesKept ==
    ASSUME ReadInv, NEW said \in MessageType, Reading(said), BuilderOK',
           Conversation(route, Out', Said \o said.parts, registry, named),
           UNCHANGED <<registry, nameOf, unanswered, named>>
    PROVE  ReadInv'
<1>1. NamesOK(route, named', nameOf', Len(messages) + 1)
  BY NamesStay
<1>2. /\ Conversation(route, Out', Said \o said.parts, registry', named')
      /\ RegistryOK(registry') /\ (route = "responses" => KeepsDeclared(declared, registry'))
      /\ unanswered' \in Seq(GeneratedIds \intersect DOMAIN named')
  BY DEF ReadInv
<1> QED BY <1>1, <1>2, ReadKept

LEMMA UserKeeps ==
    ASSUME ReadInv, NEW ps \in {<<TextPart>>, <<ImagePart, UrlPart>>}, UserSays(ps)
    PROVE  ReadInv'
<1>1. PlainParts(ps)
  BY WordsArePlain
<1> DEFINE m == Message("user", ps)
<1>2. m \in MessageType /\ m.parts = ps
  BY <1>1, MessageIs DEF PlainParts
<1>3. /\ Reading(m) /\ Push(<<m>>)
      /\ UNCHANGED <<registry, nameOf, unanswered, named>>
  BY DEF UserSays
<1> HIDE DEF m
<1>4. BuilderOK' /\ Out' = Out \o ps
  BY <1>2, <1>3, MessagePushed DEF ReadInv
<1>5. Conversation(route, Out', Said \o m.parts, registry, named)
  BY <1>1, <1>2, <1>4, SaysPlain DEF ReadInv
<1> QED BY <1>2, <1>3, <1>4, <1>5, TablesKept

LEMMA AsideKeeps ==
    ASSUME ReadInv, Stripped
    PROVE  ReadInv'
<1> DEFINE m == Message("aside", <<>>)
<1>1. PlainParts(<<>>) /\ <<>> \in Seq(PartType)
  BY WordsArePlain DEF PlainParts
<1>2. m \in MessageType /\ m.parts = <<>>
  BY <1>1, MessageIs
<1>3. /\ Reading(m) /\ UNCHANGED <<prompt, joining, registry, nameOf, unanswered, named>>
  BY DEF Stripped
<1> HIDE DEF m
<1>4. BuilderOK' /\ Out' = Out
  BY <1>3, OutIs DEF ReadInv, BuilderOK
<1>5. Conversation(route, Out', Said \o m.parts, registry, named)
  <2>1. Said \o m.parts = Said
    BY <1>2, ThreeParts DEF ReadInv, Conversation
  <2> QED BY <2>1, <1>4 DEF ReadInv
<1> QED BY <1>2, <1>3, <1>4, <1>5, TablesKept

LEMMA AssistantKeeps ==
    ASSUME ReadInv, AssistantSays
    PROVE  ReadInv'
<1> DEFINE m == Message("assistant", <<TextPart>>)
<1>1. PlainParts(<<TextPart>>) /\ <<TextPart>> \in Seq(PartType) /\ TextPart \in PartType
  <2>1. TextPart \in PartType
    BY DEF TextPart, Part, PartType, PartIds, PartNames
  <2> QED BY <2>1, WordsArePlain DEF PlainParts
<1>2. m \in MessageType /\ m.parts = <<TextPart>>
  BY <1>1, MessageIs
<1>3. /\ Reading(m) /\ (AppendAssistantText(TextPart) \/ Push(<<m>>))
      /\ UNCHANGED <<registry, nameOf, unanswered, named>>
  BY DEF AssistantSays
<1> HIDE DEF m
<1>4. BuilderOK' /\ Out' = Out \o <<TextPart>>
  BY <1>1, <1>2, <1>3, MessagePushed, TextJoins DEF ReadInv
<1>5. Conversation(route, Out', Said \o m.parts, registry, named)
  BY <1>1, <1>2, <1>4, SaysPlain DEF ReadInv
<1> QED BY <1>2, <1>3, <1>4, <1>5, TablesKept

LEMMA SeqGrows ==
    ASSUME NEW S, NEW T, S \subseteq T, NEW s \in Seq(S)
    PROVE  s \in Seq(T)
OBVIOUS

Words == {<<>>, <<TextPart>>}

(* The call of a tool, behind the words of its message. *)
LEMMA CallConversed ==
    ASSUME ReadInv, NEW i \in CallIds \union GeneratedIds, i \notin DOMAIN named,
           NEW n \in ToolNames, NEW words \in Words,
           NEW reg2, Grows(registry, reg2), HasTool(reg2, n)
    PROVE  Conversation(route, Out \o (words \o <<Part("call", i, MapName[n])>>),
                        Said \o (words \o <<Part("call", i, n)>>), reg2, Put(named, i, n))
<1> DEFINE c == <<Part("call", i, MapName[n])>>
           d == <<Part("call", i, n)>>
<1>1. PlainParts(words) /\ words \in Seq(PartType)
  BY WordsArePlain DEF Words, PlainParts
<1>2. Conversation(route, Out \o words, Said \o words, registry, named)
  BY <1>1, SaysPlain DEF ReadInv
<1>3. c \in Seq(PartType) /\ d \in Seq(PartType)
  <2>1. /\ Part("call", i, MapName[n]) \in PartType
        /\ Part("call", i, n) \in PartType
    BY ConversionAssumption DEF Part, PartType, PartIds, PartNames
  <2> QED BY <2>1, OnePart
<1>4. Conversation(route, (Out \o words) \o c, (Said \o words) \o d, reg2, Put(named, i, n))
  BY <1>2, MakesCall
<1>5. Out \in Seq(PartType) /\ Said \in Seq(PartType)
  BY DEF ReadInv, Conversation
<1> HIDE DEF c, d
<1>6. (Out \o words) \o c = Out \o (words \o c)
  <2>1. Out \in Seq(PartType) /\ words \in Seq(PartType) /\ c \in Seq(PartType)
    BY <1>1, <1>3, <1>5
  <2> QED BY ONLY <2>1, JoinsAssociate, Zenon
<1>7. (Said \o words) \o d = Said \o (words \o d)
  <2>1. Said \in Seq(PartType) /\ words \in Seq(PartType) /\ d \in Seq(PartType)
    BY <1>1, <1>3, <1>5
  <2> QED BY ONLY <2>1, JoinsAssociate, Zenon
<1> QED BY <1>4, <1>6, <1>7 DEF c, d

LEMMA CallMessage ==
    ASSUME NEW i \in CallIds \union GeneratedIds, NEW n \in PartNames, NEW words \in Words
    PROVE  /\ Part("call", i, n) \in PartType /\ words \o <<Part("call", i, n)>> \in Seq(PartType)
           /\ Message("assistant", words \o <<Part("call", i, n)>>) \in MessageType
           /\ Message("assistant", words \o <<Part("call", i, n)>>).parts = words \o <<Part("call", i, n)>>
<1>1. Part("call", i, n) \in PartType
  BY DEF Part, PartType, PartIds
<1>2. words \in Seq(PartType)
  BY WordsArePlain DEF Words, PlainParts
<1>3. words \o <<Part("call", i, n)>> \in Seq(PartType)
  BY <1>1, <1>2, OnePart, ThreeParts
<1> QED BY <1>1, <1>3, MessageIs

LEMMA RegistryKept ==
    ASSUME ReadInv, NEW n \in ToolNames, NEW custom, NEW fresh,
           ~fresh => HasTool(registry, n), fresh => ~Clash(registry, n),
           fresh /\ route = "responses" => n \notin DOMAIN declared,
           registry' = IF fresh THEN Registered(registry, n, custom) ELSE registry
    PROVE  /\ RegistryOK(registry') /\ Grows(registry, registry') /\ HasTool(registry', n)
           /\ route = "responses" => KeepsDeclared(declared, registry')
<1>1. RegistryOK(registry) /\ (route = "responses" => KeepsDeclared(declared, registry))
  BY DEF ReadInv
<1>2. CASE fresh
  <2> DEFINE reg2 == Registered(registry, n, custom)
  <2>1. /\ RegistryOK(reg2) /\ Grows(registry, reg2) /\ HasTool(reg2, n)
        /\ KeepsDeclared(declared, registry) /\ n \notin DOMAIN declared
              => KeepsDeclared(declared, reg2)
    BY <1>1, <1>2, Registers
  <2>2. registry' = reg2
    BY <1>2
  <2> HIDE DEF reg2
  <2> QED BY <1>1, <1>2, <2>1, <2>2
<1>3. CASE ~fresh
  BY <1>1, <1>3 DEF Grows
<1> QED BY <1>2, <1>3

LEMMA CallsKeep ==
    ASSUME ReadInv, NEW i \in CallIds, NEW n \in ToolNames, NEW custom, NEW words \in Words,
           ConvCalls(i, n, custom, words), progress' # "failed"
    PROVE  ReadInv'
<1> DEFINE fresh == IF route = "responses" THEN n \notin DOMAIN declared ELSE ~Known(registry, n)
           turn == route \in {"responses", "gemini"}
           c == Part("call", i, MapName[n])
           d == Part("call", i, n)
           m == Message("assistant", words \o <<d>>)
<1>1. /\ (turn => words = <<>>) /\ (route = "gemini" => i \notin DOMAIN named)
      /\ Reading(m) /\ (fresh => ~Clash(registry, n)) /\ i \notin DOMAIN nameOf
      /\ registry' = IF fresh THEN Registered(registry, n, custom) ELSE registry
      /\ nameOf' = Put(nameOf, i, MapName[n]) /\ named' = Put(named, i, n)
      /\ IF turn THEN AppendAssistantToolCall(c)
         ELSE Push(<<Message("assistant", words \o <<c>>)>>)
      /\ UNCHANGED unanswered
  BY DEF ConvCalls, Refused
<1>2. /\ RegistryOK(registry') /\ Grows(registry, registry') /\ HasTool(registry', n)
      /\ route = "responses" => KeepsDeclared(declared, registry')
  <2>1. ~fresh => HasTool(registry, n)
    <3>1. CASE route = "responses" /\ n \in DOMAIN declared
      <4>1. /\ MapName[n] \in DOMAIN registry
            /\ registry[MapName[n]] = [name |-> n, custom |-> declared[n]]
        BY <3>1 DEF ReadInv, KeepsDeclared
      <4> QED BY <4>1 DEF HasTool
    <3>2. CASE route # "responses" /\ Known(registry, n)
      BY <3>2 DEF HasTool, Known
    <3> QED BY <3>1, <3>2
  <2>2. fresh /\ route = "responses" => n \notin DOMAIN declared
    OBVIOUS
  <2>3. fresh => ~Clash(registry, n)
    BY <1>1
  <2>4. registry' = IF fresh THEN Registered(registry, n, custom) ELSE registry
    BY <1>1
  <2> HIDE DEF fresh
  <2> QED BY <2>1, <2>2, <2>3, <2>4, RegistryKept
<1>3. MapName[n] \in PartNames /\ n \in PartNames /\ MapName[n] \in SafeNames
  BY ConversionAssumption DEF PartNames
<1>4. /\ m \in MessageType /\ m.parts = words \o <<d>> /\ c \in PartType
  BY <1>3, CallMessage
<1>5. BuilderOK' /\ Out' = Out \o (words \o <<c>>)
  <2>1. CASE turn
    <3>1. words \o <<c>> = <<c>>
      BY <1>1, <2>1, <1>4, OnePart, ThreeParts
    <3>2. AppendAssistantToolCall(c)
      BY <1>1, <2>1
    <3> HIDE DEF c
    <3> QED BY <1>4, <3>1, <3>2, CallJoins DEF ReadInv
  <2>2. CASE ~turn
    <3> DEFINE k == Message("assistant", words \o <<c>>)
    <3>1. k \in MessageType /\ k.parts = words \o <<c>>
      BY <1>3, CallMessage
    <3>2. Push(<<k>>)
      BY <1>1, <2>2
    <3> HIDE DEF k, c
    <3> QED BY <3>1, <3>2, MessagePushed DEF ReadInv
  <2> QED BY <2>1, <2>2
<1>6. i \notin DOMAIN named
  BY <1>1 DEF ReadInv, NamesOK
<1>7. Conversation(route, Out', Said \o m.parts, registry', named')
  <2>1. Conversation(route, Out \o (words \o <<c>>), Said \o (words \o <<d>>),
                     registry', Put(named, i, n))
    BY <1>2, <1>6, CallConversed
  <2> HIDE DEF c, d, m
  <2> QED BY <2>1, <1>1, <1>4, <1>5
<1>8. NamesOK(route, named', nameOf', Len(messages) + 1)
  <2>1. NamesOK(route, named, nameOf, Len(messages) + 1)
    BY NamesStay
  <2>2. /\ DOMAIN named' = DOMAIN named \union {i} /\ named'[i] = n
        /\ \A j \in DOMAIN named : named'[j] = named[j]
        /\ DOMAIN nameOf' = DOMAIN nameOf \union {i} /\ nameOf'[i] = MapName[n]
        /\ \A j \in DOMAIN nameOf : nameOf'[j] = nameOf[j]
    BY <1>1, <1>6 DEF Put
  <2>3. \A k \in 0..MaxMessages : Generated(k) # i
    BY ConversionAssumption DEF Generated, GeneratedIds
  <2> QED BY <2>1, <2>2, <2>3 DEF NamesOK
<1>9. unanswered' \in Seq(GeneratedIds \intersect DOMAIN named')
  <2>1. DOMAIN named \subseteq DOMAIN named'
    BY <1>1 DEF Put
  <2>2. GeneratedIds \intersect DOMAIN named \subseteq GeneratedIds \intersect DOMAIN named'
    BY <2>1
  <2>3. unanswered \in Seq(GeneratedIds \intersect DOMAIN named) /\ unanswered' = unanswered
    BY <1>1 DEF ReadInv
  <2> QED BY <2>2, <2>3, SeqGrows
<1> HIDE DEF m
<1> QED BY <1>1, <1>2, <1>4, <1>5, <1>7, <1>8, <1>9, ReadKept

LEMMA GeneratedIsFresh ==
    ASSUME ReadInv, Len(messages) < MaxMessages
    PROVE  /\ Generated(Len(messages)) \in GeneratedIds /\ Generated(Len(messages)) \notin DOMAIN named
           /\ Generated(Len(messages)) \notin CallIds
           /\ \A k \in 0..MaxMessages : Generated(k) = Generated(Len(messages)) => k = Len(messages)
<1>1. Len(messages) \in 0..MaxMessages /\ MaxMessages \in Nat
  BY ConversionAssumption DEF ReadInv
<1>2. Generated(Len(messages)) \in GeneratedIds
  BY <1>1 DEF Generated, GeneratedIds
<1>3. Generated(Len(messages)) \notin DOMAIN named
  BY <1>1 DEF ReadInv, NamesOK
<1>4. \A k \in 0..MaxMessages : Generated(k) = Generated(Len(messages)) => k = Len(messages)
  BY DEF Generated
<1> QED BY <1>2, <1>3, <1>4, ConversionAssumption

LEMMA GeminiCallsKeep ==
    ASSUME ReadInv, NEW n \in ToolNames, GeminiCalls(n), progress' # "failed"
    PROVE  ReadInv'
<1> DEFINE i == Generated(Len(messages))
           fresh == ~Known(registry, n)
           c == Part("call", i, MapName[n])
           d == Part("call", i, n)
           m == Message("assistant", <<d>>)
<1>1. /\ route = "gemini" /\ Reading(m) /\ (fresh => ~Clash(registry, n))
      /\ registry' = IF fresh THEN Registered(registry, n, FALSE) ELSE registry
      /\ named' = Put(named, i, n) /\ unanswered' = Append(unanswered, i)
      /\ AppendAssistantToolCall(c) /\ UNCHANGED nameOf
  BY DEF GeminiCalls, Refused, Generated
<1>2. /\ i \in GeneratedIds /\ i \notin DOMAIN named /\ i \notin CallIds
      /\ \A k \in 0..MaxMessages : Generated(k) = i => k = Len(messages)
  BY <1>1, GeneratedIsFresh DEF Reading
<1> HIDE DEF i
<1>3. /\ RegistryOK(registry') /\ Grows(registry, registry') /\ HasTool(registry', n)
      /\ route = "responses" => KeepsDeclared(declared, registry')
  <2>1. (~fresh => HasTool(registry, n)) /\ (route # "responses")
    BY <1>1 DEF HasTool, Known
  <2>2. fresh => ~Clash(registry, n)
    BY <1>1
  <2>3. registry' = IF fresh THEN Registered(registry, n, FALSE) ELSE registry
    BY <1>1
  <2> HIDE DEF fresh
  <2> QED BY <2>1, <2>2, <2>3, RegistryKept
<1>4. MapName[n] \in PartNames /\ n \in PartNames
  BY ConversionAssumption DEF PartNames
<1> DEFINE none == <<>>
<1>5. /\ none \in Words /\ c \in PartType /\ d \in PartType
      /\ none \o <<c>> = <<c>> /\ none \o <<d>> = <<d>>
  <2>1. c \in PartType /\ d \in PartType
    BY <1>2, <1>4 DEF Part, PartType, PartIds
  <2> QED BY <2>1, OnePart, ThreeParts DEF Words
<1>6. m \in MessageType /\ m.parts = <<d>>
  BY <1>5, OnePart, MessageIs
<1>7. BuilderOK' /\ Out' = Out \o <<c>>
  <2> HIDE DEF c
  <2> QED BY <1>1, <1>5, CallJoins DEF ReadInv
<1>8. Conversation(route, Out', Said \o m.parts, registry', named')
  <2>1. Conversation(route, Out \o (none \o <<c>>), Said \o (none \o <<d>>),
                     registry', Put(named, i, n))
    BY <1>2, <1>3, <1>5, CallConversed
  <2> HIDE DEF c, d, m, none
  <2> QED BY <2>1, <1>1, <1>5, <1>6, <1>7
<1>9. /\ DOMAIN named' = DOMAIN named \union {i} /\ named'[i] = n
      /\ \A j \in DOMAIN named : named'[j] = named[j]
  BY <1>1, <1>2 DEF Put
<1>10. NamesOK(route, named', nameOf', Len(messages) + 1)
  <2>1. NamesOK(route, named, nameOf, Len(messages) + 1)
    BY NamesStay
  <2>2. Len(messages) \in Nat
    BY DEF ReadInv
  <2> QED BY <2>1, <2>2, <1>1, <1>2, <1>9 DEF NamesOK
<1>11. unanswered' \in Seq(GeneratedIds \intersect DOMAIN named')
  <2> DEFINE T == GeneratedIds \intersect DOMAIN named'
  <2>1. GeneratedIds \intersect DOMAIN named \subseteq T /\ i \in T
    BY <1>2, <1>9
  <2> HIDE DEF T
  <2>2. unanswered \in Seq(T)
    BY <2>1, SeqGrows DEF ReadInv
  <2>3. Append(unanswered, i) \in Seq(T)
    BY <2>1, <2>2
  <2> QED BY <2>3, <1>1 DEF T
<1> HIDE DEF m
<1> QED BY <1>1, <1>3, <1>6, <1>7, <1>8, <1>10, <1>11, ReadKept

-----------------------------------------------------------------------------
(* A result and what the user says with it. *)

ToolMessage(p, words) == <<Message("tool", <<p>>)>> \o WithUser(words)

LEMMA ResultPushed ==
    ASSUME BuilderOK, NEW p \in PartType, NEW words \in Words, Push(ToolMessage(p, words))
    PROVE  BuilderOK' /\ Out' = Out \o (<<p>> \o words)
<1> DEFINE m == Message("tool", <<p>>)
           u == Message("user", words)
<1>1. words \in Seq(PartType) /\ <<p>> \in Seq(PartType)
  BY WordsArePlain, OnePart DEF Words, PlainParts
<1>2. m \in MessageType /\ m.parts = <<p>> /\ u \in MessageType /\ u.parts = words
  BY <1>1, MessageIs
<1>3. CASE words = <<>>
  <2>1. ToolMessage(p, words) = <<m>>
    <3>1. <<m>> \o <<>> = <<m>>
      BY <1>2
    <3> QED BY <3>1, <1>3 DEF ToolMessage, WithUser
  <2>2. <<p>> \o words = <<p>>
    BY <1>1, <1>3, ThreeParts
  <2> HIDE DEF m
  <2> QED BY <2>1, <2>2, <1>2, MessagePushed
<1>4. CASE words # <<>>
  <2>1. ToolMessage(p, words) = <<m>> \o <<u>>
    BY <1>4 DEF ToolMessage, WithUser
  <2> HIDE DEF m, u
  <2> QED BY <2>1, <1>2, TwoPushed
<1> QED BY <1>3, <1>4

LEMMA ResultConversed ==
    ASSUME ReadInv, NEW reg2, Grows(registry, reg2), NEW p \in PartType, NEW q \in PartType,
           NEW words \in Words, p.kind = "result", Renders(p, q),
           Owed(route, p) => p.id \in DOMAIN named /\ p.name = MapName[named[p.id]]
    PROVE  Conversation(route, Out \o (<<p>> \o words), Said \o (<<q>> \o words), reg2, named)
<1>1. PlainParts(words) /\ words \in Seq(PartType)
  BY WordsArePlain DEF Words, PlainParts
<1>2. Conversation(route, Out \o <<p>>, Said \o <<q>>, reg2, named)
  BY GivesResult DEF ReadInv
<1>3. Conversation(route, (Out \o <<p>>) \o words, (Said \o <<q>>) \o words, reg2, named)
  BY <1>1, <1>2, SaysPlain
<1>4. Out \in Seq(PartType) /\ Said \in Seq(PartType) /\ <<p>> \in Seq(PartType) /\ <<q>> \in Seq(PartType)
  BY OnePart DEF ReadInv, Conversation
<1>5. (Out \o <<p>>) \o words = Out \o (<<p>> \o words)
  <2>1. Out \in Seq(PartType) /\ <<p>> \in Seq(PartType) /\ words \in Seq(PartType)
    BY <1>1, <1>4
  <2> QED BY ONLY <2>1, JoinsAssociate, Zenon
<1>6. (Said \o <<q>>) \o words = Said \o (<<q>> \o words)
  <2>1. Said \in Seq(PartType) /\ <<q>> \in Seq(PartType) /\ words \in Seq(PartType)
    BY <1>1, <1>4
  <2> QED BY ONLY <2>1, JoinsAssociate, Zenon
<1> QED BY <1>3, <1>5, <1>6

LEMMA ResultMessage ==
    ASSUME NEW i \in PartIds, NEW n \in PartNames, NEW words \in Words
    PROVE  LET m == Message("tool", <<Part("result", i, n)>> \o words)
           IN m \in MessageType /\ m.parts = <<Part("result", i, n)>> \o words
<1>1. Part("result", i, n) \in PartType
  BY DEF Part, PartType
<1>2. words \in Seq(PartType)
  BY WordsArePlain DEF Words, PlainParts
<1>3. <<Part("result", i, n)>> \o words \in Seq(PartType)
  BY <1>1, <1>2, OnePart, ThreeParts
<1> QED BY <1>3, MessageIs

LEMMA AnswersKeep ==
    ASSUME ReadInv, NEW i \in CallIds, NEW words \in Words, Answers(i, words), progress' # "failed"
    PROVE  ReadInv'
<1> DEFINE p == Part("result", i, nameOf[i])
           q == Part("result", i, named[i])
           m == Message("tool", <<q>> \o words)
<1>1. i \in DOMAIN nameOf /\ i \in DOMAIN named /\ nameOf[i] = MapName[named[i]] /\ named[i] \in ToolNames
  BY DEF Answers, Refused, ReadInv, NamesOK
<1>2. /\ Reading(m) /\ Push(ToolMessage(p, words))
      /\ UNCHANGED <<registry, nameOf, unanswered, named>>
  BY <1>1 DEF Answers, Refused, ToolMessage
<1>3. i \in PartIds /\ nameOf[i] \in PartNames /\ named[i] \in PartNames
  BY <1>1, ConversionAssumption DEF PartIds, PartNames
<1>4. /\ p \in PartType /\ q \in PartType /\ p.kind = "result" /\ Renders(p, q)
      /\ p.id = i /\ p.name = nameOf[i]
  BY <1>1, <1>3, PartIs DEF Part, PartType, Renders
<1>5. m \in MessageType /\ m.parts = <<q>> \o words
  BY <1>3, ResultMessage
<1> HIDE DEF p, q, m
<1>6. BuilderOK' /\ Out' = Out \o (<<p>> \o words)
  BY <1>2, <1>4, ResultPushed DEF ReadInv
<1>7. Conversation(route, Out', Said \o m.parts, registry, named)
  <2>1. Grows(registry, registry)
    BY DEF Grows
  <2> QED BY <2>1, <1>1, <1>4, <1>5, <1>6, ResultConversed
<1> QED BY <1>2, <1>5, <1>6, <1>7, TablesKept

LEMMA GeminiResultKeeps ==
    ASSUME ReadInv, NEW i \in CallIds, NEW n \in ToolNames, NEW words \in Words,
           GeminiResult(i, n, words), progress' # "failed"
    PROVE  ReadInv'
<1> DEFINE fresh == ~Known(registry, n)
           p == Part("result", i, MapName[n])
           q == Part("result", i, n)
           m == Message("tool", <<q>> \o words)
<1>1. /\ route = "gemini" /\ Reading(m) /\ Push(ToolMessage(p, words)) /\ (fresh => ~Clash(registry, n))
      /\ registry' = IF fresh THEN Registered(registry, n, FALSE) ELSE registry
      /\ UNCHANGED <<nameOf, unanswered, named>>
  BY DEF GeminiResult, Refused, ToolMessage
<1>2. /\ RegistryOK(registry') /\ Grows(registry, registry')
      /\ route = "responses" => KeepsDeclared(declared, registry')
  <2>1. (~fresh => HasTool(registry, n)) /\ (route # "responses")
    BY <1>1 DEF HasTool, Known
  <2>2. fresh => ~Clash(registry, n)
    BY <1>1
  <2>3. registry' = IF fresh THEN Registered(registry, n, FALSE) ELSE registry
    BY <1>1
  <2> HIDE DEF fresh
  <2> QED BY <2>1, <2>2, <2>3, RegistryKept
<1>3. i \in PartIds /\ MapName[n] \in PartNames /\ n \in PartNames
  BY ConversionAssumption DEF PartIds, PartNames
<1>4. p \in PartType /\ q \in PartType /\ p.kind = "result" /\ Renders(p, q) /\ p.id = i
  BY <1>3, PartIs DEF Part, PartType, Renders
<1>5. m \in MessageType /\ m.parts = <<q>> \o words
  BY <1>3, ResultMessage
<1> HIDE DEF p, q, m
<1>6. BuilderOK' /\ Out' = Out \o (<<p>> \o words)
  BY <1>1, <1>4, ResultPushed DEF ReadInv
<1>7. Conversation(route, Out', Said \o m.parts, registry', named')
  <2>1. ~Owed(route, p)
    BY <1>1, <1>4 DEF Owed
  <2> QED BY <2>1, <1>1, <1>2, <1>4, <1>5, <1>6, ResultConversed
<1>8. /\ NamesOK(route, named', nameOf', Len(messages) + 1)
      /\ unanswered' \in Seq(GeneratedIds \intersect DOMAIN named')
  BY <1>1, NamesStay DEF ReadInv
<1> QED BY <1>1, <1>2, <1>5, <1>6, <1>7, <1>8, ReadKept

LEMMA OthersRemain ==
    ASSUME NEW S, NEW s \in Seq(S), NEW k \in DOMAIN s
    PROVE  SubSeq(s, 1, k - 1) \o SubSeq(s, k + 1, Len(s)) \in Seq(S)
<1>1. SubSeq(s, 1, k - 1) \in Seq(S) /\ SubSeq(s, k + 1, Len(s)) \in Seq(S)
  OBVIOUS
<1> QED BY <1>1

LEMMA GeminiAnswersKeep ==
    ASSUME ReadInv, NEW n \in ToolNames, GeminiAnswers(n), progress' # "failed"
    PROVE  ReadInv'
<1> DEFINE k == Oldest(n)
           i == unanswered[k]
           none == <<>>
           p == Part("result", i, MapName[n])
           q == Part("result", Blank, n)
           m == Message("tool", <<q>>)
<1>1. /\ Reading(m) /\ Waiting(n) # {} /\ Push(<<Message("tool", <<p>>)>>)
      /\ unanswered' = SubSeq(unanswered, 1, k - 1) \o SubSeq(unanswered, k + 1, Len(unanswered))
      /\ UNCHANGED <<registry, nameOf, named>>
  BY DEF GeminiAnswers, Refused
<1>2. k \in Waiting(n)
  <2>1. Waiting(n) \in SUBSET Nat
    BY DEF Waiting, ReadInv
  <2> QED BY <2>1, <1>1, SmallestNumber DEF Oldest
<1> HIDE DEF k
<1>3. k \in DOMAIN unanswered /\ named[i] = n /\ i \in GeneratedIds /\ i \in DOMAIN named
  BY <1>2 DEF Waiting, ReadInv
<1> HIDE DEF i
<1>4. i \in PartIds /\ Blank \in PartIds /\ MapName[n] \in PartNames /\ n \in PartNames
  BY <1>3, ConversionAssumption DEF PartIds, PartNames
<1>5. /\ p \in PartType /\ q \in PartType /\ p.kind = "result" /\ Renders(p, q)
      /\ p.id = i /\ p.name = MapName[n]
  BY <1>4, PartIs DEF Part, PartType, Renders
<1>6. m \in MessageType /\ m.parts = <<q>>
  BY <1>5, OnePart, MessageIs
<1>7. BuilderOK' /\ Out' = Out \o <<p>>
  <2> DEFINE t == Message("tool", <<p>>)
  <2>1. t \in MessageType /\ t.parts = <<p>>
    BY <1>5, OnePart, MessageIs
  <2>2. Push(<<t>>)
    BY <1>1
  <2> HIDE DEF t, p
  <2> QED BY <2>1, <2>2, MessagePushed DEF ReadInv
<1>8. Conversation(route, Out', Said \o m.parts, registry', named')
  <2>1. Conversation(route, Out \o <<p>>, Said \o <<q>>, registry, named)
    <3>1. Grows(registry, registry)
      BY DEF Grows
    <3> HIDE DEF p, q
    <3> QED BY <3>1, <1>3, <1>5, GivesResult DEF ReadInv
  <2> HIDE DEF p, q, m
  <2> QED BY <2>1, <1>1, <1>6, <1>7
<1>9. unanswered' \in Seq(GeneratedIds \intersect DOMAIN named')
  <2> DEFINE S == GeneratedIds \intersect DOMAIN named
  <2>1. unanswered \in Seq(S)
    BY DEF ReadInv
  <2> HIDE DEF S
  <2>2. SubSeq(unanswered, 1, k - 1) \o SubSeq(unanswered, k + 1, Len(unanswered)) \in Seq(S)
    BY <2>1, <1>3, OthersRemain
  <2> QED BY <2>2, <1>1 DEF S
<1>10. /\ NamesOK(route, named', nameOf', Len(messages) + 1) /\ RegistryOK(registry')
       /\ route = "responses" => KeepsDeclared(declared, registry')
  BY <1>1, NamesStay DEF ReadInv
<1> HIDE DEF m
<1> QED BY <1>1, <1>6, <1>7, <1>8, <1>9, <1>10, ReadKept

-----------------------------------------------------------------------------
(* The end of a request. *)

(* The body is what went out, with the calls of C and their results as      *)
(* those of free-text tools.                                                *)
IsBodyOf(body, out, C) ==
    /\ Len(body) = Len(out) /\ DOMAIN body = DOMAIN out
    /\ \A k \in DOMAIN out :
          /\ Kind(body[k]) = out[k].kind /\ body[k].id = out[k].id /\ body[k].name = out[k].name
          /\ body[k].kind = "custom" <=> (out[k].kind = "call" /\ out[k].id \in C)
          /\ body[k].kind = "customResult" <=> (out[k].kind = "result" /\ out[k].id \in C)

LEMMA BodyIs ==
    ASSUME NEW reg, Out \in Seq(PartType)
    PROVE  \E C : IsBodyOf(BodyOf(reg), Out, C)
<1> DEFINE C == IF target = "responses" THEN Customs(reg, Out) ELSE {}
           body == BodyOf(reg)
<1>1. body = IF target = "responses" THEN Restored(reg, Out) ELSE Out
  BY DEF BodyOf, Whole, Out
<1>2. Len(Out) \in Nat /\ DOMAIN Out = 1..Len(Out)
  OBVIOUS
<1>3. ASSUME NEW k \in DOMAIN Out
      PROVE  /\ Kind(body[k]) = Out[k].kind /\ body[k].id = Out[k].id /\ body[k].name = Out[k].name
             /\ body[k].kind = "custom" <=> (Out[k].kind = "call" /\ Out[k].id \in C)
             /\ body[k].kind = "customResult" <=> (Out[k].kind = "result" /\ Out[k].id \in C)
  <2> DEFINE p == Out[k]
  <2>1. p \in PartType
    OBVIOUS
  <2>2. /\ p.kind \in {"text", "image", "url", "call", "result"}
        /\ p = [kind |-> p.kind, id |-> p.id, name |-> p.name]
    BY <2>1 DEF PartType
  <2>3. CASE p.id \in C /\ p.kind = "call"
    <3>1. body[k] = [p EXCEPT !.kind = "custom"]
      BY <1>1, <2>3 DEF Restored
    <3>2. body[k].kind = "custom" /\ body[k].id = p.id /\ body[k].name = p.name
      BY <3>1, <2>2
    <3>3. Kind(body[k]) = "call"
      BY <3>2 DEF Kind
    <3> QED BY <3>2, <3>3, <2>3
  <2>4. CASE p.id \in C /\ p.kind = "result"
    <3>1. body[k] = [p EXCEPT !.kind = "customResult"]
      BY <1>1, <2>4 DEF Restored
    <3>2. body[k].kind = "customResult" /\ body[k].id = p.id /\ body[k].name = p.name
      BY <3>1, <2>2
    <3>3. Kind(body[k]) = "result"
      BY <3>2 DEF Kind
    <3> QED BY <3>2, <3>3, <2>4
  <2>5. CASE ~(p.id \in C /\ p.kind \in {"call", "result"})
    <3>1. body[k] = p
      BY <1>1, <2>5 DEF Restored
    <3>2. Kind(p) = p.kind
      BY <2>2 DEF Kind
    <3> QED BY <3>1, <3>2, <2>2, <2>5
  <2> QED BY <2>3, <2>4, <2>5
<1>4. Len(body) = Len(Out) /\ DOMAIN body = DOMAIN Out
  <2>1. CASE target = "responses"
    <3>1. DOMAIN Restored(reg, Out) = DOMAIN Out
      BY DEF Restored
    <3>2. Len(Restored(reg, Out)) = Len(Out)
      BY <1>2 DEF Restored
    <3> QED BY <3>1, <3>2, <2>1, <1>1
  <2>2. CASE target # "responses"
    BY <2>2, <1>1
  <2> QED BY <2>1, <2>2
<1> HIDE DEF C, body
<1>5. IsBodyOf(body, Out, C)
  BY <1>3, <1>4 DEF IsBodyOf
<1> QED BY <1>5 DEF body

LEMMA BodyIsConverted ==
    ASSUME ReadInv, NEW reg, Grows(registry, reg), NEW body, NEW C, IsBodyOf(body, Out, C)
    PROVE  /\ Len(body) = Len(Said)
           /\ \A k \in DOMAIN Said :
                 /\ Kind(body[k]) = Said[k].kind
                 /\ Said[k].name # Blank => body[k].name = MapName[Said[k].name]
                 /\ Said[k].id # Blank => body[k].id = Said[k].id
           /\ \A k \in DOMAIN body :
                 /\ Kind(body[k]) = "call" => reg[body[k].name].name = named[body[k].id]
                 /\ Kind(body[k]) = "result" /\ (route = "gemini" => body[k].id \notin CallIds) =>
                      \E j \in 1..(k - 1) :
                         /\ Kind(body[j]) = "call" /\ body[j].id = body[k].id
                         /\ body[j].name = body[k].name
                         /\ (body[j].kind = "custom") <=> (body[k].kind = "customResult")
<1>1. /\ Conversation(route, Out, Said, registry, named) /\ Out \in Seq(PartType)
      /\ Said \in Seq(PartType) /\ Follows(Out, Said)
  BY DEF ReadInv, Conversation
<1>2. /\ Len(Out) \in Nat /\ DOMAIN Out = 1..Len(Out) /\ DOMAIN Said = 1..Len(Said)
      /\ Len(Out) = Len(Said)
  BY <1>1 DEF Follows
<1>3. ASSUME NEW k \in DOMAIN Said
      PROVE  /\ Kind(body[k]) = Said[k].kind
             /\ Said[k].name # Blank => body[k].name = MapName[Said[k].name]
             /\ Said[k].id # Blank => body[k].id = Said[k].id
  BY <1>1, <1>2 DEF IsBodyOf, Follows, Renders
<1>4. ASSUME NEW k \in DOMAIN body, Kind(body[k]) = "call"
      PROVE  reg[body[k].name].name = named[body[k].id]
  <2>1. k \in DOMAIN Out /\ Out[k].kind = "call" /\ body[k].id = Out[k].id /\ body[k].name = Out[k].name
    BY <1>4 DEF IsBodyOf
  <2> QED BY <2>1, <1>1 DEF Conversation, CallKnown, Grows
<1>5. ASSUME NEW k \in DOMAIN body, Kind(body[k]) = "result", route = "gemini" => body[k].id \notin CallIds
      PROVE  \E j \in 1..(k - 1) :
                /\ Kind(body[j]) = "call" /\ body[j].id = body[k].id
                /\ body[j].name = body[k].name
                /\ (body[j].kind = "custom") <=> (body[k].kind = "customResult")
  <2>1. k \in DOMAIN Out /\ Out[k].kind = "result" /\ Owed(route, Out[k])
    BY <1>5 DEF IsBodyOf, Owed
  <2>2. PICK j \in 1..(k - 1) : CallOf(Out[j], Out[k])
    BY <2>1, <1>1 DEF Conversation
  <2>3. j \in DOMAIN Out
    BY <2>1, <1>2
  <2> QED BY <2>1, <2>2, <2>3 DEF IsBodyOf, CallOf
<1> QED BY <1>2, <1>3, <1>4, <1>5 DEF IsBodyOf

LEMMA CloseConverts ==
    ASSUME ReadInv, DOMAIN declared \subseteq ToolNames,
           NEW choice \in ToolNames \union {Blank}, ConvClose(choice), progress' = "done"
    PROVE  RequestConverted'
<1> DEFINE late == route # "responses"
           reg == IF late THEN Declare(registry, declared) ELSE registry
<1>1. /\ (late => ~DeclareClash(registry, declared)) /\ (choice # Blank => Choosable(reg, choice))
      /\ registry' = reg /\ sentBody' = BodyOf(reg)
      /\ chosen' = IF choice = Blank THEN Blank ELSE MapName[choice]
      /\ UNCHANGED <<route, target, declared, messages, named>>
  BY DEF ConvClose
<1>2. RegistryOK(reg) /\ Grows(registry, reg) /\ KeepsDeclared(declared, reg)
  <2>1. CASE late
    BY <2>1, <1>1, Declares DEF ReadInv
  <2>2. CASE ~late
    BY <2>2 DEF ReadInv, Grows
  <2> QED BY <2>1, <2>2
<1>3. chosen' # Blank => chosen' \in DOMAIN reg
  <2> SUFFICES ASSUME choice # Blank PROVE MapName[choice] \in DOMAIN reg
    BY <1>1
  <2> HIDE DEF reg
  <2>1. Choosable(reg, choice)
    BY <1>1
  <2> QED BY <2>1, <1>2 DEF Choosable, Known, KeepsDeclared
<1> HIDE DEF reg
<1>4. PICK C : IsBodyOf(sentBody', Out, C)
  <2>1. Out \in Seq(PartType)
    BY DEF ReadInv, Conversation
  <2> QED BY <2>1, <1>1, BodyIs
<1> DEFINE body == sentBody'
<1> HIDE DEF body
<1>5. /\ Len(body) = Len(Said)
      /\ \A k \in DOMAIN Said :
            /\ Kind(body[k]) = Said[k].kind
            /\ Said[k].name # Blank => body[k].name = MapName[Said[k].name]
            /\ Said[k].id # Blank => body[k].id = Said[k].id
      /\ \A k \in DOMAIN body :
            /\ Kind(body[k]) = "call" => reg[body[k].name].name = named[body[k].id]
            /\ Kind(body[k]) = "result" /\ (route = "gemini" => body[k].id \notin CallIds) =>
                 \E j \in 1..(k - 1) :
                    /\ Kind(body[j]) = "call" /\ body[j].id = body[k].id
                    /\ body[j].name = body[k].name
                    /\ (body[j].kind = "custom") <=> (body[k].kind = "customResult")
  <2>1. IsBodyOf(body, Out, C)
    BY <1>4 DEF body
  <2> QED BY <2>1, <1>2, BodyIsConverted
<1>6. Said' = Said
  BY <1>1 DEF Said
<1>7. ConversationKept'
  BY <1>5, <1>6 DEF ConversationKept, Kind, body
<1>8. IdentitiesKept'
  BY <1>1, <1>2, <1>3, <1>5 DEF IdentitiesKept, Kind, body, KeepsDeclared
<1> QED BY <1>7, <1>8 DEF RequestConverted

-----------------------------------------------------------------------------
(* The invariant of a conversion. *)

Untouched == /\ registry = Empty /\ prompt = <<>> /\ joining = <<>> /\ nameOf = Empty
             /\ unanswered = <<>> /\ messages = <<>> /\ named = Empty
ConvInv ==
    /\ route \in ConvProtocols /\ DOMAIN declared \subseteq ToolNames
    /\ progress \in {"open", "reading", "done", "failed"}
    /\ progress = "open" => Untouched
    /\ progress = "reading" => ReadInv
    /\ RequestConverted

LEMMA ConvInvInit == ConvInit => ConvInv
<1> SUFFICES ASSUME ConvInit PROVE ConvInv
  OBVIOUS
<1>1. route \in ConvProtocols /\ progress = "open" /\ Untouched
  BY DEF ConvInit, Untouched
<1>2. DOMAIN declared \subseteq ToolNames
  BY DEF ConvInit, Declarations
<1> QED BY <1>1, <1>2 DEF ConvInv, RequestConverted, ConversationKept, IdentitiesKept

LEMMA BeginsEmpty ==
    ASSUME Untouched, NEW reg
    PROVE  /\ BuilderOK /\ Out = <<>> /\ Said = <<>> /\ Len(messages) = 0
           /\ messages \in Seq(MessageType) /\ Conversation(route, <<>>, <<>>, reg, named)
           /\ NamesOK(route, named, nameOf, 0) /\ unanswered \in Seq(GeneratedIds \intersect DOMAIN named)
<1>1. BuilderOK /\ messages \in Seq(MessageType) /\ Len(messages) = 0
  BY DEF Untouched, BuilderOK
<1>2. Out = <<>> /\ Said = <<>>
  BY PartsOfNone DEF Untouched, Out, Flushed, Said
<1>3. DOMAIN named = {} /\ DOMAIN nameOf = {}
  BY DEF Untouched, Empty
<1>4. Conversation(route, <<>>, <<>>, reg, named)
  <2>1. <<>> \in Seq(PartType) /\ Len(<<>>) = 0 /\ \A k : k \notin DOMAIN <<>>
    OBVIOUS
  <2> QED BY <2>1, <1>3 DEF Conversation, Follows
<1>5. NamesOK(route, named, nameOf, 0)
  BY <1>3 DEF NamesOK
<1>6. unanswered \in Seq(GeneratedIds \intersect DOMAIN named)
  BY DEF Untouched
<1> QED BY <1>1, <1>2, <1>4, <1>5, <1>6

LEMMA OpenKeeps ==
    ASSUME ConvInv, ConvOpen
    PROVE  ConvInv'
<1>1. /\ progress = "open" /\ Untouched /\ progress' \in {"done", "failed", "reading"}
      /\ UNCHANGED <<route, target, declared, prompt, joining, nameOf, unanswered, messages, named>>
  BY DEF ConvInv, ConvOpen
<1>2. progress' = "done" => route' = target'
  BY <1>1 DEF ConvOpen
<1>3. RequestConverted'
  BY <1>2 DEF RequestConverted, ConversationKept, IdentitiesKept
<1>4. ASSUME progress' = "reading" PROVE ReadInv'
  <2>1. /\ BuilderOK /\ Out = <<>> /\ Said = <<>> /\ Len(messages) = 0
        /\ messages \in Seq(MessageType) /\ Conversation(route, <<>>, <<>>, registry', named)
        /\ NamesOK(route, named, nameOf, 0) /\ unanswered \in Seq(GeneratedIds \intersect DOMAIN named)
    BY <1>1, BeginsEmpty
  <2>2. BuilderOK' /\ Out' = Out /\ Said' = Said
    BY <1>1, <2>1, OutIs DEF BuilderOK, Said
  <2>3. RegistryOK(Empty)
    BY DEF RegistryOK, Empty
  <2>4. DOMAIN declared \subseteq ToolNames
    BY DEF ConvInv
  <2>5. CASE route = "responses"
    <3>1. ~DeclareClash(Empty, declared) /\ registry' = Declare(Empty, declared)
      BY <1>4, <2>5 DEF ConvOpen
    <3>2. RegistryOK(registry') /\ KeepsDeclared(declared, registry')
      BY <3>1, <2>3, <2>4, Declares
    <3> QED BY <1>1, <2>1, <2>2, <3>2, ConversionAssumption DEF ReadInv
  <2>6. CASE route # "responses"
    <3>1. registry' = Empty
      BY <1>1, <1>4, <2>6 DEF ConvOpen, Untouched
    <3> QED BY <1>1, <2>1, <2>2, <2>3, <2>6, <3>1, ConversionAssumption DEF ReadInv
  <2> QED BY <2>5, <2>6
<1> QED BY <1>1, <1>3, <1>4 DEF ConvInv

LEMMA ReadingKeeps ==
    ASSUME ConvInv, NEW said, Reading(said), progress' \in {"reading", "failed"},
           progress' # "failed" => ReadInv'
    PROVE  ConvInv'
<1>1. RequestConverted'
  BY DEF RequestConverted, ConversationKept, IdentitiesKept
<1> QED BY <1>1 DEF ConvInv, Reading

LEMMA ConvInvNext == ConvInv /\ [ConvNext]_convVars => ConvInv'
<1> SUFFICES ASSUME ConvInv, [ConvNext]_convVars PROVE ConvInv'
  OBVIOUS
<1>1. progress = "reading" => ReadInv
  BY DEF ConvInv
<1>2. CASE ConvOpen
  BY <1>2, OpenKeeps
<1>3. ASSUME NEW ps \in {<<TextPart>>, <<ImagePart, UrlPart>>}, UserSays(ps) PROVE ConvInv'
  <2>1. Reading(Message("user", ps)) /\ progress = "reading" /\ progress' = "reading"
    BY <1>3 DEF UserSays, Reading, Accepted
  <2> QED BY <2>1, <1>1, <1>3, UserKeeps, ReadingKeeps
<1>4. CASE Stripped
  <2>1. Reading(Message("aside", <<>>)) /\ progress = "reading" /\ progress' = "reading"
    BY <1>4 DEF Stripped, Reading, Accepted
  <2> QED BY <2>1, <1>1, <1>4, AsideKeeps, ReadingKeeps
<1>5. CASE AssistantSays
  <2>1. Reading(Message("assistant", <<TextPart>>)) /\ progress = "reading" /\ progress' = "reading"
    BY <1>5 DEF AssistantSays, Reading, Accepted
  <2> QED BY <2>1, <1>1, <1>5, AssistantKeeps, ReadingKeeps
<1>6. ASSUME NEW i \in CallIds, NEW n \in ToolNames, NEW custom \in BOOLEAN, NEW words \in Words,
             ConvCalls(i, n, custom, words)
      PROVE  ConvInv'
  <2>1. /\ Reading(Message("assistant", words \o <<Part("call", i, n)>>)) /\ progress = "reading"
        /\ progress' \in {"reading", "failed"}
    BY <1>6 DEF ConvCalls, Reading, Accepted, Refused
  <2> QED BY <2>1, <1>1, <1>6, CallsKeep, ReadingKeeps
<1>7. ASSUME NEW n \in ToolNames, GeminiCalls(n) PROVE ConvInv'
  <2>1. /\ Reading(Message("assistant", <<Part("call", Generated(Len(messages)), n)>>))
        /\ progress = "reading" /\ progress' \in {"reading", "failed"}
    BY <1>7 DEF GeminiCalls, Reading, Accepted, Refused, Generated
  <2> QED BY <2>1, <1>1, <1>7, GeminiCallsKeep, ReadingKeeps
<1>8. ASSUME NEW n \in ToolNames, GeminiAnswers(n) PROVE ConvInv'
  <2>1. /\ Reading(Message("tool", <<Part("result", Blank, n)>>))
        /\ progress = "reading" /\ progress' \in {"reading", "failed"}
    BY <1>8 DEF GeminiAnswers, Reading, Accepted, Refused
  <2> QED BY <2>1, <1>1, <1>8, GeminiAnswersKeep, ReadingKeeps
<1>9. ASSUME NEW i \in CallIds, NEW words \in Words, Answers(i, words) PROVE ConvInv'
  <2>1. /\ \E said : Reading(said)
        /\ progress = "reading" /\ progress' \in {"reading", "failed"}
    BY <1>9 DEF Answers, Reading, Accepted, Refused
  <2> QED BY <2>1, <1>1, <1>9, AnswersKeep, ReadingKeeps
<1>10. ASSUME NEW i \in CallIds, NEW n \in ToolNames, NEW words \in Words, GeminiResult(i, n, words)
       PROVE  ConvInv'
  <2>1. /\ \E said : Reading(said)
        /\ progress = "reading" /\ progress' \in {"reading", "failed"}
    BY <1>10 DEF GeminiResult, Reading, Accepted, Refused
  <2> QED BY <2>1, <1>1, <1>10, GeminiResultKeeps, ReadingKeeps
<1>11. ASSUME NEW choice \in ToolNames \union {Blank}, ConvClose(choice) PROVE ConvInv'
  <2>1. progress = "reading" /\ progress' \in {"done", "failed"} /\ UNCHANGED <<route, declared>>
    BY <1>11 DEF ConvClose
  <2>2. RequestConverted'
    <3>1. CASE progress' = "done"
      BY <3>1, <2>1, <1>1, <1>11, CloseConverts DEF ConvInv
    <3>2. CASE progress' # "done"
      BY <3>2 DEF RequestConverted, ConversationKept, IdentitiesKept
    <3> QED BY <3>1, <3>2
  <2> QED BY <2>1, <2>2 DEF ConvInv
<1>12. CASE UNCHANGED convVars
  <2>1. BuilderOK' = BuilderOK /\ Out' = Out /\ Said' = Said
    BY <1>12, OutIs DEF convVars, BuilderOK, Said
  <2>2. ReadInv' = ReadInv
    BY <2>1, <1>12 DEF convVars, ReadInv
  <2>3. RequestConverted' = RequestConverted
    BY <2>1, <1>12 DEF convVars, RequestConverted, ConversationKept, IdentitiesKept, Kind
  <2> QED BY <2>2, <2>3, <1>12 DEF ConvInv, convVars, Untouched
<1> QED BY <1>2, <1>3, <1>4, <1>5, <1>6, <1>7, <1>8, <1>9, <1>10, <1>11, <1>12 DEF ConvNext, Words

(* A request that is converted is the request that was made, between any   *)
(* two protocols and for any history, names and declared tools: every      *)
(* word, image, call and result stands in the body, in the order of the    *)
(* client, and each name, kind and identity of a tool leads back to the    *)
(* client's own (convertRequest with PromptBuilder, ToolRegistry and       *)
(* applyResponsesExtras: the identity contract of request.ts).             *)
THEOREM RequestsConverted == ConvSpec => []RequestConverted
<1>1. ConvInv => RequestConverted
  BY DEF ConvInv
<1> QED BY <1>1, ConvInvInit, ConvInvNext, PTL DEF ConvSpec

-----------------------------------------------------------------------------
(* One turn of a conversation there and back (AgyLoop).  What the client   *)
(* has of the calls are the calls that were made, and the envelope of a    *)
(* signature stands before its call (LoopInv); a history that is such a    *)
(* turn and its results comes back whole (HistoryBack).  What is kept of a *)
(* sequence, and the conversion, go piece by piece.                        *)

(* A set of numbers that has 0 and with each its next has all.             *)
LEMMA Climbs ==
    ASSUME NEW N \in Nat, NEW B, 0 \in B, \A k \in 1..N : k - 1 \in B => k \in B
    PROVE  \A k \in 0..N : k \in B
<1> DEFINE Left == {k \in 0..N : k \notin B}
<1> SUFFICES ASSUME Left # {} PROVE FALSE
  OBVIOUS
<1>1. PICK m \in Left : \A k \in Left : m <= k
  <2>1. Left \in SUBSET Nat
    OBVIOUS
  <2> HIDE DEF Left
  <2> QED BY <2>1, SmallestNumber
<1>2. m \in 1..N /\ m - 1 \in 0..N /\ m - 1 < m
  BY <1>1
<1>3. m - 1 \notin Left
  BY <1>1, <1>2
<1> QED BY <1>1, <1>2, <1>3

(* What is computed step by step is a function of the step. *)
Stepwise(g, N, b, F) == g[0] = b /\ \A k \in 1..N : g[k] = F[k][g[k - 1]]

LEMMA StepsExist ==
    ASSUME NEW N \in Nat, NEW T, NEW b \in T, NEW F \in [1..N -> [T -> T]]
    PROVE  \E g \in [0..N -> T] : Stepwise(g, N, b, F)
<1> DEFINE B == {m \in 0..N : \E g \in [0..m -> T] : Stepwise(g, m, b, F)}
<1>1. 0 \in B
  <2> DEFINE e == [k \in 0..0 |-> b]
  <2>1. e \in [0..0 -> T] /\ e[0] = b /\ 1..0 = {}
    OBVIOUS
  <2>2. Stepwise(e, 0, b, F)
    BY <2>1 DEF Stepwise
  <2> QED BY <2>1, <2>2
<1>2. ASSUME NEW m \in 1..N, m - 1 \in B PROVE m \in B
  <2>1. PICK g \in [0..(m - 1) -> T] : Stepwise(g, m - 1, b, F)
    BY <1>2
  <2> DEFINE last == F[m][g[m - 1]]
             h == [k \in 0..m |-> IF k = m THEN last ELSE g[k]]
  <2>2. last \in T
    <3>1. m - 1 \in 0..(m - 1) /\ F[m] \in [T -> T]
      OBVIOUS
    <3> QED BY <3>1
  <2>3. h \in [0..m -> T] /\ h[m] = last /\ \A k \in 0..(m - 1) : h[k] = g[k]
    <3> HIDE DEF last
    <3> QED BY <2>2
  <2> HIDE DEF h
  <2>4. h[0] = b
    BY <2>1, <2>3 DEF Stepwise
  <2>5. ASSUME NEW k \in 1..m PROVE h[k] = F[k][h[k - 1]]
    <3>1. CASE k = m
      BY <3>1, <2>3
    <3>2. CASE k # m
      <4>1. k \in 1..(m - 1) /\ k \in 0..(m - 1) /\ k - 1 \in 0..(m - 1)
        BY <3>2
      <4> QED BY <4>1, <2>1, <2>3 DEF Stepwise
    <3> QED BY <3>1, <3>2
  <2>6. Stepwise(h, m, b, F)
    BY <2>4, <2>5 DEF Stepwise
  <2> QED BY <2>3, <2>6
<1>3. N \in 0..N
  OBVIOUS
<1> HIDE DEF B
<1>4. N \in B
  BY <1>1, <1>2, <1>3, Climbs
<1> QED BY <1>4 DEF B

-----------------------------------------------------------------------------
(* What is kept of a sequence of pieces.                                   *)

AnyPiece == [kind : AgyKinds, n : Nat, sig : Signatures \union {NoSig}]
CallKinds == {"function", "custom"}

Keeps(s, K, g, N) ==
    /\ g[0] = <<>>
    /\ \A i \in 1..N : g[i] = IF s[i].kind \in K THEN Append(g[i - 1], s[i]) ELSE g[i - 1]

LEMMA OnlyIs ==
    ASSUME NEW s \in Seq(AnyPiece), NEW K
    PROVE  \E g \in [0..Len(s) -> Seq(AnyPiece)] : Keeps(s, K, g, Len(s)) /\ Only(s, K) = g[Len(s)]
<1> DEFINE N == Len(s)
           T == Seq(AnyPiece)
           F == [i \in 1..N |-> [x \in T |-> IF s[i].kind \in K THEN Append(x, s[i]) ELSE x]]
           Is(g) == g = [i \in 0..N |-> IF i = 0 THEN <<>>
                            ELSE IF s[i].kind \in K THEN Append(g[i - 1], s[i]) ELSE g[i - 1]]
           kept == CHOOSE g : Is(g)
<1>1. N \in Nat /\ <<>> \in T /\ \A i \in 1..N : s[i] \in AnyPiece
  OBVIOUS
<1>2. F \in [1..N -> [T -> T]]
  <2>1. \A i \in 1..N : \A x \in T : Append(x, s[i]) \in T
    BY <1>1
  <2> HIDE DEF T, N
  <2> QED BY <2>1
<1>3. PICK g \in [0..N -> T] : Stepwise(g, N, <<>>, F)
  <2> HIDE DEF F, T, N
  <2> QED BY <1>1, <1>2, StepsExist
<1>4. ASSUME NEW i \in 1..N
      PROVE  /\ i \in 0..N /\ i # 0 /\ g[i - 1] \in T
             /\ g[i] = IF s[i].kind \in K THEN Append(g[i - 1], s[i]) ELSE g[i - 1]
  <2>1. g[i] = F[i][g[i - 1]]
    BY <1>3 DEF Stepwise
  <2>2. i \in 0..N /\ i # 0 /\ i - 1 \in 0..N
    BY <1>1
  <2>3. g[i - 1] \in T
    BY <2>2
  <2> HIDE DEF T, N
  <2> QED BY <2>1, <2>2, <2>3
<1>5. Is(g)
  <2> HIDE DEF T, F
  <2>1. g[0] = <<>>
    BY <1>3 DEF Stepwise
  <2>2. \A i \in 0..N : g[i] = IF i = 0 THEN <<>>
                           ELSE IF s[i].kind \in K THEN Append(g[i - 1], s[i]) ELSE g[i - 1]
    <3> SUFFICES ASSUME NEW i \in 0..N
                 PROVE  g[i] = IF i = 0 THEN <<>>
                           ELSE IF s[i].kind \in K THEN Append(g[i - 1], s[i]) ELSE g[i - 1]
      OBVIOUS
    <3>1. i = 0 \/ i \in 1..N
      BY <1>1
    <3> QED BY <3>1, <2>1, <1>4
  <2> HIDE DEF N
  <2> QED BY <2>2
<1>6. Is(kept)
  <2> HIDE DEF Is
  <2> QED BY <1>5
<1>7. Only(s, K) = kept[N]
  BY DEF Only
<1>8. kept \in [0..N -> T] /\ Keeps(s, K, kept, N)
  <2> HIDE DEF kept
  <2>1. \A i \in 0..N : kept[i] = IF i = 0 THEN <<>>
                  ELSE IF s[i].kind \in K THEN Append(kept[i - 1], s[i]) ELSE kept[i - 1]
    BY <1>6
  <2>2. kept[0] = <<>>
    BY <2>1, <1>1
  <2>3. ASSUME NEW i \in 1..N
        PROVE  kept[i] = IF s[i].kind \in K THEN Append(kept[i - 1], s[i]) ELSE kept[i - 1]
    <3>1. i \in 0..N /\ i # 0
      BY <1>1
    <3> QED BY <3>1, <2>1, SMTT(40)
  <2> DEFINE B == {i \in 0..N : kept[i] \in T}
  <2>4. 0 \in B
    BY <2>2, <1>1
  <2>5. ASSUME NEW i \in 1..N, i - 1 \in B PROVE i \in B
    <3>1. kept[i - 1] \in T /\ s[i] \in AnyPiece /\ i \in 0..N
      BY <2>5, <1>1
    <3>2. Append(kept[i - 1], s[i]) \in T
      BY <3>1
    <3> QED BY <3>1, <3>2, <2>3
  <2> HIDE DEF B
  <2>6. \A i \in 0..N : i \in B
    BY <2>4, <2>5, <1>1, Climbs
  <2>7. kept = [i \in 0..N |-> kept[i]]
    BY <1>6
  <2>8. kept \in [0..N -> T]
    <3> HIDE DEF T
    <3> QED BY <2>6, <2>7 DEF B
  <2> QED BY <2>2, <2>3, <2>8 DEF Keeps
<1> HIDE DEF kept
<1> QED BY <1>7, <1>8

(* Two ways to keep of the same pieces agree. *)
Alike(s, t, N) == \A i \in 1..N : s[i] = t[i]
Meet(g, h, N) == g[N] = h[N]

LEMMA KeepsAgree ==
    ASSUME NEW s, NEW t, NEW K, NEW N \in Nat, NEW M \in Nat, N <= M, Alike(s, t, N),
           NEW g, NEW h, Keeps(s, K, g, N), Keeps(t, K, h, M)
    PROVE  Meet(g, h, N)
<1> DEFINE B == {i \in 0..N : g[i] = h[i]}
<1>1. 0 \in B
  BY DEF Keeps
<1>2. ASSUME NEW i \in 1..N, i - 1 \in B PROVE i \in B
  <2>1. i \in 1..N /\ i \in 1..M /\ i \in 0..N /\ g[i - 1] = h[i - 1] /\ s[i] = t[i]
    BY <1>2 DEF Alike
  <2>2. g[i] = h[i]
    BY <2>1 DEF Keeps
  <2> QED BY <2>1, <2>2
<1> HIDE DEF B
<1>3. \A i \in 0..N : i \in B
  BY <1>1, <1>2, Climbs
<1> QED BY <1>3 DEF B, Meet

LEMMA OnlyOfNone == ASSUME NEW K PROVE Only(<<>>, K) = <<>>
<1>1. <<>> \in Seq(AnyPiece) /\ Len(<<>>) = 0
  OBVIOUS
<1>2. PICK g \in [0..0 -> Seq(AnyPiece)] : Keeps(<<>>, K, g, 0) /\ Only(<<>>, K) = g[0]
  BY ONLY <1>1, OnlyIs
<1> QED BY <1>2 DEF Keeps

LEMMA OnlyAppend ==
    ASSUME NEW s \in Seq(AnyPiece), NEW p \in AnyPiece, NEW K
    PROVE  Only(Append(s, p), K) = IF p.kind \in K THEN Append(Only(s, K), p) ELSE Only(s, K)
<1>0. Append(s, p) \in Seq(AnyPiece) /\ Len(s) \in Nat /\ Len(Append(s, p)) = Len(s) + 1
  OBVIOUS
<1> DEFINE L == Len(s)
<1>1. PICK g \in [0..L -> Seq(AnyPiece)] : Keeps(s, K, g, L) /\ Only(s, K) = g[L]
  BY OnlyIs
<1>2. PICK h \in [0..(L + 1) -> Seq(AnyPiece)] :
         Keeps(Append(s, p), K, h, L + 1) /\ Only(Append(s, p), K) = h[L + 1]
  <2>1. \E h \in [0..Len(Append(s, p)) -> Seq(AnyPiece)] :
          /\ Keeps(Append(s, p), K, h, Len(Append(s, p)))
          /\ Only(Append(s, p), K) = h[Len(Append(s, p))]
    BY <1>0, OnlyIs
  <2> QED BY <2>1, <1>0
<1>3. Alike(s, Append(s, p), L)
  BY DEF Alike
<1>4. L \in Nat /\ L + 1 \in Nat /\ L <= L + 1
  BY <1>0
<1>5. Meet(g, h, L)
  <2> HIDE DEF L
  <2> QED BY <1>1, <1>2, <1>3, <1>4, KeepsAgree, Zenon
<1>6. L \in 0..L /\ L + 1 \in 1..(L + 1) /\ L + 1 - 1 = L /\ Append(s, p)[L + 1] = p
  BY <1>0
<1>7. h[L + 1] = IF p.kind \in K THEN Append(h[L], p) ELSE h[L]
  <2> HIDE DEF L
  <2> DEFINE t == Append(s, p)
             m == L + 1
  <2>1. Keeps(t, K, h, m) /\ m \in 1..m /\ t[m] = p /\ m - 1 = L
    BY <1>2, <1>6
  <2> HIDE DEF L, t, m
  <2>2. h[m] = IF t[m].kind \in K THEN Append(h[m - 1], t[m]) ELSE h[m - 1]
    BY <2>1 DEF Keeps
  <2>3. h[m] = IF p.kind \in K THEN Append(h[L], p) ELSE h[L]
    BY <2>1, <2>2
  <2> QED BY <2>3 DEF m
<1> QED BY <1>1, <1>2, <1>5, <1>7 DEF Meet

LEMMA OnlyTyped ==
    ASSUME NEW s \in Seq(AnyPiece), NEW K
    PROVE  /\ Only(s, K) \in Seq(AnyPiece)
           /\ \A i \in DOMAIN Only(s, K) :
                 Only(s, K)[i].kind \in K /\ \E j \in DOMAIN s : s[j] = Only(s, K)[i]
<1> DEFINE N == Len(s)
<1>1. PICK g \in [0..N -> Seq(AnyPiece)] : Keeps(s, K, g, N) /\ Only(s, K) = g[N]
  BY OnlyIs
<1>2. N \in Nat /\ DOMAIN s = 1..N /\ \A i \in 1..N : s[i] \in AnyPiece
  OBVIOUS
<1> HIDE DEF N
<1> DEFINE From(x) == \A i \in DOMAIN x : x[i].kind \in K /\ \E j \in DOMAIN s : s[j] = x[i]
           B == {k \in 0..N : From(g[k])}
<1>3. 0 \in B
  <2>1. DOMAIN <<>> = {}
    OBVIOUS
  <2> QED BY <1>1, <1>2, <2>1 DEF Keeps
<1>4. ASSUME NEW k \in 1..N, k - 1 \in B PROVE k \in B
  <2>1. /\ k \in 0..N /\ From(g[k - 1]) /\ g[k - 1] \in Seq(AnyPiece) /\ k \in DOMAIN s
        /\ s[k] \in AnyPiece
        /\ g[k] = IF s[k].kind \in K THEN Append(g[k - 1], s[k]) ELSE g[k - 1]
    BY <1>1, <1>2, <1>4 DEF Keeps
  <2>2. CASE s[k].kind \in K
    <3> DEFINE x == g[k - 1]
               y == Append(x, s[k])
    <3>1. \A i \in DOMAIN y : y[i] = s[k] \/ (i \in DOMAIN x /\ y[i] = x[i])
      BY <2>1
    <3> HIDE DEF y, x
    <3>2. From(x)
      BY <2>1 DEF x
    <3>3. From(y)
      BY <2>1, <2>2, <3>1, <3>2
    <3>4. g[k] = y
      BY <2>1, <2>2 DEF x, y
    <3> QED BY <2>1, <3>3, <3>4
  <2>3. CASE s[k].kind \notin K
    BY <2>1, <2>3
  <2> QED BY <2>2, <2>3
<1> HIDE DEF B
<1>5. \A k \in 0..N : k \in B
  BY <1>2, <1>3, <1>4, Climbs
<1>6. N \in 0..N
  BY <1>2
<1>7. g[N] \in Seq(AnyPiece) /\ N \in B
  BY <1>5, <1>6
<1> QED BY <1>1, <1>7 DEF B

(* What holds of no piece, and of one piece more, holds of any sequence. *)
LEMMA Grown ==
    ASSUME NEW S, NEW B, <<>> \in B,
           \A s \in Seq(S), p \in S : s \in B => Append(s, p) \in B
    PROVE  \A s \in Seq(S) : s \in B
<1> SUFFICES ASSUME NEW s \in Seq(S) PROVE s \in B
  OBVIOUS
<1> DEFINE N == Len(s)
           C == {k \in 0..N : SubSeq(s, 1, k) \in B}
<1>1. 0 \in C /\ N \in Nat
  <2>1. SubSeq(s, 1, 0) = <<>>
    OBVIOUS
  <2>2. N \in Nat /\ 0 \in 0..N
    OBVIOUS
  <2>3. SubSeq(s, 1, 0) \in B
    BY ONLY <2>1, <<>> \in B
  <2> QED BY <2>2, <2>3
<1>2. ASSUME NEW k \in 1..N, k - 1 \in C PROVE k \in C
  <2> DEFINE t == SubSeq(s, 1, k - 1)
  <2>1. t \in Seq(S) /\ s[k] \in S /\ k \in 0..N
    OBVIOUS
  <2>2. SubSeq(s, 1, k) = Append(t, s[k])
    OBVIOUS
  <2>3. t \in B
    BY <1>2
  <2> HIDE DEF t
  <2> QED BY <2>1, <2>2, <2>3
<1>3. SubSeq(s, 1, N) = s /\ N \in 0..N
  OBVIOUS
<1> HIDE DEF C, N
<1>4. \A k \in 0..N : k \in C
  BY <1>1, <1>2, Climbs
<1> QED BY <1>3, <1>4 DEF C

LEMMA JoinsGrow ==
    ASSUME NEW a \in Seq(AnyPiece), NEW b \in Seq(AnyPiece), NEW p \in AnyPiece
    PROVE  /\ a \o Append(b, p) = Append(a \o b, p) /\ a \o b \in Seq(AnyPiece)
           /\ a \o <<>> = a /\ Append(b, p) \in Seq(AnyPiece)
OBVIOUS

(* What is kept of two sequences, one behind the other. *)
LEMMA OnlyJoin ==
    ASSUME NEW a \in Seq(AnyPiece), NEW K
    PROVE  \A b \in Seq(AnyPiece) : Only(a \o b, K) = Only(a, K) \o Only(b, K)
<1> DEFINE B == {b \in Seq(AnyPiece) : Only(a \o b, K) = Only(a, K) \o Only(b, K)}
<1>1. <<>> \in B
  <2>1. <<>> \in Seq(AnyPiece) /\ a \o <<>> = a /\ Only(a, K) \in Seq(AnyPiece) /\ Only(<<>>, K) = <<>>
    BY OnlyOfNone, OnlyTyped
  <2>2. Only(a, K) \o <<>> = Only(a, K)
    BY <2>1
  <2> QED BY <2>1, <2>2
<1>2. ASSUME NEW b \in Seq(AnyPiece), NEW p \in AnyPiece, b \in B PROVE Append(b, p) \in B
  <2> DEFINE x == Only(a, K)
             y == Only(b, K)
  <2>1. x \in Seq(AnyPiece) /\ y \in Seq(AnyPiece)
    BY OnlyTyped
  <2>2. a \o Append(b, p) = Append(a \o b, p) /\ a \o b \in Seq(AnyPiece) /\ Append(b, p) \in Seq(AnyPiece)
    BY JoinsGrow
  <2>3. Only(a \o b, K) = x \o y
    BY <1>2
  <2>4. /\ Only(Append(a \o b, p), K) = IF p.kind \in K THEN Append(x \o y, p) ELSE x \o y
        /\ Only(Append(b, p), K) = IF p.kind \in K THEN Append(y, p) ELSE y
    BY <2>2, <2>3, OnlyAppend
  <2> HIDE DEF x, y
  <2>5. x \o Append(y, p) = Append(x \o y, p)
    BY <2>1, JoinsGrow
  <2>6. Only(a \o Append(b, p), K) = x \o Only(Append(b, p), K)
    BY <2>2, <2>4, <2>5
  <2> QED BY <2>2, <2>6 DEF x
<1> HIDE DEF B
<1>3. \A b \in Seq(AnyPiece) : b \in B
  BY <1>1, <1>2, Grown
<1> QED BY <1>3 DEF B

(* Of pieces that are all wanted, all are kept; of those that none is, none. *)
AllOf(s, K) == \A i \in DOMAIN s : s[i].kind \in K

LEMMA AllGrow ==
    ASSUME NEW s \in Seq(AnyPiece), NEW p \in AnyPiece, NEW K
    PROVE  AllOf(Append(s, p), K) <=> AllOf(s, K) /\ p.kind \in K
<1> DEFINE t == Append(s, p)
<1>1. /\ \A i \in DOMAIN s : i \in DOMAIN t /\ t[i] = s[i]
      /\ \A i \in DOMAIN t : t[i] = p \/ (i \in DOMAIN s /\ t[i] = s[i])
      /\ \E i \in DOMAIN t : t[i] = p
  <2>1. /\ DOMAIN t = 1..(Len(s) + 1) /\ DOMAIN s = 1..Len(s) /\ Len(s) \in Nat
        /\ t[Len(s) + 1] = p /\ \A i \in 1..Len(s) : t[i] = s[i]
    OBVIOUS
  <2> HIDE DEF t
  <2>2. \A i \in 1..(Len(s) + 1) : i = Len(s) + 1 \/ i \in 1..Len(s)
    BY <2>1
  <2>3. Len(s) + 1 \in 1..(Len(s) + 1) /\ \A i \in 1..Len(s) : i \in 1..(Len(s) + 1)
    BY <2>1
  <2> QED BY <2>1, <2>2, <2>3
<1> HIDE DEF t
<1>2. AllOf(t, K) <=> AllOf(s, K) /\ p.kind \in K
  BY <1>1 DEF AllOf
<1> QED BY <1>2 DEF t

LEMMA OnlyAll ==
    ASSUME NEW K
    PROVE  \A s \in Seq(AnyPiece) : AllOf(s, K) => Only(s, K) = s
<1> DEFINE B == {s \in Seq(AnyPiece) : AllOf(s, K) => Only(s, K) = s}
<1>1. <<>> \in B
  BY OnlyOfNone
<1>2. ASSUME NEW s \in Seq(AnyPiece), NEW p \in AnyPiece, s \in B PROVE Append(s, p) \in B
  BY <1>2, AllGrow, OnlyAppend, JoinsGrow
<1> HIDE DEF B
<1>3. \A b \in Seq(AnyPiece) : b \in B
  BY <1>1, <1>2, Grown
<1> QED BY <1>3 DEF B

LEMMA OnlyNone ==
    ASSUME NEW K, NEW L, K \intersect L = {}
    PROVE  \A s \in Seq(AnyPiece) : AllOf(s, L) => Only(s, K) = <<>>
<1> DEFINE B == {s \in Seq(AnyPiece) : AllOf(s, L) => Only(s, K) = <<>>}
<1>1. <<>> \in B
  BY OnlyOfNone
<1>2. ASSUME NEW s \in Seq(AnyPiece), NEW p \in AnyPiece, s \in B PROVE Append(s, p) \in B
  BY <1>2, AllGrow, OnlyAppend, JoinsGrow
<1> HIDE DEF B
<1>3. \A b \in Seq(AnyPiece) : b \in B
  BY <1>1, <1>2, Grown
<1> QED BY <1>3 DEF B

LEMMA OnlyOnly ==
    ASSUME NEW K, NEW L
    PROVE  \A s \in Seq(AnyPiece) : Only(Only(s, K), L) = Only(s, K \intersect L)
<1> DEFINE B == {s \in Seq(AnyPiece) : Only(Only(s, K), L) = Only(s, K \intersect L)}
<1>1. <<>> \in B
  BY OnlyOfNone
<1>2. ASSUME NEW s \in Seq(AnyPiece), NEW p \in AnyPiece, s \in B PROVE Append(s, p) \in B
  <2> DEFINE x == Only(s, K)
             y == Only(s, K \intersect L)
             t == Append(s, p)
  <2>1. x \in Seq(AnyPiece) /\ t \in Seq(AnyPiece) /\ Only(x, L) = y
    BY <1>2, OnlyTyped, JoinsGrow
  <2>2. /\ Only(t, K) = IF p.kind \in K THEN Append(x, p) ELSE x
        /\ Only(t, K \intersect L) = IF p.kind \in K \intersect L THEN Append(y, p) ELSE y
    BY OnlyAppend
  <2> HIDE DEF x, y, t
  <2>3. Only(Append(x, p), L) = IF p.kind \in L THEN Append(y, p) ELSE y
    BY <2>1, OnlyAppend
  <2>4. Only(Only(t, K), L) = Only(t, K \intersect L)
    <3>1. CASE p.kind \in K
      <4>1. p.kind \in K \intersect L <=> p.kind \in L
        BY <3>1
      <4>2. Only(t, K) = Append(x, p)
        BY <2>2, <3>1
      <4>3. Only(t, K \intersect L) = IF p.kind \in L THEN Append(y, p) ELSE y
        BY <2>2, <4>1
      <4> QED BY <4>2, <4>3, <2>3
    <3>2. CASE p.kind \notin K
      <4>1. Only(t, K) = x /\ Only(t, K \intersect L) = y
        BY <2>2, <3>2
      <4> QED BY <4>1, <2>1
    <3> QED BY <3>1, <3>2
  <2> QED BY <2>1, <2>4 DEF t
<1> HIDE DEF B
<1>3. \A b \in Seq(AnyPiece) : b \in B
  BY <1>1, <1>2, Grown
<1> QED BY <1>3 DEF B

-----------------------------------------------------------------------------
(* One item of the history converted: what becomes of the contents.         *)

Content == [role : {"user", "model"}, parts : Seq(AnyPiece)]
Turn == {a \in [contents : Seq(Content), sig : Signatures \union {NoSig}, open : BOOLEAN,
                called : SUBSET Nat, answered : SUBSET Nat, ok : BOOLEAN] :
            a.open => a.contents # <<>>}
FlatOf(a) == Parts(a.contents)

LEMMA TurnIs ==
    ASSUME NEW a \in Turn
    PROVE  /\ a.contents \in Seq(Content) /\ a.sig \in Signatures \union {NoSig}
           /\ a.open \in BOOLEAN /\ a.called \in SUBSET Nat /\ a.answered \in SUBSET Nat
           /\ a.ok \in BOOLEAN /\ (a.open => a.contents # <<>>)
BY DEF Turn

LEMMA ContentParts ==
    ASSUME NEW ms \in Seq(Content)
    PROVE  Parts(ms) \in Seq(AnyPiece)
<1>1. Len(ms) \in Nat /\ \A k \in 1..Len(ms) : ms[k] \in Content
  OBVIOUS
<1>2. \A c \in Content : c.parts \in Seq(AnyPiece)
  BY DEF Content
<1> QED BY <1>1, <1>2, PartsTyped

LEMMA ContentsGrow ==
    ASSUME NEW ms \in Seq(Content), NEW c \in Content
    PROVE  /\ Append(ms, c) \in Seq(Content) /\ Append(ms, c) # <<>>
           /\ Parts(Append(ms, c)) = Parts(ms) \o c.parts
<1>1. Append(ms, c) \in Seq(Content) /\ Len(Append(ms, c)) = Len(ms) + 1 /\ Len(ms) \in Nat
  OBVIOUS
<1>2. Append(ms, c) # <<>>
  <2>1. Len(ms) + 1 # 0 /\ Len(<<>>) = 0
    BY <1>1
  <2> QED BY <1>1, <2>1
<1> QED BY <1>1, <1>2, PartsAppend

LEMMA ContentGrows ==
    ASSUME NEW c \in Content, NEW x \in Seq(AnyPiece)
    PROVE  [c EXCEPT !.parts = x] \in Content /\ [c EXCEPT !.parts = x].parts = x /\ c.parts \in Seq(AnyPiece)
BY DEF Content

LEMMA FlatTyped ==
    ASSUME NEW a \in Turn
    PROVE  FlatOf(a) \in Seq(AnyPiece)
<1>1. a.contents \in Seq(Content)
  BY TurnIs
<1> QED BY <1>1, ContentParts DEF FlatOf

LEMMA FrontIs ==
    ASSUME NEW T, NEW s \in Seq(T), NEW k \in 0..Len(s)
    PROVE  /\ SubSeq(s, 1, k) \in Seq(T) /\ Len(SubSeq(s, 1, k)) = k
           /\ \A i \in 1..k : SubSeq(s, 1, k)[i] = s[i]
OBVIOUS

LEMMA LastApart ==
    ASSUME NEW T, NEW s \in Seq(T), s # <<>>
    PROVE  LET n == Len(s)
               front == SubSeq(s, 1, n - 1)
           IN /\ n \in Nat /\ n >= 1 /\ front \in Seq(T) /\ s[n] \in T
              /\ s = Append(front, s[n])
              /\ \A x \in T : [s EXCEPT ![n] = x] = Append(front, x)
<1> DEFINE n == Len(s)
           front == SubSeq(s, 1, n - 1)
<1>1. n \in Nat /\ n >= 1
  OBVIOUS
<1>2. /\ front \in Seq(T) /\ Len(front) = n - 1 /\ s[n] \in T
      /\ \A k \in 1..(n - 1) : front[k] = s[k]
  <2>1. s[n] \in T
    BY <1>1
  <2>2. n - 1 \in 0..n
    BY <1>1
  <2> QED BY <2>1, <2>2, FrontIs
<1>3. s = Append(front, s[n])
  BY <1>1, <1>2
<1>4. ASSUME NEW x \in T PROVE [s EXCEPT ![n] = x] = Append(front, x)
  <2> DEFINE u == [s EXCEPT ![n] = x]
             v == Append(front, x)
  <2>1. /\ u \in Seq(T) /\ Len(u) = n /\ u[n] = x
        /\ \A k \in 1..(n - 1) : u[k] = s[k]
    BY <1>1
  <2>2. /\ v \in Seq(T) /\ Len(v) = n /\ v[n] = x
        /\ \A k \in 1..(n - 1) : v[k] = s[k]
    BY <1>1, <1>2
  <2> HIDE DEF u, v
  <2>3. \A k \in 1..n : u[k] = v[k]
    <3> SUFFICES ASSUME NEW k \in 1..n PROVE u[k] = v[k]
      OBVIOUS
    <3>1. k = n \/ k \in 1..(n - 1)
      BY <1>1
    <3> QED BY <3>1, <2>1, <2>2
  <2>4. u = v
    <3> HIDE DEF n
    <3> QED BY <2>1, <2>2, <2>3
  <2> QED BY <2>4 DEF u, v
<1> QED BY <1>1, <1>2, <1>3, <1>4

LEMMA OnePiece ==
    ASSUME NEW s \in Seq(AnyPiece), NEW p \in AnyPiece
    PROVE  s \o <<p>> = Append(s, p) /\ <<p>> \in Seq(AnyPiece) /\ Append(s, p) \in Seq(AnyPiece)
OBVIOUS

LEMMA AsModelIs ==
    ASSUME NEW a \in Turn, NEW p \in AnyPiece
    PROVE  LET b == AsModel(a, p)
           IN /\ b \in Turn /\ b.sig = a.sig /\ b.called = a.called
              /\ b.answered = a.answered /\ b.ok = a.ok /\ b.open = TRUE
              /\ FlatOf(b) = Append(FlatOf(a), p)
<1>0. a.contents \in Seq(Content) /\ (a.open => a.contents # <<>>) /\ a.open \in BOOLEAN
  BY TurnIs
<1>1. CASE a.open
  <2> DEFINE s == a.contents
             n == Len(s)
             front == SubSeq(s, 1, n - 1)
             c == s[n]
             c2 == [c EXCEPT !.parts = Append(c.parts, p)]
             b == AsModel(a, p)
  <2>1. /\ front \in Seq(Content) /\ c \in Content /\ s = Append(front, c)
        /\ \A x \in Content : [s EXCEPT ![n] = x] = Append(front, x)
    BY <1>0, <1>1, LastApart
  <2>2. b = [a EXCEPT !.contents = [s EXCEPT ![n] = c2]]
    BY <1>1 DEF AsModel
  <2> HIDE DEF c, front
  <2>3. c2 \in Content /\ c2.parts = Append(c.parts, p) /\ c.parts \in Seq(AnyPiece)
    <3>1. c.parts \in Seq(AnyPiece)
      BY <2>1 DEF Content
    <3>2. Append(c.parts, p) \in Seq(AnyPiece)
      BY <3>1, OnePiece
    <3> QED BY <3>1, <3>2, <2>1, ContentGrows
  <2> HIDE DEF c2
  <2>5. b = [a EXCEPT !.contents = Append(front, c2)]
    BY <2>1, <2>2, <2>3
  <2>6. Append(front, c2) \in Seq(Content) /\ Append(front, c2) # <<>>
    BY <2>1, <2>3, ContentsGrow
  <2>7. /\ b \in Turn /\ b.sig = a.sig /\ b.called = a.called
        /\ b.answered = a.answered /\ b.ok = a.ok /\ b.open = TRUE
        /\ b.contents = Append(front, c2)
    BY <1>1, <2>5, <2>6 DEF Turn
  <2> HIDE DEF b
  <2>8. Parts(Append(front, c)) = Parts(front) \o c.parts /\ Parts(Append(front, c2)) = Parts(front) \o c2.parts
    BY <2>1, <2>3, ContentsGrow
  <2>9. Parts(front) \in Seq(AnyPiece)
    BY <2>1, ContentParts
  <2>11. Parts(front) \o Append(c.parts, p) = Append(Parts(front) \o c.parts, p)
    BY <2>3, <2>9, JoinsGrow
  <2>12. FlatOf(a) = Parts(front) \o c.parts
    BY <2>1, <2>8 DEF FlatOf
  <2>13. FlatOf(b) = Append(FlatOf(a), p)
    BY <2>3, <2>7, <2>8, <2>11, <2>12 DEF FlatOf
  <2> QED BY <2>7, <2>13 DEF b
<1>2. CASE ~a.open
  <2> DEFINE c == [role |-> "model", parts |-> <<p>>]
             b == AsModel(a, p)
  <2>1. c \in Content /\ c.parts = <<p>>
    BY OnePiece, <<>> \in Seq(AnyPiece) DEF Content
  <2>2. b = [a EXCEPT !.contents = Append(a.contents, c), !.open = TRUE]
    BY <1>2 DEF AsModel
  <2> HIDE DEF c
  <2>3. /\ Append(a.contents, c) \in Seq(Content) /\ Append(a.contents, c) # <<>>
        /\ Parts(Append(a.contents, c)) = Parts(a.contents) \o <<p>>
    BY <1>0, <2>1, ContentsGrow
  <2>4. /\ b \in Turn /\ b.sig = a.sig /\ b.called = a.called
        /\ b.answered = a.answered /\ b.ok = a.ok /\ b.open = TRUE
        /\ b.contents = Append(a.contents, c)
    BY <2>2, <2>3 DEF Turn
  <2> HIDE DEF b
  <2>6. FlatOf(b) = Append(FlatOf(a), p)
    BY <2>3, <2>4, FlatTyped, OnePiece DEF FlatOf
  <2> QED BY <2>4, <2>6 DEF b
<1> QED BY <1>0, <1>1, <1>2

LEMMA AsUserIs ==
    ASSUME NEW a \in Turn, NEW p \in AnyPiece
    PROVE  LET b == AsUser(a, p)
           IN /\ b \in Turn /\ b.sig = a.sig /\ b.called = a.called
              /\ b.answered = a.answered /\ b.ok = a.ok /\ b.open = FALSE
              /\ FlatOf(b) = Append(FlatOf(a), p)
<1>0. a.contents \in Seq(Content)
  BY TurnIs
<1> DEFINE c == [role |-> "user", parts |-> <<p>>]
           b == AsUser(a, p)
<1>1. c \in Content /\ c.parts = <<p>>
  BY OnePiece, <<>> \in Seq(AnyPiece) DEF Content
<1>2. b = [a EXCEPT !.contents = Append(a.contents, c), !.open = FALSE]
  BY DEF AsUser
<1> HIDE DEF c
<1>3. /\ Append(a.contents, c) \in Seq(Content)
      /\ Parts(Append(a.contents, c)) = Parts(a.contents) \o <<p>>
  BY <1>0, <1>1, ContentsGrow
<1>4. /\ b \in Turn /\ b.sig = a.sig /\ b.called = a.called
      /\ b.answered = a.answered /\ b.ok = a.ok /\ b.open = FALSE
      /\ b.contents = Append(a.contents, c)
  BY <1>2, <1>3 DEF Turn
<1> HIDE DEF b
<1>6. FlatOf(b) = Append(FlatOf(a), p)
  BY <1>3, <1>4, FlatTyped, OnePiece DEF FlatOf
<1> QED BY <1>4, <1>6 DEF b

LEMMA TakesThought ==
    ASSUME NEW a \in Turn, NEW p \in AnyPiece, a.ok, p.kind \in {"envelope", "thought"}
    PROVE  LET b == ConvertItem(a, p)
           IN /\ b \in Turn /\ b.ok = TRUE /\ b.called = a.called /\ b.answered = a.answered
              /\ b.sig = (IF p.sig # NoSig THEN p.sig ELSE a.sig) /\ FlatOf(b) = FlatOf(a)
<1> DEFINE x == IF p.sig # NoSig THEN p.sig ELSE a.sig
           b == [a EXCEPT !.sig = x, !.open = FALSE]
<1>1. ConvertItem(a, p) = b
  BY DEF ConvertItem
<1>2. x \in Signatures \union {NoSig}
  BY TurnIs DEF AnyPiece
<1> HIDE DEF x
<1>3. b \in Turn /\ b.ok = TRUE /\ b.called = a.called /\ b.answered = a.answered /\ b.sig = x
      /\ b.contents = a.contents
  BY <1>2 DEF Turn
<1> HIDE DEF b
<1> QED BY <1>1, <1>3 DEF x, FlatOf

LEMMA TakesWords ==
    ASSUME NEW a \in Turn, NEW p \in AnyPiece, a.ok, p.kind = "message"
    PROVE  LET b == ConvertItem(a, p)
           IN /\ b \in Turn /\ b.ok = TRUE /\ b.called = a.called /\ b.answered = a.answered
              /\ b.sig = a.sig /\ FlatOf(b) = Append(FlatOf(a), p)
<1>1. ConvertItem(a, p) = AsModel(a, p)
  BY DEF ConvertItem
<1> QED BY <1>1, AsModelIs, ZenonT(40)

LEMMA TakesCall ==
    ASSUME NEW a \in Turn, NEW p \in AnyPiece, a.ok, p.kind \in CallKinds, p.n \notin a.called
    PROVE  LET b == ConvertItem(a, p)
           IN /\ b \in Turn /\ b.ok = TRUE /\ b.called = a.called \union {p.n}
              /\ b.answered = a.answered /\ b.sig = NoSig
              /\ FlatOf(b) = Append(FlatOf(a), Piece(p.kind, p.n, a.sig))
<1> DEFINE q == Piece(p.kind, p.n, a.sig)
           m == AsModel(a, q)
           b == [m EXCEPT !.called = @ \union {p.n}, !.sig = NoSig]
<1>1. ConvertItem(a, p) = b
  BY DEF ConvertItem, ConvertCall, CallKinds
<1>2. q \in AnyPiece /\ p.n \in Nat
  BY TurnIs DEF AnyPiece, Piece
<1> HIDE DEF q
<1>3. /\ m \in Turn /\ m.called = a.called /\ m.answered = a.answered /\ m.ok = a.ok
      /\ FlatOf(m) = Append(FlatOf(a), q)
  BY <1>2, AsModelIs
<1> HIDE DEF m
<1>4. /\ b \in Turn /\ b.ok = TRUE /\ b.called = a.called \union {p.n}
      /\ b.answered = a.answered /\ b.sig = NoSig /\ b.contents = m.contents
  BY <1>2, <1>3 DEF Turn
<1> HIDE DEF b
<1> QED BY <1>1, <1>3, <1>4 DEF FlatOf, q

LEMMA TakesOutput ==
    ASSUME NEW a \in Turn, NEW p \in AnyPiece, a.ok, p.kind = "output",
           p.n \in a.called, p.n \notin a.answered
    PROVE  LET b == ConvertItem(a, p)
           IN /\ b \in Turn /\ b.ok = TRUE /\ b.called = a.called
              /\ b.answered = a.answered \union {p.n} /\ b.sig = a.sig
              /\ FlatOf(b) = Append(FlatOf(a), p)
<1> DEFINE m == AsUser(a, p)
           b == [m EXCEPT !.answered = @ \union {p.n}]
<1>1. ConvertItem(a, p) = b
  BY DEF ConvertItem, ConvertOutput
<1>2. p.n \in Nat
  BY DEF AnyPiece
<1>3. /\ m \in Turn /\ m.called = a.called /\ m.answered = a.answered /\ m.ok = a.ok
      /\ m.sig = a.sig /\ FlatOf(m) = Append(FlatOf(a), p)
  BY AsUserIs
<1> HIDE DEF m
<1>4. /\ b \in Turn /\ b.ok = TRUE /\ b.called = a.called
      /\ b.answered = a.answered \union {p.n} /\ b.sig = a.sig /\ b.contents = m.contents
  BY <1>2, <1>3 DEF Turn
<1> HIDE DEF b
<1> QED BY <1>1, <1>3, <1>4 DEF FlatOf

LEMMA TakesAny ==
    ASSUME NEW a \in Turn, NEW p \in AnyPiece
    PROVE  ConvertItem(a, p) \in Turn
<1>0. [a EXCEPT !.ok = FALSE] \in Turn /\ a.ok \in BOOLEAN
  BY DEF Turn
<1>1. CASE ~a.ok
  BY <1>1 DEF ConvertItem
<1>2. CASE a.ok /\ p.kind \in {"envelope", "thought"}
  BY <1>2, TakesThought
<1>3. CASE a.ok /\ p.kind = "message"
  BY <1>3, TakesWords
<1>4. CASE a.ok /\ p.kind \in CallKinds
  <2>1. CASE p.n \notin a.called
    BY <1>4, <2>1, TakesCall
  <2>2. CASE p.n \in a.called
    <3>1. ConvertItem(a, p) = [a EXCEPT !.ok = FALSE]
      BY <1>4, <2>2 DEF ConvertItem, ConvertCall, CallKinds
    <3> QED BY <3>1, <1>0
  <2> QED BY <2>1, <2>2
<1>5. CASE a.ok /\ p.kind = "output"
  <2>1. CASE p.n \in a.called /\ p.n \notin a.answered
    BY <1>5, <2>1, TakesOutput
  <2>2. CASE ~(p.n \in a.called /\ p.n \notin a.answered)
    <3>1. ConvertItem(a, p) = [a EXCEPT !.ok = FALSE]
      BY <1>5, <2>2 DEF ConvertItem, ConvertOutput
    <3> QED BY <3>1, <1>0
  <2> QED BY <2>1, <2>2
<1>6. CASE a.ok /\ p.kind \notin {"envelope", "thought", "message", "output"} \union CallKinds
  BY <1>6, <1>0 DEF ConvertItem, CallKinds
<1> QED BY <1>0, <1>1, <1>2, <1>3, <1>4, <1>5, <1>6

(* The conversion of the whole history, one item after the other. *)
Starting == AsUser(Nothing, Word("message"))
Converts(g, items, N) == g[0] = Starting /\ \A k \in 1..N : g[k] = ConvertItem(g[k - 1], items[k])

LEMMA StartsTyped ==
    /\ Starting \in Turn /\ Starting.ok = TRUE /\ Starting.called = {} /\ Starting.answered = {}
    /\ Starting.sig = NoSig /\ FlatOf(Starting) = <<Word("message")>>
<1>1. Nothing \in Turn /\ Nothing.ok = TRUE /\ Nothing.called = {} /\ Nothing.answered = {}
      /\ Nothing.sig = NoSig /\ Nothing.contents = <<>>
  BY DEF Turn, Nothing
<1>2. Word("message") \in AnyPiece
  BY DEF Word, Piece, AnyPiece, AgyKinds
<1>3. FlatOf(Nothing) = <<>>
  BY <1>1, PartsOfNone DEF FlatOf
<1>4. Append(<<>>, Word("message")) = <<Word("message")>>
  OBVIOUS
<1> HIDE DEF Nothing
<1> QED BY <1>1, <1>2, <1>3, <1>4, AsUserIs DEF Starting

LEMMA ConvertedIs ==
    ASSUME NEW items \in Seq(AnyPiece)
    PROVE  \E g \in [0..Len(items) -> Turn] : Converts(g, items, Len(items)) /\ Converted(items) = g[Len(items)]
<1> DEFINE N == Len(items)
           F == [k \in 1..N |-> [x \in Turn |-> ConvertItem(x, items[k])]]
           Is(g) == g = [k \in 0..N |-> IF k = 0 THEN AsUser(Nothing, Word("message"))
                            ELSE ConvertItem(g[k - 1], items[k])]
           done == CHOOSE g : Is(g)
<1>1. N \in Nat /\ \A i \in 1..N : items[i] \in AnyPiece
  OBVIOUS
<1>2. F \in [1..N -> [Turn -> Turn]]
  <2>1. \A k \in 1..N : \A x \in Turn : ConvertItem(x, items[k]) \in Turn
    BY <1>1, TakesAny
  <2> HIDE DEF N
  <2> QED BY <2>1
<1>3. PICK g \in [0..N -> Turn] : Stepwise(g, N, Starting, F)
  <2> HIDE DEF F, N
  <2> QED BY <1>1, <1>2, StartsTyped, StepsExist
<1>4. ASSUME NEW k \in 1..N
      PROVE  k \in 0..N /\ k # 0 /\ g[k - 1] \in Turn /\ g[k] = ConvertItem(g[k - 1], items[k])
  <2>1. g[k] = F[k][g[k - 1]]
    BY <1>3 DEF Stepwise
  <2>2. k \in 0..N /\ k # 0 /\ k - 1 \in 0..N
    BY <1>1
  <2>3. g[k - 1] \in Turn
    BY <2>2
  <2> HIDE DEF N
  <2> QED BY <2>1, <2>2, <2>3
<1>5. Is(g)
  <2>1. g[0] = AsUser(Nothing, Word("message"))
    BY <1>3 DEF Stepwise, Starting
  <2> HIDE DEF F
  <2>2. \A k \in 0..N : g[k] = IF k = 0 THEN AsUser(Nothing, Word("message"))
                           ELSE ConvertItem(g[k - 1], items[k])
    <3> SUFFICES ASSUME NEW k \in 0..N
                 PROVE  g[k] = IF k = 0 THEN AsUser(Nothing, Word("message"))
                           ELSE ConvertItem(g[k - 1], items[k])
      OBVIOUS
    <3>1. k = 0 \/ k \in 1..N
      BY <1>1
    <3> QED BY <3>1, <2>1, <1>4
  <2> HIDE DEF N
  <2> QED BY <2>2
<1>6. Is(done)
  <2> HIDE DEF Is
  <2> QED BY <1>5
<1>7. Converted(items) = done[N]
  BY DEF Converted
<1> HIDE DEF done
<1>8. done = [k \in 0..N |-> done[k]] /\ \A k \in 0..N : done[k] = IF k = 0 THEN Starting
                           ELSE ConvertItem(done[k - 1], items[k])
  BY <1>6 DEF Starting
<1>9. done[0] = Starting /\ \A k \in 1..N : k \in 0..N /\ done[k] = ConvertItem(done[k - 1], items[k])
  <2>1. 0 \in 0..N /\ \A k \in 1..N : k \in 0..N /\ k # 0
    BY <1>1
  <2> HIDE DEF N
  <2> QED BY <2>1, <1>8
<1>10. Converts(done, items, N)
  BY <1>9 DEF Converts
<1> DEFINE B == {k \in 0..N : done[k] \in Turn}
<1>11. 0 \in B
  BY <1>1, <1>9, StartsTyped
<1>12. ASSUME NEW k \in 1..N, k - 1 \in B PROVE k \in B
  <2>1. done[k - 1] \in Turn /\ items[k] \in AnyPiece /\ k \in 0..N
    BY <1>1, <1>9, <1>12
  <2>2. ConvertItem(done[k - 1], items[k]) \in Turn
    BY <2>1, TakesAny
  <2> QED BY <2>1, <2>2, <1>9
<1> HIDE DEF B
<1>13. \A k \in 0..N : k \in B
  BY <1>1, <1>11, <1>12, Climbs
<1>14. done \in [0..N -> Turn]
  <2> HIDE DEF N
  <2> QED BY <1>8, <1>13 DEF B
<1> QED BY <1>7, <1>10, <1>14

-----------------------------------------------------------------------------
(* The turn itself: everything before the results.                          *)

HeadKinds == {"message", "thought", "envelope", "function", "custom"}
CallsOf(s) == Only(s, CallKinds)
NumbersOf(s) == {s[i].n : i \in DOMAIN s}
SameCalls(x, y) == Len(x) = Len(y) /\ \A i \in DOMAIN x : x[i].n = y[i].n /\ x[i].kind = y[i].kind
Taken(a, pre) ==
    /\ a \in Turn /\ a.ok = TRUE /\ a.answered = {} /\ a.called = NumbersOf(CallsOf(pre))
    /\ SameCalls(CallsOf(FlatOf(a)), CallsOf(pre))

LEMMA AppendIs ==
    ASSUME NEW s \in Seq(AnyPiece), NEW p \in AnyPiece
    PROVE  /\ Append(s, p) \in Seq(AnyPiece) /\ Len(s) \in Nat /\ DOMAIN s = 1..Len(s)
           /\ Len(Append(s, p)) = Len(s) + 1 /\ DOMAIN Append(s, p) = 1..(Len(s) + 1)
           /\ Append(s, p)[Len(s) + 1] = p /\ \A i \in 1..Len(s) : Append(s, p)[i] = s[i]
OBVIOUS

LEMMA NumbersGrow ==
    ASSUME NEW s \in Seq(AnyPiece), NEW p \in AnyPiece
    PROVE  NumbersOf(Append(s, p)) = NumbersOf(s) \union {p.n}
<1> DEFINE t == Append(s, p)
           L == Len(s)
<1>1. /\ L \in Nat /\ DOMAIN s = 1..L /\ DOMAIN t = 1..(L + 1)
      /\ t[L + 1] = p /\ \A i \in 1..L : t[i] = s[i]
  BY AppendIs
<1> HIDE DEF t, L
<1>2. \A i \in 1..(L + 1) : i = L + 1 \/ i \in 1..L
  BY <1>1
<1>3. L + 1 \in 1..(L + 1) /\ \A i \in 1..L : i \in 1..(L + 1)
  BY <1>1
<1>4. NumbersOf(t) = NumbersOf(s) \union {p.n}
  BY <1>1, <1>2, <1>3 DEF NumbersOf
<1> QED BY <1>4 DEF t

LEMMA SameGrow ==
    ASSUME NEW x \in Seq(AnyPiece), NEW y \in Seq(AnyPiece), SameCalls(x, y),
           NEW p \in AnyPiece, NEW q \in AnyPiece, p.n = q.n, p.kind = q.kind
    PROVE  SameCalls(Append(x, p), Append(y, q))
<1> DEFINE u == Append(x, p)
           v == Append(y, q)
           L == Len(x)
<1>1. /\ L \in Nat /\ DOMAIN x = 1..L /\ DOMAIN u = 1..(L + 1) /\ Len(u) = L + 1
      /\ u[L + 1] = p /\ \A i \in 1..L : u[i] = x[i]
  BY AppendIs
<1>2. Len(y) = L
  BY DEF SameCalls
<1>3. Len(v) = L + 1 /\ v[L + 1] = q /\ \A i \in 1..L : v[i] = y[i]
  BY <1>2, AppendIs
<1> HIDE DEF u, v, L
<1>4. \A i \in 1..(L + 1) : i = L + 1 \/ i \in 1..L
  BY <1>1
<1>5. SameCalls(u, v)
  BY <1>1, <1>2, <1>3, <1>4 DEF SameCalls
<1> QED BY <1>5 DEF u, v

LEMMA TakenStays ==
    ASSUME NEW a, NEW pre \in Seq(AnyPiece), Taken(a, pre), NEW p \in AnyPiece, p.kind \notin CallKinds,
           NEW b \in Turn, b.ok = TRUE, b.called = a.called, b.answered = a.answered,
           FlatOf(b) = FlatOf(a) \/ FlatOf(b) = Append(FlatOf(a), p)
    PROVE  Taken(b, Append(pre, p))
<1>1. CallsOf(Append(pre, p)) = CallsOf(pre)
  BY OnlyAppend DEF CallsOf
<1>2. FlatOf(a) \in Seq(AnyPiece)
  BY FlatTyped DEF Taken
<1>3. CallsOf(FlatOf(b)) = CallsOf(FlatOf(a))
  <2>1. Only(Append(FlatOf(a), p), CallKinds) = Only(FlatOf(a), CallKinds)
    BY <1>2, OnlyAppend
  <2> QED BY <2>1 DEF CallsOf
<1> QED BY <1>1, <1>3 DEF Taken

LEMMA TakenGrows ==
    ASSUME NEW a, NEW pre \in Seq(AnyPiece), Taken(a, pre), NEW p \in AnyPiece, p.kind \in HeadKinds,
           p.kind \in CallKinds => p.n \notin a.called
    PROVE  Taken(ConvertItem(a, p), Append(pre, p))
<1>0. a \in Turn /\ a.ok
  BY DEF Taken
<1>1. CASE p.kind \in {"envelope", "thought"}
  <2>1. p.kind \notin CallKinds
    BY <1>1 DEF CallKinds
  <2> QED BY <1>0, <1>1, <2>1, TakesThought, TakenStays
<1>2. CASE p.kind = "message"
  <2>1. p.kind \notin CallKinds
    BY <1>2 DEF CallKinds
  <2> QED BY <1>0, <1>2, <2>1, TakesWords, TakenStays
<1>3. CASE p.kind \in CallKinds
  <2> DEFINE b == ConvertItem(a, p)
             q == Piece(p.kind, p.n, a.sig)
  <2>1. /\ b \in Turn /\ b.ok = TRUE /\ b.called = a.called \union {p.n}
        /\ b.answered = a.answered /\ FlatOf(b) = Append(FlatOf(a), q)
    BY <1>0, <1>3, TakesCall
  <2>2. q \in AnyPiece /\ q.kind = p.kind /\ q.n = p.n
    BY <1>0, TurnIs DEF Piece, AnyPiece
  <2> HIDE DEF b, q
  <2>3. FlatOf(a) \in Seq(AnyPiece) /\ CallsOf(FlatOf(a)) \in Seq(AnyPiece) /\ CallsOf(pre) \in Seq(AnyPiece)
    BY <1>0, FlatTyped, OnlyTyped DEF CallsOf
  <2>4. /\ CallsOf(Append(pre, p)) = Append(CallsOf(pre), p)
        /\ CallsOf(FlatOf(b)) = Append(CallsOf(FlatOf(a)), q)
    BY <1>3, <2>1, <2>2, <2>3, OnlyAppend DEF CallsOf
  <2>5. SameCalls(Append(CallsOf(FlatOf(a)), q), Append(CallsOf(pre), p))
    BY <2>2, <2>3, SameGrow DEF Taken
  <2>6. b.called = NumbersOf(Append(CallsOf(pre), p))
    BY <2>1, <2>3, NumbersGrow DEF Taken
  <2>7. Taken(b, Append(pre, p))
    BY <2>1, <2>4, <2>5, <2>6 DEF Taken
  <2> QED BY <2>7 DEF b
<1> QED BY <1>1, <1>2, <1>3 DEF HeadKinds, CallKinds

(* The calls of a turn have different numbers: each is a new one. *)
OneEach(calls) == \A i, j \in DOMAIN calls : calls[i].n = calls[j].n => i = j

LEMMA SplitAt ==
    ASSUME NEW T, NEW s \in Seq(T), NEW k \in 1..Len(s)
    PROVE  /\ SubSeq(s, 1, k - 1) \in Seq(T) /\ s[k] \in T /\ SubSeq(s, k + 1, Len(s)) \in Seq(T)
           /\ SubSeq(s, 1, k) = Append(SubSeq(s, 1, k - 1), s[k]) /\ SubSeq(s, 1, k) \in Seq(T)
           /\ s = SubSeq(s, 1, k) \o SubSeq(s, k + 1, Len(s))
<1>1. SubSeq(s, 1, k - 1) \in Seq(T) /\ s[k] \in T /\ SubSeq(s, k + 1, Len(s)) \in Seq(T)
  OBVIOUS
<1>2. SubSeq(s, 1, k) = Append(SubSeq(s, 1, k - 1), s[k]) /\ SubSeq(s, 1, k) \in Seq(T)
  OBVIOUS
<1>3. s = SubSeq(s, 1, k) \o SubSeq(s, k + 1, Len(s))
  OBVIOUS
<1> QED BY <1>1, <1>2, <1>3

LEMMA JoinIs ==
    ASSUME NEW a \in Seq(AnyPiece), NEW b \in Seq(AnyPiece)
    PROVE  /\ a \o b \in Seq(AnyPiece) /\ Len(a \o b) = Len(a) + Len(b)
           /\ Len(a) \in Nat /\ Len(b) \in Nat
           /\ DOMAIN a = 1..Len(a) /\ DOMAIN b = 1..Len(b) /\ DOMAIN (a \o b) = 1..(Len(a) + Len(b))
           /\ \A i \in 1..Len(a) : (a \o b)[i] = a[i]
           /\ \A i \in 1..Len(b) : (a \o b)[Len(a) + i] = b[i]
OBVIOUS

LEMMA CallIsNew ==
    ASSUME NEW head \in Seq(AnyPiece), OneEach(CallsOf(head)), NEW k \in 1..Len(head),
           head[k].kind \in CallKinds
    PROVE  head[k].n \notin NumbersOf(CallsOf(SubSeq(head, 1, k - 1)))
<1> DEFINE pre == SubSeq(head, 1, k - 1)
           to == SubSeq(head, 1, k)
           rest == SubSeq(head, k + 1, Len(head))
           p == head[k]
<1>1. pre \in Seq(AnyPiece) /\ p \in AnyPiece /\ rest \in Seq(AnyPiece) /\ to = Append(pre, p)
      /\ to \in Seq(AnyPiece) /\ head = to \o rest
  BY SplitAt
<1>0. p.kind \in CallKinds
  OBVIOUS
<1> HIDE DEF pre, to, rest, p
<1> DEFINE c == CallsOf(pre)
           d == CallsOf(rest)
           m == Len(c)
           all == CallsOf(head)
<1>2. c \in Seq(AnyPiece) /\ d \in Seq(AnyPiece)
  BY <1>1, OnlyTyped DEF CallsOf
<1> DEFINE e == Append(c, p)
<1>3. all = e \o d
  <2>1. Only(to, CallKinds) = e
    BY <1>0, <1>1, OnlyAppend DEF CallsOf
  <2>2. Only(head, CallKinds) = Only(to, CallKinds) \o Only(rest, CallKinds)
    BY <1>1, OnlyJoin
  <2> QED BY <2>1, <2>2 DEF CallsOf
<1> HIDE DEF c, d, all
<1>4. /\ m \in Nat /\ DOMAIN c = 1..m /\ e \in Seq(AnyPiece) /\ Len(e) = m + 1
      /\ e[m + 1] = p /\ \A i \in 1..m : e[i] = c[i]
  BY <1>1, <1>2, AppendIs
<1> HIDE DEF e
<1>5. /\ DOMAIN all = 1..(m + 1 + Len(d)) /\ Len(d) \in Nat
      /\ \A i \in 1..(m + 1) : all[i] = e[i]
  <2>1. /\ DOMAIN (e \o d) = 1..(Len(e) + Len(d)) /\ Len(d) \in Nat
        /\ \A i \in 1..Len(e) : (e \o d)[i] = e[i]
    BY <1>2, <1>4, JoinIs
  <2> HIDE DEF m
  <2> QED BY <1>3, <1>4, <2>1
<1> HIDE DEF m
<1>6. m + 1 \in DOMAIN all /\ m + 1 \in 1..(m + 1) /\ \A i \in 1..m : i \in DOMAIN all /\ i \in 1..(m + 1) /\ i # m + 1
  BY <1>4, <1>5
<1>7. all[m + 1] = p /\ \A i \in 1..m : all[i] = c[i]
  BY <1>4, <1>5, <1>6
<1>8. OneEach(all)
  BY DEF all
<1>9. p.n \notin NumbersOf(c)
  BY <1>4, <1>6, <1>7, <1>8 DEF NumbersOf, OneEach
<1> QED BY <1>9 DEF c, pre, p

(* The turn is read, item after item. *)
LEMMA HeadTaken ==
    ASSUME NEW head \in Seq(AnyPiece), AllOf(head, HeadKinds), OneEach(CallsOf(head)),
           NEW g, Converts(g, head, Len(head)), NEW k \in 0..Len(head)
    PROVE  Taken(g[k], SubSeq(head, 1, k))
<1> DEFINE N == Len(head)
           B == {i \in 0..N : Taken(g[i], SubSeq(head, 1, i))}
<1>1. 0 \in B
  <2>1. SubSeq(head, 1, 0) = <<>> /\ 0 \in 0..N /\ g[0] = Starting
    BY DEF Converts
  <2>2. CallsOf(<<>>) = <<>> /\ NumbersOf(<<>>) = {}
    BY OnlyOfNone DEF CallsOf, NumbersOf
  <2>3. Word("message") \in AnyPiece /\ Word("message").kind = "message" /\ <<>> \in Seq(AnyPiece)
        /\ <<Word("message")>> = Append(<<>>, Word("message"))
    BY DEF Word, Piece, AnyPiece, AgyKinds
  <2>4. CallsOf(<<Word("message")>>) = <<>>
    <3>1. Only(Append(<<>>, Word("message")), CallKinds) = Only(<<>>, CallKinds)
      BY <2>3, OnlyAppend DEF CallKinds
    <3> QED BY <3>1, <2>3, OnlyOfNone DEF CallsOf
  <2>5. SameCalls(<<>>, <<>>)
    BY DEF SameCalls
  <2>6. Taken(Starting, <<>>)
    BY <2>2, <2>4, <2>5, StartsTyped DEF Taken
  <2>7. Taken(g[0], SubSeq(head, 1, 0))
    BY <2>1, <2>6, Zenon
  <2> QED BY <2>1, <2>7
<1>2. ASSUME NEW i \in 1..N, i - 1 \in B PROVE i \in B
  <2> DEFINE pre == SubSeq(head, 1, i - 1)
             p == head[i]
  <2>1. pre \in Seq(AnyPiece) /\ p \in AnyPiece /\ SubSeq(head, 1, i) = Append(pre, p)
    BY SplitAt
  <2>2. Taken(g[i - 1], pre)
    BY <1>2
  <2>3. p.kind \in HeadKinds /\ i \in 0..N
    BY DEF AllOf
  <2>4. p.kind \in CallKinds => p.n \notin NumbersOf(CallsOf(pre))
    BY CallIsNew
  <2>5. g[i] = ConvertItem(g[i - 1], p)
    BY DEF Converts
  <2> HIDE DEF pre, p
  <2>6. Taken(ConvertItem(g[i - 1], p), Append(pre, p))
    <3>1. g[i - 1].called = NumbersOf(CallsOf(pre))
      BY <2>2 DEF Taken
    <3> QED BY <2>1, <2>2, <2>3, <2>4, <3>1, TakenGrows
  <2>7. Taken(g[i], SubSeq(head, 1, i))
    BY <2>1, <2>5, <2>6, Zenon
  <2> QED BY <2>3, <2>7
<1>3. N \in Nat /\ k \in 0..N
  OBVIOUS
<1> HIDE DEF B, N
<1>4. \A i \in 0..N : i \in B
  BY <1>1, <1>2, <1>3, Climbs
<1> QED BY <1>3, <1>4 DEF B

(* The signatures: an envelope goes with the call that follows it at once. *)
Before(head, i) == IF i > 1 /\ head[i - 1].kind = "envelope" THEN head[i - 1].sig ELSE NoSig
Signed(made, head) ==
    \A i \in 1..Len(head) :
       /\ head[i].kind = "envelope" =>
             /\ head[i].sig # NoSig /\ i + 1 \in 1..Len(head) /\ head[i + 1].kind \in CallKinds
       /\ head[i].kind = "thought" => head[i].sig = NoSig
       /\ head[i].kind \in CallKinds =>
             head[i].n \in DOMAIN made /\ made[head[i].n].sig = Before(head, i)
Carries(made, flat) == \A i \in DOMAIN flat : flat[i].kind \in CallKinds => flat[i].sig = made[flat[i].n].sig

LEMMA CarriesMore ==
    ASSUME NEW made, NEW flat \in Seq(AnyPiece), Carries(made, flat), NEW p \in AnyPiece,
           p.kind \in CallKinds => p.sig = made[p.n].sig
    PROVE  Carries(made, Append(flat, p))
<1> DEFINE t == Append(flat, p)
           L == Len(flat)
<1>1. /\ L \in Nat /\ DOMAIN flat = 1..L /\ DOMAIN t = 1..(L + 1)
      /\ t[L + 1] = p /\ \A i \in 1..L : t[i] = flat[i]
  BY AppendIs
<1> HIDE DEF t, L
<1>2. \A i \in 1..(L + 1) : i = L + 1 \/ i \in 1..L
  BY <1>1
<1>3. Carries(made, t)
  BY <1>1, <1>2 DEF Carries
<1> QED BY <1>3 DEF t

LEMMA HeadSigned ==
    ASSUME NEW head \in Seq(AnyPiece), AllOf(head, HeadKinds), OneEach(CallsOf(head)),
           NEW made, Signed(made, head), NEW g, Converts(g, head, Len(head)), NEW k \in 0..Len(head)
    PROVE  Carries(made, FlatOf(g[k])) /\ g[k].sig = Before(head, k + 1)
<1> DEFINE N == Len(head)
           P(i) == Carries(made, FlatOf(g[i])) /\ g[i].sig = Before(head, i + 1)
           B == {i \in 0..N : P(i)}
<1>0. N \in Nat /\ k \in 0..N /\ 0 \in 0..N
  OBVIOUS
<1>1. 0 \in B
  <2>1. g[0] = Starting
    BY DEF Converts
  <2>2. Before(head, 0 + 1) = NoSig
    BY DEF Before
  <2>3. Carries(made, <<Word("message")>>)
    BY DEF Carries, Word, Piece, CallKinds
  <2> HIDE DEF N
  <2> QED BY <1>0, <2>1, <2>2, <2>3, StartsTyped
<1>2. ASSUME NEW i \in 1..N, i - 1 \in B PROVE i \in B
  <2> DEFINE a == g[i - 1]
             b == g[i]
             p == head[i]
  <2>1. i \in Nat /\ i - 1 \in 0..N /\ i \in 0..N /\ i - 1 + 1 = i /\ i + 1 - 1 = i /\ i + 1 > 1
    OBVIOUS
  <2>2. Carries(made, FlatOf(a)) /\ a.sig = Before(head, i)
    BY <1>2, <2>1
  <2>3. b = ConvertItem(a, p) /\ p \in AnyPiece /\ p.kind \in HeadKinds
    BY DEF Converts, AllOf
  <2>4. a \in Turn /\ a.ok /\ a.called = NumbersOf(CallsOf(SubSeq(head, 1, i - 1)))
    BY <2>1, HeadTaken DEF Taken
  <2>5. FlatOf(a) \in Seq(AnyPiece)
    BY <2>4, FlatTyped
  <2>6. p.kind \in CallKinds => p.n \notin a.called
    BY <2>4, CallIsNew
  <2>7. Before(head, i + 1) = IF p.kind = "envelope" THEN p.sig ELSE NoSig
    BY <2>1 DEF Before
  <2>8. /\ p.kind = "envelope" => p.sig # NoSig
        /\ p.kind = "thought" => p.sig = NoSig
        /\ p.kind \in CallKinds => made[p.n].sig = Before(head, i)
    BY DEF Signed
  <2>9. p.kind \notin CallKinds => Before(head, i) = NoSig
    <3> SUFFICES ASSUME i > 1, head[i - 1].kind = "envelope" PROVE p.kind \in CallKinds
      BY DEF Before
    <3>1. i - 1 \in 1..Len(head)
      BY <2>1
    <3> QED BY <3>1, <2>1 DEF Signed
  <2> HIDE DEF a, b, p
  <2>10. CASE p.kind = "envelope"
    <3>1. FlatOf(b) = FlatOf(a) /\ b.sig = p.sig
      BY <2>3, <2>4, <2>8, <2>10, TakesThought
    <3>2. P(i)
      BY <2>2, <2>7, <2>10, <3>1 DEF b
    <3> QED BY <3>2, <2>1
  <2>11. CASE p.kind = "thought"
    <3>1. FlatOf(b) = FlatOf(a) /\ b.sig = a.sig
      BY <2>3, <2>4, <2>8, <2>11, TakesThought
    <3>2. b.sig = NoSig
      BY <2>2, <2>9, <2>11, <3>1 DEF CallKinds
    <3>3. P(i)
      BY <2>2, <2>7, <2>11, <3>1, <3>2 DEF b
    <3> QED BY <3>3, <2>1
  <2>12. CASE p.kind = "message"
    <3>1. FlatOf(b) = Append(FlatOf(a), p) /\ b.sig = a.sig
      BY <2>3, <2>4, <2>12, TakesWords
    <3>2. b.sig = NoSig /\ p.kind \notin CallKinds
      BY <2>2, <2>9, <2>12, <3>1 DEF CallKinds
    <3>3. Carries(made, FlatOf(b))
      BY <2>2, <2>3, <2>5, <3>1, <3>2, CarriesMore
    <3>4. P(i)
      BY <2>7, <2>12, <3>2, <3>3 DEF b
    <3> QED BY <3>4, <2>1
  <2>13. CASE p.kind \in CallKinds
    <3> DEFINE q == Piece(p.kind, p.n, a.sig)
    <3>1. FlatOf(b) = Append(FlatOf(a), q) /\ b.sig = NoSig
      BY <2>3, <2>4, <2>6, <2>13, TakesCall
    <3>2. q \in AnyPiece /\ q.sig = made[q.n].sig
      BY <2>2, <2>3, <2>4, <2>8, <2>13, TurnIs DEF Piece, AnyPiece
    <3> HIDE DEF q
    <3>3. Carries(made, FlatOf(b))
      BY <2>2, <2>5, <3>1, <3>2, CarriesMore
    <3>4. Before(head, i + 1) = NoSig
      BY <2>7, <2>13 DEF CallKinds
    <3>5. P(i)
      BY <3>1, <3>3, <3>4 DEF b
    <3> QED BY <3>5, <2>1
  <2> QED BY <2>3, <2>10, <2>11, <2>12, <2>13 DEF HeadKinds, CallKinds
<1> HIDE DEF B, N
<1>4. \A i \in 0..N : i \in B
  BY <1>0, <1>1, <1>2, Climbs
<1> QED BY <1>0, <1>4 DEF B

-----------------------------------------------------------------------------
(* The results behind the turn.                                             *)

Begins(x, y) == Len(x) <= Len(y) /\ \A i \in 1..Len(x) : y[i] = x[i]
ResultOf(c) == Piece("output", c.n, NoSig)
Answered(made, a0, calls, a, q) ==
    /\ a \in Turn /\ a.ok = TRUE /\ a.called = NumbersOf(calls)
    /\ a.answered = {calls[i].n : i \in 1..q}
    /\ Begins(FlatOf(a0), FlatOf(a)) /\ CallsOf(FlatOf(a)) = CallsOf(FlatOf(a0))
    /\ \A i \in 1..q : \E k \in DOMAIN FlatOf(a) :
          k > Len(FlatOf(a0)) /\ FlatOf(a)[k] = ResultOf(calls[i])
    /\ Carries(made, FlatOf(a0)) => Carries(made, FlatOf(a))

LEMMA BeginsLonger ==
    ASSUME NEW x \in Seq(AnyPiece), NEW y \in Seq(AnyPiece), Begins(x, y), NEW p \in AnyPiece
    PROVE  Begins(x, Append(y, p))
BY DEF Begins

LEMMA ResultIs ==
    ASSUME NEW c \in AnyPiece
    PROVE  /\ ResultOf(c) \in AnyPiece /\ ResultOf(c).kind = "output" /\ ResultOf(c).n = c.n
           /\ ResultOf(c).kind \notin CallKinds
BY DEF ResultOf, Piece, AnyPiece, AgyKinds, CallKinds

LEMMA AnsweredGrows ==
    ASSUME NEW made, NEW a0 \in Turn, NEW calls \in Seq(AnyPiece), OneEach(calls), NEW a, NEW q \in Nat,
           Answered(made, a0, calls, a, q), q + 1 \in 1..Len(calls)
    PROVE  Answered(made, a0, calls, ConvertItem(a, ResultOf(calls[q + 1])), q + 1)
<1> DEFINE c == calls[q + 1]
           p == ResultOf(c)
           b == ConvertItem(a, p)
           x == FlatOf(a0)
           y == FlatOf(a)
           z == FlatOf(b)
<1>1. c \in AnyPiece /\ q + 1 \in DOMAIN calls /\ DOMAIN calls = 1..Len(calls)
      /\ \A i \in 1..q : i \in DOMAIN calls /\ i # q + 1
  OBVIOUS
<1>2. p \in AnyPiece /\ p.kind = "output" /\ p.n = c.n /\ p.kind \notin CallKinds
  BY <1>1, ResultIs
<1>3. /\ a \in Turn /\ a.ok = TRUE /\ a.called = NumbersOf(calls)
      /\ a.answered = {calls[i].n : i \in 1..q}
      /\ Begins(x, y) /\ CallsOf(y) = CallsOf(x)
      /\ \A i \in 1..q : \E k \in DOMAIN y : k > Len(x) /\ y[k] = ResultOf(calls[i])
      /\ Carries(made, x) => Carries(made, y)
  BY DEF Answered
<1>4. c.n \in NumbersOf(calls) /\ c.n \notin {calls[i].n : i \in 1..q}
  BY <1>1 DEF NumbersOf, OneEach
<1>5. /\ b \in Turn /\ b.ok = TRUE /\ b.called = a.called
      /\ b.answered = a.answered \union {c.n} /\ z = Append(y, p)
  <2>1. p.n \in a.called /\ p.n \notin a.answered
    BY <1>2, <1>3, <1>4
  <2>2. a \in Turn /\ a.ok
    BY <1>3
  <2> HIDE DEF p, c
  <2>3. /\ b \in Turn /\ b.ok = TRUE /\ b.called = a.called
        /\ b.answered = a.answered \union {p.n} /\ z = Append(y, p)
    BY ONLY <1>2, <2>1, <2>2, TakesOutput
  <2> QED BY <1>2, <2>3
<1>6. x \in Seq(AnyPiece) /\ y \in Seq(AnyPiece)
  BY <1>3, FlatTyped
<1>7. b.answered = {calls[i].n : i \in 1..(q + 1)}
  <2>1. \A i : i \in 1..(q + 1) <=> i \in 1..q \/ i = q + 1
    OBVIOUS
  <2> HIDE DEF b
  <2> QED BY <1>3, <1>5, <2>1
<1> HIDE DEF x, y, z, p, b
<1>8. Begins(x, z) /\ CallsOf(z) = CallsOf(x)
  <2>1. Begins(x, z)
    BY <1>2, <1>3, <1>5, <1>6, BeginsLonger
  <2>2. Only(z, CallKinds) = Only(y, CallKinds)
    BY <1>2, <1>5, <1>6, OnlyAppend
  <2> QED BY <1>3, <2>1, <2>2 DEF CallsOf
<1>9. /\ Len(y) \in Nat /\ DOMAIN y = 1..Len(y) /\ DOMAIN z = 1..(Len(y) + 1)
      /\ z[Len(y) + 1] = p /\ \A k \in 1..Len(y) : z[k] = y[k]
  BY <1>2, <1>5, <1>6, AppendIs
<1>10. ASSUME NEW i \in 1..(q + 1)
       PROVE  \E k \in DOMAIN z : k > Len(x) /\ z[k] = ResultOf(calls[i])
  <2>1. CASE i = q + 1
    <3>1. Len(x) \in Nat /\ Len(x) <= Len(y)
      BY <1>3, <1>6 DEF Begins
    <3>2. Len(y) + 1 \in DOMAIN z /\ Len(y) + 1 > Len(x)
      BY <1>9, <3>1
    <3>3. z[Len(y) + 1] = ResultOf(calls[i])
      BY <1>9, <2>1 DEF p
    <3> QED BY <3>2, <3>3
  <2>2. CASE i # q + 1
    <3>1. i \in 1..q
      BY <2>2
    <3>2. PICK k \in DOMAIN y : k > Len(x) /\ y[k] = ResultOf(calls[i])
      BY <1>3, <3>1
    <3>3. k \in DOMAIN z /\ z[k] = y[k]
      BY <1>9, <3>2
    <3> QED BY <3>2, <3>3
  <2> QED BY <2>1, <2>2
<1>11. Carries(made, x) => Carries(made, z)
  BY <1>2, <1>3, <1>5, <1>6, CarriesMore
<1> QED BY <1>3, <1>5, <1>7, <1>8, <1>10, <1>11 DEF Answered, x, z, b, p

(* The whole history, the turn and its results. *)
LEMMA TurnTaken ==
    ASSUME NEW head \in Seq(AnyPiece), AllOf(head, HeadKinds), OneEach(CallsOf(head)), NEW made,
           NEW results \in Seq(AnyPiece), Len(results) = Len(CallsOf(head)),
           \A i \in 1..Len(results) : results[i] = ResultOf(CallsOf(head)[i])
    PROVE  \E a0 \in Turn :
              /\ Taken(a0, head) /\ (Signed(made, head) => Carries(made, FlatOf(a0)))
              /\ Answered(made, a0, CallsOf(head), Converted(head \o results), Len(CallsOf(head)))
<1> DEFINE items == head \o results
           H == Len(head)
           C == Len(results)
           calls == CallsOf(head)
<1>1. /\ items \in Seq(AnyPiece) /\ Len(items) = H + C /\ H \in Nat /\ C \in Nat
      /\ \A i \in 1..H : items[i] = head[i]
      /\ \A i \in 1..C : items[H + i] = results[i]
  BY JoinIs
<1> HIDE DEF items
<1>2. PICK g \in [0..Len(items) -> Turn] :
         Converts(g, items, Len(items)) /\ Converted(items) = g[Len(items)]
  BY <1>1, ConvertedIs
<1>3. Converts(g, head, H)
  <2>1. \A k \in 1..H : k \in 1..Len(items)
    BY <1>1
  <2> QED BY <1>1, <1>2, <2>1 DEF Converts
<1>4. Taken(g[H], head) /\ (Signed(made, head) => Carries(made, FlatOf(g[H])))
  <2>1. SubSeq(head, 1, H) = head /\ H \in 0..H
    BY <1>1
  <2>2. Taken(g[H], SubSeq(head, 1, H))
    BY <1>3, <2>1, HeadTaken
  <2>3. ASSUME Signed(made, head) PROVE Carries(made, FlatOf(g[H]))
    BY <1>3, <2>1, <2>3, HeadSigned
  <2> QED BY <2>1, <2>2, <2>3
<1>5. calls \in Seq(AnyPiece) /\ g[H] \in Turn
  BY <1>4, OnlyTyped DEF CallsOf, Taken
<1> DEFINE Q(q) == Answered(made, g[H], calls, g[H + q], q)
           B == {q \in 0..C : Q(q)}
<1>6. 0 \in B
  <2>1. FlatOf(g[H]) \in Seq(AnyPiece)
    BY <1>5, FlatTyped
  <2>2. Begins(FlatOf(g[H]), FlatOf(g[H]))
    BY <2>1 DEF Begins
  <2>3. H + 0 = H /\ 0 \in 0..C /\ 1..0 = {}
    BY <1>1
  <2>4. {calls[i].n : i \in 1..0} = {}
    BY <2>3
  <2> HIDE DEF calls, H, C
  <2>5. Answered(made, g[H], calls, g[H], 0)
    BY <1>4, <1>5, <2>2, <2>3, <2>4 DEF Answered, Taken, calls
  <2> QED BY <2>3, <2>5
<1>7. ASSUME NEW q \in 1..C, q - 1 \in B PROVE q \in B
  <2>1. /\ q \in 0..C /\ q - 1 \in Nat /\ q - 1 + 1 = q /\ q - 1 + 1 \in 1..Len(calls)
        /\ H + q \in 1..Len(items) /\ H + q - 1 = H + (q - 1)
    BY <1>1
  <2>2. g[H + q] = ConvertItem(g[H + (q - 1)], items[H + q])
    BY <1>2, <2>1 DEF Converts
  <2>3. items[H + q] = ResultOf(calls[q - 1 + 1])
    BY <1>1, <2>1
  <2>4. Answered(made, g[H], calls, g[H + (q - 1)], q - 1)
    BY <1>7
  <2>5. OneEach(calls)
    OBVIOUS
  <2> HIDE DEF calls, H, C
  <2>6. Answered(made, g[H], calls, ConvertItem(g[H + (q - 1)], ResultOf(calls[q - 1 + 1])), q - 1 + 1)
    BY <1>5, <2>1, <2>4, <2>5, AnsweredGrows
  <2>7. Q(q)
    BY <2>1, <2>2, <2>3, <2>6
  <2> QED BY <2>1, <2>7
<1>8. C \in Nat /\ C \in 0..C
  BY <1>1
<1> HIDE DEF B
<1>9. \A q \in 0..C : q \in B
  BY <1>6, <1>7, <1>8, Climbs
<1>10. Answered(made, g[H], calls, g[H + C], C)
  BY <1>8, <1>9 DEF B
<1> QED BY <1>1, <1>2, <1>4, <1>5, <1>10 DEF items

(* A history of a turn and its results comes back: each call once and in    *)
(* order, its result behind it, and with it the signature it was issued for.*)
BackOK(made, calls, a) ==
    /\ a.ok /\ Numbers(CallsOf(FlatOf(a))) = Numbers(calls)
    /\ \A i \in DOMAIN calls : \E j, k \in DOMAIN FlatOf(a) :
          /\ j < k /\ FlatOf(a)[j].n = calls[i].n /\ FlatOf(a)[j].kind = calls[i].kind
          /\ FlatOf(a)[k] = ResultOf(calls[i])

LEMMA HistoryBack ==
    ASSUME NEW head \in Seq(AnyPiece), AllOf(head, HeadKinds), OneEach(CallsOf(head)), NEW made,
           NEW results \in Seq(AnyPiece), Len(results) = Len(CallsOf(head)),
           \A i \in 1..Len(results) : results[i] = ResultOf(CallsOf(head)[i])
    PROVE  /\ BackOK(made, CallsOf(head), Converted(head \o results))
           /\ Signed(made, head) => Carries(made, FlatOf(Converted(head \o results)))
<1> DEFINE calls == CallsOf(head)
           a == Converted(head \o results)
           y == FlatOf(a)
<1>1. PICK a0 \in Turn :
              /\ Taken(a0, head) /\ (Signed(made, head) => Carries(made, FlatOf(a0)))
              /\ Answered(made, a0, calls, a, Len(calls))
  BY TurnTaken
<1> DEFINE x == FlatOf(a0)
<1>2. SameCalls(CallsOf(x), calls)
  BY <1>1 DEF Taken
<1>3. /\ a \in Turn /\ a.ok = TRUE /\ Begins(x, y) /\ CallsOf(y) = CallsOf(x)
      /\ \A i \in 1..Len(calls) : \E k \in DOMAIN y : k > Len(x) /\ y[k] = ResultOf(calls[i])
      /\ Carries(made, x) => Carries(made, y)
  BY <1>1 DEF Answered
<1>4. /\ x \in Seq(AnyPiece) /\ y \in Seq(AnyPiece) /\ CallsOf(x) \in Seq(AnyPiece)
      /\ calls \in Seq(AnyPiece)
      /\ \A i \in DOMAIN CallsOf(x) : \E j \in DOMAIN x : x[j] = CallsOf(x)[i]
  BY <1>3, FlatTyped, OnlyTyped DEF CallsOf
<1> DEFINE u == CallsOf(x)
<1>5. /\ DOMAIN x = 1..Len(x) /\ DOMAIN y = 1..Len(y) /\ Len(x) \in Nat /\ Len(y) \in Nat
      /\ DOMAIN u = 1..Len(u) /\ DOMAIN calls = 1..Len(calls) /\ Len(calls) \in Nat
  BY <1>4
<1> HIDE DEF calls, a, x, y, u
<1>6. CallsOf(y) = u /\ SameCalls(u, calls) /\ \A i \in DOMAIN u : \E j \in DOMAIN x : x[j] = u[i]
  BY <1>2, <1>3, <1>4 DEF u
<1>7. DOMAIN u = DOMAIN calls
  BY <1>5, <1>6 DEF SameCalls
<1>8. Numbers(u) = Numbers(calls)
  BY <1>6, <1>7 DEF SameCalls, Numbers
<1>9. ASSUME NEW i \in DOMAIN calls
      PROVE  \E j, k \in DOMAIN y : j < k /\ y[j].n = calls[i].n /\ y[j].kind = calls[i].kind
                                   /\ y[k] = ResultOf(calls[i])
  <2>1. PICK j \in DOMAIN x : x[j] = u[i]
    BY <1>6, <1>7
  <2>2. PICK k \in DOMAIN y : k > Len(x) /\ y[k] = ResultOf(calls[i])
    BY <1>3, <1>5
  <2>3. j \in DOMAIN y /\ j < k /\ y[j] = x[j]
    BY <1>3, <1>5, <2>1, <2>2 DEF Begins
  <2>4. u[i].n = calls[i].n /\ u[i].kind = calls[i].kind
    BY <1>6, <1>7 DEF SameCalls
  <2> QED BY <2>1, <2>2, <2>3, <2>4
<1> QED BY <1>1, <1>3, <1>6, <1>8, <1>9 DEF BackOK, calls, a, x, y

-----------------------------------------------------------------------------
(* The answer as it streams.                                                *)

ShownKinds == {"message", "thought", "envelope", "function"}
MadeType == [tool : AgyTools, sig : Signatures \union {NoSig}]
MadeOf(made) == [i \in DOMAIN made |-> Piece(CallKind(made[i].tool), i, NoSig)]
FirstOnly(made) == \A i \in DOMAIN made : i > 1 => made[i].sig = NoSig
FirstSigned(made) == made # <<>> /\ made[1].sig # NoSig
EnvelopeOf(made) == Piece("envelope", 0, made[1].sig)

LEMMA MadeIs ==
    ASSUME NEW made \in Seq(MadeType)
    PROVE  /\ MadeOf(made) \in Seq(AnyPiece) /\ Len(MadeOf(made)) = Len(made)
           /\ DOMAIN made = 1..Len(made) /\ Len(made) \in Nat
           /\ \A i \in 1..Len(made) : MadeOf(made)[i] = Piece(CallKind(made[i].tool), i, NoSig)
           /\ \A i \in 1..Len(made) : MadeOf(made)[i].kind \in CallKinds /\ MadeOf(made)[i].n = i
           /\ OneEach(MadeOf(made))
<1> DEFINE s == MadeOf(made)
<1>1. DOMAIN made = 1..Len(made) /\ Len(made) \in Nat
  OBVIOUS
<1>2. \A i \in 1..Len(made) : /\ Piece(CallKind(made[i].tool), i, NoSig) \in AnyPiece
                             /\ Piece(CallKind(made[i].tool), i, NoSig).n = i
                             /\ Piece(CallKind(made[i].tool), i, NoSig).kind \in CallKinds
  BY DEF Piece, AnyPiece, AgyKinds, CallKind, CallKinds
<1>3. s = [i \in 1..Len(made) |-> Piece(CallKind(made[i].tool), i, NoSig)]
  BY <1>1 DEF MadeOf
<1> HIDE DEF s
<1>4. s \in Seq(AnyPiece) /\ Len(s) = Len(made)
  BY <1>1, <1>2, <1>3
<1>5. \A i \in 1..Len(made) : s[i] = Piece(CallKind(made[i].tool), i, NoSig)
  BY <1>3
<1>6. \A i \in 1..Len(made) : s[i].kind \in CallKinds /\ s[i].n = i
  BY <1>2, <1>5
<1>7. DOMAIN s = 1..Len(made)
  BY <1>3
<1>8. OneEach(s)
  BY <1>6, <1>7 DEF OneEach
<1> QED BY <1>1, <1>4, <1>5, <1>6, <1>8 DEF s

LEMMA MadeGrows ==
    ASSUME NEW made \in Seq(MadeType), NEW r \in MadeType
    PROVE  /\ Append(made, r) \in Seq(MadeType) /\ Len(Append(made, r)) = Len(made) + 1
           /\ Append(made, r)[Len(made) + 1] = r /\ \A i \in 1..Len(made) : Append(made, r)[i] = made[i]
           /\ MadeOf(Append(made, r)) = Append(MadeOf(made), Piece(CallKind(r.tool), Len(made) + 1, NoSig))
           /\ Piece(CallKind(r.tool), Len(made) + 1, NoSig) \in AnyPiece
<1> DEFINE L == Len(made)
           more == Append(made, r)
           p == Piece(CallKind(r.tool), L + 1, NoSig)
           s == MadeOf(made)
           t == MadeOf(more)
           u == Append(s, p)
<1>1. /\ more \in Seq(MadeType) /\ L \in Nat /\ Len(more) = L + 1
      /\ more[L + 1] = r /\ \A i \in 1..L : more[i] = made[i]
  OBVIOUS
<1>2. p \in AnyPiece
  BY <1>1 DEF Piece, AnyPiece, AgyKinds, CallKind
<1> HIDE DEF more
<1>3. /\ s \in Seq(AnyPiece) /\ Len(s) = L /\ t \in Seq(AnyPiece) /\ Len(t) = L + 1
      /\ \A i \in 1..L : s[i] = Piece(CallKind(made[i].tool), i, NoSig)
      /\ \A i \in 1..(L + 1) : t[i] = Piece(CallKind(more[i].tool), i, NoSig)
  BY <1>1, MadeIs
<1>4. t[L + 1] = p /\ \A i \in 1..L : t[i] = s[i]
  <2>1. L + 1 \in 1..(L + 1) /\ \A i \in 1..L : i \in 1..(L + 1)
    BY <1>1
  <2> HIDE DEF L
  <2> QED BY <1>1, <1>3, <2>1
<1> HIDE DEF s, t, p
<1>5. u \in Seq(AnyPiece) /\ Len(u) = L + 1 /\ u[L + 1] = p /\ \A i \in 1..L : u[i] = s[i]
  BY <1>2, <1>3, AppendIs
<1>6. t = u
  <2>1. \A i \in 1..(L + 1) : i = L + 1 \/ i \in 1..L
    BY <1>1
  <2> HIDE DEF u, L
  <2>2. \A i \in 1..(L + 1) : t[i] = u[i]
    BY <1>4, <1>5, <2>1
  <2> QED BY <1>3, <1>5, <2>2
<1> QED BY <1>1, <1>2, <1>6 DEF s, t, p, more

LEMMA SignedWord ==
    ASSUME NEW made, NEW head \in Seq(AnyPiece), Signed(made, head), NEW p \in AnyPiece,
           p.kind \in {"message", "thought"}, p.sig = NoSig
    PROVE  Signed(made, Append(head, p))
<1> DEFINE t == Append(head, p)
           L == Len(head)
<1>1. L \in Nat /\ Len(t) = L + 1 /\ t[L + 1] = p /\ \A i \in 1..L : t[i] = head[i]
  BY AppendIs
<1>2. p.kind # "envelope" /\ p.kind \notin CallKinds
  BY DEF CallKinds
<1> HIDE DEF t
<1>3. ASSUME NEW i \in 1..(L + 1)
      PROVE  /\ t[i].kind = "envelope" =>
                   t[i].sig # NoSig /\ i + 1 \in 1..(L + 1) /\ t[i + 1].kind \in CallKinds
             /\ t[i].kind = "thought" => t[i].sig = NoSig
             /\ t[i].kind \in CallKinds => t[i].n \in DOMAIN made /\ made[t[i].n].sig = Before(t, i)
  <2>1. CASE i = L + 1
    BY <1>1, <1>2, <2>1
  <2>2. CASE i # L + 1
    <3>1. i \in 1..L /\ t[i] = head[i] /\ (i + 1 \in 1..L => t[i + 1] = head[i + 1] /\ i + 1 \in 1..(L + 1))
      BY <1>1, <2>2
    <3>2. i > 1 => t[i - 1] = head[i - 1]
      BY <1>1, <3>1
    <3>3. Before(t, i) = Before(head, i)
      BY <3>2 DEF Before
    <3> QED BY <3>1, <3>3 DEF Signed
  <2> QED BY <2>1, <2>2
<1>4. Signed(made, t)
  BY <1>1, <1>3 DEF Signed
<1> QED BY <1>4 DEF t

(* A call, behind its envelope when it has a signature. *)
LEMMA SignedCall ==
    ASSUME NEW made \in Seq(MadeType), NEW head \in Seq(AnyPiece), Signed(made, head),
           NEW r \in MadeType, NEW c \in AnyPiece, c.kind \in CallKinds, c.n = Len(made) + 1,
           NEW e \in AnyPiece, e.kind = "envelope", e.sig = r.sig,
           NEW t, t = Append(IF r.sig # NoSig THEN Append(head, e) ELSE head, c)
    PROVE  Signed(Append(made, r), t)
<1> DEFINE L == Len(head)
           more == Append(made, r)
           M == IF r.sig # NoSig THEN L + 2 ELSE L + 1
<1>1. /\ Len(made) \in Nat /\ DOMAIN made = 1..Len(made) /\ DOMAIN more = 1..(Len(made) + 1)
      /\ more[Len(made) + 1] = r /\ \A i \in DOMAIN made : i \in DOMAIN more /\ more[i] = made[i]
  OBVIOUS
<1>2. /\ L \in Nat /\ Len(t) = M /\ t[M] = c /\ \A i \in 1..L : t[i] = head[i]
      /\ r.sig # NoSig => t[L + 1] = e
  <2> DEFINE f == Append(head, e)
  <2>1. f \in Seq(AnyPiece) /\ L \in Nat /\ Len(f) = L + 1 /\ f[L + 1] = e /\ \A i \in 1..L : f[i] = head[i]
    BY AppendIs
  <2> HIDE DEF f
  <2>2. CASE r.sig # NoSig
    <3>1. t = Append(f, c)
      BY <2>2 DEF f
    <3>2. Len(t) = L + 1 + 1 /\ t[L + 1 + 1] = c /\ \A i \in 1..(L + 1) : t[i] = f[i]
      BY <2>1, <3>1, AppendIs
    <3> QED BY <2>1, <2>2, <3>2
  <2>3. CASE r.sig = NoSig
    <3>1. t = Append(head, c)
      BY <2>3
    <3>2. Len(t) = L + 1 /\ t[L + 1] = c /\ \A i \in 1..L : t[i] = head[i]
      BY <3>1, AppendIs
    <3> QED BY <2>1, <2>3, <3>2
  <2> QED BY <2>2, <2>3
<1>3. Len(made) + 1 \in DOMAIN more
  BY <1>1
<1> HIDE DEF more
<1>4. c.kind # "envelope" /\ c.kind # "thought" /\ e.kind \notin CallKinds
  BY DEF CallKinds
<1>5. ASSUME NEW i \in 1..M
      PROVE  /\ t[i].kind = "envelope" =>
                   t[i].sig # NoSig /\ i + 1 \in 1..M /\ t[i + 1].kind \in CallKinds
             /\ t[i].kind = "thought" => t[i].sig = NoSig
             /\ t[i].kind \in CallKinds => t[i].n \in DOMAIN more /\ more[t[i].n].sig = Before(t, i)
  <2>1. CASE i \in 1..L
    <3>1. t[i] = head[i] /\ (i + 1 \in 1..L => t[i + 1] = head[i + 1] /\ i + 1 \in 1..M)
      BY <1>2, <2>1
    <3>2. i > 1 => t[i - 1] = head[i - 1]
      BY <1>2, <2>1
    <3>3. Before(t, i) = Before(head, i)
      BY <3>2 DEF Before
    <3>4. /\ head[i].kind = "envelope" =>
                head[i].sig # NoSig /\ i + 1 \in 1..L /\ head[i + 1].kind \in CallKinds
          /\ head[i].kind = "thought" => head[i].sig = NoSig
          /\ head[i].kind \in CallKinds => head[i].n \in DOMAIN made /\ made[head[i].n].sig = Before(head, i)
      BY <2>1 DEF Signed
    <3> HIDE DEF M, L
    <3> QED BY <1>1, <3>1, <3>3, <3>4
  <2>2. CASE r.sig # NoSig /\ i = L + 1
    <3>1. t[i] = e /\ i + 1 = M /\ M \in 1..M /\ t[i + 1] = c
      BY <1>2, <2>2
    <3> QED BY <1>4, <2>2, <3>1
  <2>3. CASE i = M
    <3>1. t[i] = c
      BY <1>2, <2>3
    <3>2. Before(t, i) = r.sig
      <4>1. CASE r.sig # NoSig
        <5>1. i - 1 = L + 1 /\ i > 1
          BY <1>2, <2>3, <4>1
        <5> QED BY <1>2, <4>1, <5>1 DEF Before
      <4>2. CASE r.sig = NoSig
        <5>1. i = L + 1 /\ i - 1 = L
          BY <1>2, <2>3, <4>2
        <5>2. ~(i > 1 /\ t[i - 1].kind = "envelope")
          <6> SUFFICES ASSUME i > 1, t[i - 1].kind = "envelope" PROVE FALSE
            OBVIOUS
          <6>0. L \in Nat /\ \A j \in 1..L : t[j] = head[j]
            BY <1>2
          <6> HIDE DEF M, L
          <6>1. L \in 1..L /\ L + 1 \notin 1..L
            <7>1. L + 1 > 1
              BY <5>1
            <7> QED BY <6>0, <7>1
          <6>2. t[L] = head[L] /\ t[L].kind = "envelope"
            BY <6>0, <6>1, <5>1
          <6>3. L + 1 \in 1..L
            <7>1. head[L].kind = "envelope" /\ L \in 1..Len(head)
              BY <6>1, <6>2 DEF L
            <7> QED BY <7>1 DEF Signed, L
          <6> QED BY <6>1, <6>3
        <5> QED BY <4>2, <5>2 DEF Before
      <4> QED BY <4>1, <4>2
    <3> HIDE DEF M, L
    <3> QED BY <1>1, <1>3, <1>4, <3>1, <3>2
  <2>4. i \in 1..L \/ (r.sig # NoSig /\ i = L + 1) \/ i = M
    BY <1>2
  <2> QED BY <2>1, <2>2, <2>3, <2>4
<1>6. Signed(more, t)
  <2> HIDE DEF M
  <2> QED BY <1>2, <1>5 DEF Signed
<1> QED BY <1>6 DEF more

(* What is kept of different numbers is of different numbers. *)
LEMMA OneEachGrows ==
    ASSUME NEW s \in Seq(AnyPiece), NEW p \in AnyPiece
    PROVE  OneEach(Append(s, p)) <=> OneEach(s) /\ p.n \notin NumbersOf(s)
<1> DEFINE t == Append(s, p)
           L == Len(s)
<1>1. /\ L \in Nat /\ DOMAIN s = 1..L /\ DOMAIN t = 1..(L + 1)
      /\ t[L + 1] = p /\ \A i \in 1..L : t[i] = s[i]
  BY AppendIs
<1> HIDE DEF t, L
<1>2. \A i \in 1..(L + 1) : i = L + 1 \/ i \in 1..L
  BY <1>1
<1>3. L + 1 \in 1..(L + 1) /\ \A i \in 1..L : i \in 1..(L + 1) /\ i # L + 1
  BY <1>1
<1>4. ASSUME OneEach(t) PROVE OneEach(s) /\ p.n \notin NumbersOf(s)
  BY <1>1, <1>3, <1>4 DEF OneEach, NumbersOf
<1>5. ASSUME OneEach(s), p.n \notin NumbersOf(s) PROVE OneEach(t)
  <2>1. \A i \in 1..L : s[i].n # p.n
    BY <1>1, <1>5 DEF NumbersOf
  <2>2. \A i, j \in 1..L : s[i].n = s[j].n => i = j
    BY <1>1, <1>5 DEF OneEach
  <2> QED BY <1>1, <1>2, <2>1, <2>2 DEF OneEach
<1> QED BY <1>4, <1>5 DEF t

LEMMA OnlyOneEach ==
    ASSUME NEW K
    PROVE  \A s \in Seq(AnyPiece) : OneEach(s) => OneEach(Only(s, K))
<1> DEFINE B == {s \in Seq(AnyPiece) : OneEach(s) => OneEach(Only(s, K))}
<1>1. <<>> \in B
  BY OnlyOfNone
<1>2. ASSUME NEW s \in Seq(AnyPiece), NEW p \in AnyPiece, s \in B PROVE Append(s, p) \in B
  <2> SUFFICES ASSUME OneEach(Append(s, p)) PROVE OneEach(Only(Append(s, p), K))
    BY AppendIs
  <2> DEFINE x == Only(s, K)
  <2>1. OneEach(s) /\ p.n \notin NumbersOf(s)
    BY OneEachGrows
  <2>2. OneEach(x) /\ x \in Seq(AnyPiece) /\ \A i \in DOMAIN x : \E j \in DOMAIN s : s[j] = x[i]
    BY <1>2, <2>1, OnlyTyped
  <2>3. Only(Append(s, p), K) = IF p.kind \in K THEN Append(x, p) ELSE x
    BY OnlyAppend
  <2> HIDE DEF x
  <2>4. p.n \notin NumbersOf(x)
    BY <2>1, <2>2 DEF NumbersOf
  <2>5. OneEach(Append(x, p))
    BY <2>2, <2>4, OneEachGrows
  <2> QED BY <2>2, <2>3, <2>5
<1> HIDE DEF B
<1>3. \A b \in Seq(AnyPiece) : b \in B
  BY <1>1, <1>2, Grown
<1> QED BY <1>3 DEF B

-----------------------------------------------------------------------------
(* What the client is shown of a piece.                                     *)

Grew(t, s, K, p) == Only(t, K) = IF p.kind \in K THEN Append(Only(s, K), p) ELSE Only(s, K)
ShownOK(s) == s \in Seq(AnyPiece) /\ AllOf(s, ShownKinds)

LEMMA AppendShown ==
    ASSUME NEW s, ShownOK(s), NEW p \in AnyPiece, p.kind \in ShownKinds
    PROVE  ShownOK(Append(s, p)) /\ \A K : Grew(Append(s, p), s, K, p)
BY AllGrow, OnlyAppend, OnePiece DEF ShownOK, Grew

LEMMA ShownStays ==
    ASSUME NEW s, NEW p, NEW K, p.kind \notin K
    PROVE  Grew(s, s, K, p)
BY DEF Grew

LEMMA GeminiShown ==
    ASSUME NEW s, ShownOK(s), NEW p \in AnyPiece, p.kind \in {"message", "thought"},
           NEW t, t = Only(s, {"message", "thought"}) \o <<p>> \o Only(s, {"function"})
    PROVE  ShownOK(t) /\ Grew(t, s, {"function"}, p)
<1> DEFINE W == {"message", "thought"}
           F == {"function"}
           a == Only(s, W)
           b == Only(s, F)
<1>1. /\ s \in Seq(AnyPiece) /\ a \in Seq(AnyPiece) /\ b \in Seq(AnyPiece)
      /\ (\A i \in DOMAIN a : a[i].kind \in W) /\ (\A i \in DOMAIN b : b[i].kind \in F)
  BY OnlyTyped DEF ShownOK
<1> HIDE DEF a, b
<1> DEFINE c == Append(a, p)
<1>2. a \o <<p>> = c /\ c \in Seq(AnyPiece) /\ p.kind \notin F /\ p.kind \in W
  BY <1>1, OnePiece
<1>5. AllOf(c, W)
  BY <1>1, <1>2, AllGrow DEF AllOf
<1> HIDE DEF c
<1>3. t = c \o b
  BY <1>2 DEF a, b
<1>4. /\ t \in Seq(AnyPiece) /\ Len(b) \in Nat /\ Len(c) \in Nat
      /\ DOMAIN t = 1..(Len(c) + Len(b))
      /\ \A i \in 1..Len(c) : t[i] = c[i]
      /\ \A i \in 1..Len(b) : t[Len(c) + i] = b[i]
  <2>1. b \in Seq(AnyPiece) /\ c \in Seq(AnyPiece)
    BY <1>1, <1>2
  <2> HIDE DEF F, W
  <2> QED BY ONLY <1>3, <2>1, JoinIs
<1>6. AllOf(t, ShownKinds)
  <2>1. DOMAIN c = 1..Len(c) /\ DOMAIN b = 1..Len(b)
    BY <1>1, <1>2
  <2> SUFFICES ASSUME NEW i \in DOMAIN t PROVE t[i].kind \in ShownKinds
    BY DEF AllOf
  <2>2. CASE i \in 1..Len(c)
    <3>1. t[i].kind \in W
      BY <1>4, <1>5, <2>1, <2>2 DEF AllOf
    <3> QED BY <3>1 DEF ShownKinds
  <2>3. CASE i \notin 1..Len(c)
    <3>1. i - Len(c) \in 1..Len(b) /\ Len(c) + (i - Len(c)) = i
      BY <1>4, <2>3
    <3>2. t[Len(c) + (i - Len(c))] = b[i - Len(c)]
      BY <1>4, <3>1
    <3>3. t[i].kind \in F
      BY <1>1, <2>1, <3>1, <3>2
    <3> QED BY <3>3 DEF ShownKinds
  <2> QED BY <2>2, <2>3
<1>7. Only(t, F) = Only(c, F) \o Only(b, F)
  <2>1. Only(c \o b, F) = Only(c, F) \o Only(b, F)
    BY <1>1, <1>2, OnlyJoin
  <2> QED BY <1>3, <2>1
<1>8. Only(c, F) = <<>>
  <2>1. F \intersect W = {}
    OBVIOUS
  <2> QED BY <1>2, <1>5, <2>1, OnlyNone
<1>9. Only(b, F) = b
  BY <1>1, OnlyAll DEF AllOf
<1>10. <<>> \o b = b
  BY <1>1
<1>11. Only(t, F) = Only(s, F)
  BY <1>7, <1>8, <1>9, <1>10 DEF b
<1> QED BY <1>2, <1>4, <1>6, <1>11 DEF ShownOK, Grew

LEMMA ShowsIs ==
    ASSUME agyClient \in AgyClients, NEW s, ShownOK(s), NEW p \in AnyPiece, p.kind \in HeadKinds
    PROVE  /\ ShownOK(Shows(s, p))
           /\ agyClient # "responses" => Grew(Shows(s, p), s, {"function"}, p)
           /\ agyClient = "anthropic" => Grew(Shows(s, p), s, {"envelope"}, p)
<1>1. CASE agyClient = "responses"
  BY <1>1 DEF Shows
<1>2. CASE agyClient = "chat-completions"
  <2>1. Shows(s, p) = ChatShows(s, p)
    BY <1>2 DEF Shows
  <2>2. CASE p.kind \in {"message", "thought", "function"}
    <3>1. ChatShows(s, p) = Append(s, p) /\ p.kind \in ShownKinds
      BY <2>2 DEF ChatShows, ShownKinds
    <3> QED BY <1>2, <2>1, <3>1, AppendShown
  <2>3. CASE p.kind \notin {"message", "thought", "function"}
    <3>1. ChatShows(s, p) = s /\ p.kind \notin {"function"}
      BY <2>3 DEF ChatShows
    <3> QED BY <1>2, <2>1, <3>1, ShownStays
  <2> QED BY <2>2, <2>3
<1>3. CASE agyClient = "gemini"
  <2>1. Shows(s, p) = GeminiShows(s, p)
    BY <1>3 DEF Shows
  <2>2. CASE p.kind \in {"message", "thought"}
    <3>1. GeminiShows(s, p) = Only(s, {"message", "thought"}) \o <<p>> \o Only(s, {"function"})
      BY <2>2 DEF GeminiShows
    <3> QED BY <1>3, <2>1, <2>2, <3>1, GeminiShown
  <2>3. CASE p.kind = "function"
    <3>1. GeminiShows(s, p) = Append(s, p) /\ p.kind \in ShownKinds
      BY <2>3 DEF GeminiShows, ShownKinds
    <3> QED BY <1>3, <2>1, <3>1, AppendShown
  <2>4. CASE p.kind \in {"envelope", "custom"}
    <3>1. GeminiShows(s, p) = s /\ p.kind \notin {"function"}
      BY <2>4 DEF GeminiShows
    <3> QED BY <1>3, <2>1, <3>1, ShownStays
  <2> QED BY <2>2, <2>3, <2>4 DEF HeadKinds
<1>4. CASE agyClient = "anthropic"
  <2>1. Shows(s, p) = AnthropicShows(s, p)
    BY <1>4 DEF Shows
  <2>2. CASE p.kind \in {"message", "thought"}
    <3>1. /\ AnthropicShows(s, p) = IF agyOpen = p.kind THEN s ELSE Append(s, p)
          /\ p.kind \in ShownKinds /\ p.kind \notin {"function"} /\ p.kind \notin {"envelope"}
      BY <2>2 DEF AnthropicShows, ShownKinds
    <3> QED BY <1>4, <2>1, <3>1, AppendShown, ShownStays
  <2>3. CASE p.kind \in {"envelope", "function"}
    <3>1. AnthropicShows(s, p) = Append(s, p) /\ p.kind \in ShownKinds
      BY <2>3 DEF AnthropicShows, ShownKinds
    <3> QED BY <1>4, <2>1, <3>1, AppendShown
  <2>4. CASE p.kind = "custom"
    <3>1. AnthropicShows(s, p) = s /\ p.kind \notin {"function"} /\ p.kind \notin {"envelope"}
      BY <2>4 DEF AnthropicShows
    <3> QED BY <1>4, <2>1, <3>1, ShownStays
  <2> QED BY <2>2, <2>3, <2>4 DEF HeadKinds
<1> QED BY <1>1, <1>2, <1>3, <1>4 DEF AgyClients

-----------------------------------------------------------------------------
(* What holds of the answer and of what the client has of it.               *)

Conversed(client, made, shown) ==
    /\ client # "responses" => Only(shown, {"function"}) = Only(MadeOf(made), {"function"})
    /\ client = "anthropic" /\ FirstOnly(made) =>
         Only(shown, {"envelope"}) = IF FirstSigned(made) THEN <<EnvelopeOf(made)>> ELSE <<>>
Answer(made, output) ==
    /\ made \in Seq(MadeType) /\ output \in Seq(AnyPiece) /\ AllOf(output, HeadKinds)
    /\ CallsOf(output) = MadeOf(made) /\ Signed(made, output)
LoopInv ==
    /\ agyClient \in AgyClients /\ agyCache \in Signatures \union {NoSig}
    /\ Answer(agyMade, agyOutput) /\ ShownOK(agyShown)
    /\ Conversed(agyClient, agyMade, agyShown)
    /\ agyPhase = "replayed" => agyBack = Converted(Items)

LEMMA LoopInit == AgyInit => LoopInv
<1> SUFFICES ASSUME AgyInit PROVE LoopInv
  OBVIOUS
<1>1. /\ agyClient \in AgyClients /\ agyPhase = "streaming" /\ agyMade = <<>> /\ agyCache = NoSig
      /\ agyOutput = <<>> /\ agyShown = <<>>
  BY DEF AgyInit
<1>2. <<>> \in Seq(MadeType) /\ <<>> \in Seq(AnyPiece) /\ DOMAIN <<>> = {} /\ Len(<<>>) = 0 /\ 1..0 = {}
  OBVIOUS
<1>3. MadeOf(<<>>) = <<>>
  <2>1. MadeOf(<<>>) \in Seq(AnyPiece) /\ Len(MadeOf(<<>>)) = Len(<<>>)
    BY <1>2, MadeIs
  <2> QED BY <1>2, <2>1
<1>4. \A K : Only(<<>>, K) = <<>> /\ AllOf(<<>>, K)
  BY <1>2, OnlyOfNone DEF AllOf
<1>5. Signed(<<>>, <<>>) /\ ~FirstSigned(<<>>)
  BY <1>2 DEF Signed, FirstSigned
<1>6. Answer(<<>>, <<>>) /\ ShownOK(<<>>) /\ Conversed(agyClient, <<>>, <<>>)
  BY <1>2, <1>3, <1>4, <1>5 DEF Answer, ShownOK, Conversed, CallsOf
<1> QED BY <1>1, <1>6 DEF LoopInv

LEMMA WordAnswer ==
    ASSUME NEW made, NEW output, Answer(made, output), NEW k \in {"message", "thought"}
    PROVE  Answer(made, Append(output, Word(k)))
<1>1. Word(k) \in AnyPiece /\ Word(k).kind = k /\ Word(k).sig = NoSig /\ k \notin CallKinds /\ k \in HeadKinds
  BY DEF Word, Piece, AnyPiece, AgyKinds, CallKinds, HeadKinds
<1>2. /\ Append(output, Word(k)) \in Seq(AnyPiece) /\ AllOf(Append(output, Word(k)), HeadKinds)
      /\ Signed(made, Append(output, Word(k)))
  BY <1>1, OnePiece, AllGrow, SignedWord DEF Answer
<1>3. CallsOf(Append(output, Word(k))) = CallsOf(output)
  BY <1>1, OnlyAppend DEF CallsOf, Answer
<1> QED BY <1>2, <1>3 DEF Answer

LEMMA CallAnswer ==
    ASSUME NEW made, NEW output, Answer(made, output), NEW r \in MadeType
    PROVE  LET e == Piece("envelope", 0, r.sig)
               c == Piece(CallKind(r.tool), Len(made) + 1, NoSig)
           IN Answer(Append(made, r), Append(IF r.sig # NoSig THEN Append(output, e) ELSE output, c))
<1> DEFINE e == Piece("envelope", 0, r.sig)
           c == Piece(CallKind(r.tool), Len(made) + 1, NoSig)
           f == IF r.sig # NoSig THEN Append(output, e) ELSE output
           t == Append(f, c)
<1>1. made \in Seq(MadeType) /\ output \in Seq(AnyPiece) /\ AllOf(output, HeadKinds)
      /\ CallsOf(output) = MadeOf(made) /\ Signed(made, output)
  BY DEF Answer
<1>2. /\ c \in AnyPiece /\ Append(made, r) \in Seq(MadeType)
      /\ MadeOf(Append(made, r)) = Append(MadeOf(made), c)
  BY <1>1, MadeGrows
<1>3. /\ c.kind \in CallKinds /\ c.kind \in HeadKinds /\ c.n = Len(made) + 1
      /\ e \in AnyPiece /\ e.kind = "envelope" /\ e.sig = r.sig
      /\ e.kind \in HeadKinds /\ e.kind \notin CallKinds
  BY DEF Piece, AnyPiece, AgyKinds, CallKind, CallKinds, HeadKinds, MadeType
<1> HIDE DEF c, e
<1>4. f \in Seq(AnyPiece) /\ AllOf(f, HeadKinds) /\ Only(f, CallKinds) = MadeOf(made)
  BY <1>1, <1>3, OnePiece, AllGrow, OnlyAppend DEF CallsOf
<1>5. Signed(Append(made, r), t)
  BY <1>1, <1>2, <1>3, SignedCall
<1> HIDE DEF f
<1>6. t \in Seq(AnyPiece) /\ AllOf(t, HeadKinds) /\ CallsOf(t) = Append(MadeOf(made), c)
  BY <1>2, <1>3, <1>4, OnePiece, AllGrow, OnlyAppend DEF CallsOf
<1>7. Answer(Append(made, r), t)
  BY <1>2, <1>5, <1>6 DEF Answer
<1> QED BY <1>7 DEF t, f, c, e

LEMMA SameItems ==
    ASSUME UNCHANGED <<agyClient, agyMade, agyOutput, agyShown>>
    PROVE  Items' = Items
BY DEF Items, AgyResponsesItems, AgyChatItems, AgyGeminiItems, AgyAnthropicItems

LEMMA WordKeeps ==
    ASSUME LoopInv, NEW k \in {"message", "thought"}, AppendWord(k)
    PROVE  LoopInv'
<1>1. /\ agyPhase = "streaming"
      /\ agyOutput' = IF Holds(agyOutput, k) THEN agyOutput ELSE Append(agyOutput, Word(k))
      /\ agyShown' = Shows(agyShown, Word(k))
      /\ UNCHANGED <<agyClient, agyPhase, agyMade, agyCache>>
  BY DEF AppendWord, Streaming
<1>2. /\ agyClient \in AgyClients /\ Answer(agyMade, agyOutput) /\ ShownOK(agyShown)
      /\ Conversed(agyClient, agyMade, agyShown) /\ agyCache \in Signatures \union {NoSig}
  BY DEF LoopInv
<1>3. Answer(agyMade, agyOutput')
  BY <1>1, <1>2, WordAnswer
<1>4. Word(k) \in AnyPiece /\ Word(k).kind \in HeadKinds /\ Word(k).kind \notin {"function"}
      /\ Word(k).kind \notin {"envelope"}
  BY DEF Word, Piece, AnyPiece, AgyKinds, HeadKinds
<1>5. /\ ShownOK(agyShown')
      /\ agyClient # "responses" => Grew(agyShown', agyShown, {"function"}, Word(k))
      /\ agyClient = "anthropic" => Grew(agyShown', agyShown, {"envelope"}, Word(k))
  BY <1>1, <1>2, <1>4, ShowsIs
<1>6. Conversed(agyClient, agyMade, agyShown')
  BY <1>2, <1>4, <1>5 DEF Conversed, Grew
<1> QED BY <1>1, <1>2, <1>3, <1>5, <1>6 DEF LoopInv

LEMMA CallConverses ==
    ASSUME NEW made \in Seq(MadeType), NEW r \in MadeType, NEW client, NEW s, NEW m, NEW t,
           NEW e, NEW c, e = Piece("envelope", 0, r.sig),
           c = Piece(CallKind(r.tool), Len(made) + 1, NoSig),
           ShownOK(s), Conversed(client, made, s),
           r.sig = NoSig => m = s,
           client # "responses" /\ r.sig # NoSig => Grew(m, s, {"function"}, e),
           client = "anthropic" /\ r.sig # NoSig => Grew(m, s, {"envelope"}, e),
           client # "responses" => Grew(t, m, {"function"}, c),
           client = "anthropic" => Grew(t, m, {"envelope"}, c)
    PROVE  Conversed(client, Append(made, r), t)
<1> DEFINE F == {"function"}
           E == {"envelope"}
           more == Append(made, r)
           L == Len(made)
<1>1. /\ c \in AnyPiece /\ MadeOf(more) = Append(MadeOf(made), c) /\ MadeOf(made) \in Seq(AnyPiece)
      /\ more \in Seq(MadeType) /\ Len(more) = L + 1 /\ more[L + 1] = r
      /\ \A i \in 1..L : more[i] = made[i]
  BY MadeGrows, MadeIs
<1>2. /\ e.kind \notin F /\ e.kind \in E /\ c.kind \notin E
      /\ e = Piece("envelope", 0, r.sig)
  BY DEF Piece, CallKind
<1>3. ASSUME client # "responses" PROVE Only(t, F) = Only(MadeOf(more), F)
  <2>1. Only(s, F) = Only(MadeOf(made), F)
    BY <1>3 DEF Conversed
  <2>2. Only(m, F) = Only(s, F)
    BY <1>2, <1>3 DEF Grew
  <2>3. Only(t, F) = IF c.kind \in F THEN Append(Only(m, F), c) ELSE Only(m, F)
    BY <1>3 DEF Grew
  <2>4. Only(Append(MadeOf(made), c), F) = IF c.kind \in F THEN Append(Only(MadeOf(made), F), c) ELSE Only(MadeOf(made), F)
    <3>1. MadeOf(made) \in Seq(AnyPiece) /\ c \in AnyPiece
      BY <1>1
    <3> HIDE DEF F
    <3> QED BY ONLY <3>1, OnlyAppend
  <2> QED BY <1>1, <2>1, <2>2, <2>3, <2>4
<1>4. ASSUME client = "anthropic", FirstOnly(more)
      PROVE  Only(t, E) = IF FirstSigned(more) THEN <<EnvelopeOf(more)>> ELSE <<>>
  <2>0. L \in Nat /\ DOMAIN made = 1..L /\ DOMAIN more = 1..(L + 1)
    BY <1>1
  <2>1. Only(t, E) = Only(m, E)
    BY <1>2, <1>4 DEF Grew
  <2>2. Only(m, E) = IF r.sig # NoSig THEN Append(Only(s, E), e) ELSE Only(s, E)
    BY <1>2, <1>4 DEF Grew
  <2>3. FirstOnly(made)
    <3> SUFFICES ASSUME NEW i \in DOMAIN made, i > 1 PROVE made[i].sig = NoSig
      BY DEF FirstOnly
    <3>1. i \in DOMAIN more /\ more[i] = made[i]
      BY <1>1, <2>0
    <3> QED BY <3>1, <1>4 DEF FirstOnly
  <2>4. Only(s, E) = IF FirstSigned(made) THEN <<EnvelopeOf(made)>> ELSE <<>>
    BY <1>4, <2>3 DEF Conversed
  <2>5. CASE L = 0
    <3>1. made = <<>> /\ more[1] = r /\ more # <<>>
      <4>1. made = <<>>
        BY <2>5
      <4>2. more[1] = r
        BY <1>1, <2>5
      <4>3. 1 \in DOMAIN more /\ DOMAIN <<>> = {}
        BY <2>0, <2>5
      <4>4. more # <<>>
        BY <4>3
      <4> QED BY <4>1, <4>2, <4>4
    <3>2. Only(s, E) = <<>> /\ (FirstSigned(more) <=> r.sig # NoSig) /\ EnvelopeOf(more) = e
      BY <1>2, <2>4, <3>1 DEF FirstSigned, EnvelopeOf
    <3>3. Append(<<>>, e) = <<e>>
      OBVIOUS
    <3> HIDE DEF more
    <3> QED BY <2>1, <2>2, <3>2, <3>3
  <2>6. CASE L # 0
    <3>1. 1 \in 1..L /\ L + 1 > 1 /\ L + 1 \in DOMAIN more /\ 1 \in DOMAIN more
      BY <2>0, <2>6
    <3>2. r.sig = NoSig
      BY <1>1, <1>4, <3>1 DEF FirstOnly
    <3>3. more[1] = made[1] /\ made # <<>> /\ more # <<>>
      <4>1. DOMAIN <<>> = {}
        OBVIOUS
      <4>2. more # <<>> /\ made # <<>>
        BY <2>0, <3>1, <4>1
      <4> QED BY <1>1, <3>1, <4>2
    <3>4. (FirstSigned(more) <=> FirstSigned(made)) /\ EnvelopeOf(more) = EnvelopeOf(made)
      BY <3>3 DEF FirstSigned, EnvelopeOf
    <3> QED BY <2>1, <2>2, <2>4, <3>2, <3>4
  <2> QED BY <2>5, <2>6
<1> QED BY <1>3, <1>4 DEF Conversed

LEMMA CallKeeps ==
    ASSUME LoopInv, NEW t \in AgyTools, NEW s \in Signatures \union {NoSig}, OpenToolCall(t, s)
    PROVE  LoopInv'
<1> DEFINE used == IF s # NoSig THEN s ELSE agyCache
           r == [tool |-> t, sig |-> used]
           e == Piece("envelope", 0, r.sig)
           c == Piece(CallKind(r.tool), Len(agyMade) + 1, NoSig)
           m == IF r.sig # NoSig THEN Shows(agyShown, e) ELSE agyShown
<1>1. /\ agyPhase = "streaming" /\ agyMade' = Append(agyMade, r) /\ agyCache' = NoSig
      /\ agyOutput' = Append(IF r.sig # NoSig THEN Append(agyOutput, e) ELSE agyOutput, c)
      /\ agyShown' = Shows(m, c)
      /\ UNCHANGED <<agyClient, agyPhase>>
  BY DEF OpenToolCall, Streaming
<1>2. /\ agyClient \in AgyClients /\ Answer(agyMade, agyOutput) /\ ShownOK(agyShown)
      /\ Conversed(agyClient, agyMade, agyShown) /\ agyCache \in Signatures \union {NoSig}
      /\ agyMade \in Seq(MadeType)
  BY DEF LoopInv, Answer
<1>3. r \in MadeType
  BY <1>2 DEF MadeType
<1> HIDE DEF r
<1>4. Answer(agyMade', agyOutput')
  BY <1>1, <1>2, <1>3, CallAnswer
<1>5. e \in AnyPiece /\ e.kind \in HeadKinds /\ c \in AnyPiece /\ c.kind \in HeadKinds
  <2>1. Len(agyMade) + 1 \in Nat
    BY <1>2
  <2> QED BY <1>3, <2>1 DEF MadeType, Piece, AnyPiece, AgyKinds, CallKind, HeadKinds
<1> HIDE DEF e, c
<1>6. /\ ShownOK(m)
      /\ r.sig = NoSig => m = agyShown
      /\ agyClient # "responses" /\ r.sig # NoSig => Grew(m, agyShown, {"function"}, e)
      /\ agyClient = "anthropic" /\ r.sig # NoSig => Grew(m, agyShown, {"envelope"}, e)
  BY <1>2, <1>5, ShowsIs
<1> HIDE DEF m
<1>7. /\ ShownOK(agyShown')
      /\ agyClient # "responses" => Grew(agyShown', m, {"function"}, c)
      /\ agyClient = "anthropic" => Grew(agyShown', m, {"envelope"}, c)
  BY <1>1, <1>2, <1>5, <1>6, ShowsIs
<1>8. Conversed(agyClient, agyMade', agyShown')
  <2>1. e = Piece("envelope", 0, r.sig) /\ c = Piece(CallKind(r.tool), Len(agyMade) + 1, NoSig)
    BY DEF e, c
  <2>2. Conversed(agyClient, Append(agyMade, r), agyShown')
    BY <1>2, <1>3, <1>6, <1>7, <2>1, CallConverses
  <2> QED BY <1>1, <2>2
<1> QED BY <1>1, <1>2, <1>4, <1>7, <1>8 DEF LoopInv

LEMMA LoopNext == LoopInv /\ [AgyNext]_agyVars => LoopInv'
<1> SUFFICES ASSUME LoopInv, [AgyNext]_agyVars PROVE LoopInv'
  OBVIOUS
<1>1. ASSUME UNCHANGED <<agyClient, agyMade, agyOutput, agyShown>>,
             agyCache' \in Signatures \union {NoSig},
             agyPhase' # "replayed" \/ agyBack' = Converted(Items)
      PROVE  LoopInv'
  BY <1>1, SameItems DEF LoopInv
<1>2. agyCache \in Signatures \union {NoSig} /\ (agyPhase = "replayed" => agyBack = Converted(Items))
  BY DEF LoopInv
<1>3. CASE NextFrame
  BY <1>1, <1>3 DEF NextFrame, Streaming
<1>4. ASSUME NEW s \in Signatures, LoneSignature(s) PROVE LoopInv'
  BY <1>1, <1>4 DEF LoneSignature, Streaming
<1>5. ASSUME NEW k \in {"message", "thought"}, AppendWord(k) PROVE LoopInv'
  BY <1>5, WordKeeps
<1>6. ASSUME NEW t \in AgyTools, NEW s \in Signatures \union {NoSig}, OpenToolCall(t, s) PROVE LoopInv'
  BY <1>6, CallKeeps
<1>7. ASSUME NEW st, AgyFinish(st) PROVE LoopInv'
  BY <1>1, <1>7 DEF AgyFinish
<1>8. CASE Replay
  BY <1>1, <1>2, <1>8 DEF Replay
<1>9. CASE UNCHANGED agyVars
  BY <1>1, <1>2, <1>9 DEF agyVars
<1> QED BY <1>3, <1>4, <1>5, <1>6, <1>7, <1>8, <1>9 DEF AgyNext

-----------------------------------------------------------------------------
(* The history of each client is the turn it was given, and its results.    *)

LEMMA ResultsAre ==
    ASSUME NEW calls \in Seq(AnyPiece)
    PROVE  /\ Results(calls) \in Seq(AnyPiece) /\ Len(Results(calls)) = Len(calls)
           /\ \A i \in 1..Len(calls) : Results(calls)[i] = ResultOf(calls[i])
<1> DEFINE t == Results(calls)
<1>1. DOMAIN calls = 1..Len(calls) /\ Len(calls) \in Nat /\ \A i \in 1..Len(calls) : calls[i] \in AnyPiece
  OBVIOUS
<1>2. t = [i \in 1..Len(calls) |-> ResultOf(calls[i])]
  BY <1>1 DEF Results, ResultOf
<1>3. \A i \in 1..Len(calls) : ResultOf(calls[i]) \in AnyPiece
  BY <1>1, ResultIs
<1> HIDE DEF t
<1>4. t \in Seq(AnyPiece) /\ Len(t) = Len(calls)
  BY <1>1, <1>2, <1>3
<1>5. \A i \in 1..Len(calls) : t[i] = ResultOf(calls[i])
  BY <1>2
<1> QED BY <1>4, <1>5 DEF t

LEMMA AllJoin ==
    ASSUME NEW a \in Seq(AnyPiece), NEW b \in Seq(AnyPiece), NEW K, AllOf(a, K), AllOf(b, K)
    PROVE  AllOf(a \o b, K)
<1> DEFINE t == a \o b
           L == Len(a)
<1>1. /\ L \in Nat /\ Len(b) \in Nat /\ DOMAIN t = 1..(L + Len(b))
      /\ DOMAIN a = 1..L /\ DOMAIN b = 1..Len(b)
      /\ (\A i \in 1..L : t[i] = a[i]) /\ (\A i \in 1..Len(b) : t[L + i] = b[i])
  BY JoinIs
<1> HIDE DEF t, L
<1>2. ASSUME NEW i \in DOMAIN t PROVE t[i].kind \in K
  <2>1. CASE i \in 1..L
    BY <1>1, <2>1 DEF AllOf
  <2>2. CASE i \notin 1..L
    <3>1. i - L \in 1..Len(b) /\ L + (i - L) = i
      BY <1>1, <2>2
    <3>2. t[L + (i - L)] = b[i - L]
      BY <1>1, <3>1
    <3> QED BY <1>1, <3>1, <3>2 DEF AllOf
  <2> QED BY <2>1, <2>2
<1> QED BY <1>2 DEF AllOf, t

LEMMA HistoryReplayed ==
    ASSUME LoopInv, agyPhase = "replayed", NEW head \in Seq(AnyPiece), AllOf(head, HeadKinds),
           NEW kinds, kinds = IF agyClient = "responses" THEN {"function", "custom"} ELSE {"function"},
           CallsOf(head) = Only(MadeOf(agyMade), kinds), NEW results,
           results = Results(CallsOf(head)), Items = head \o results
    PROVE  TurnComesBack /\ (Signed(agyMade, head) => Carries(agyMade, FlatParts))
<1> DEFINE calls == CallsOf(head)
<1>1. agyMade \in Seq(MadeType) /\ agyBack = Converted(head \o results)
  BY DEF LoopInv, Answer
<1>2. calls \in Seq(AnyPiece) /\ OneEach(calls)
  BY <1>1, MadeIs, OnlyTyped, OnlyOneEach
<1>3. /\ results \in Seq(AnyPiece) /\ Len(results) = Len(calls)
      /\ \A i \in 1..Len(results) : results[i] = ResultOf(calls[i])
  <2>1. results = Results(calls)
    OBVIOUS
  <2> HIDE DEF calls
  <2> QED BY <1>2, <2>1, ResultsAre
<1>4. BackOK(agyMade, calls, agyBack) /\ (Signed(agyMade, head) => Carries(agyMade, FlatOf(agyBack)))
  BY <1>1, <1>2, <1>3, HistoryBack
<1>5. FlatParts = FlatOf(agyBack)
  BY DEF FlatParts, FlatOf, Parts
<1>6. calls = Only([i \in DOMAIN agyMade |-> Piece(CallKind(agyMade[i].tool), i, NoSig)], kinds)
  BY DEF MadeOf
<1> HIDE DEF calls
<1>7. TurnComesBack
  <2>1. /\ agyBack.ok /\ Numbers(Only(FlatParts, {"function", "custom"})) = Numbers(calls)
        /\ \A i \in DOMAIN calls : \E j, k \in DOMAIN FlatParts :
              /\ j < k /\ FlatParts[j].n = calls[i].n /\ FlatParts[j].kind = calls[i].kind
              /\ FlatParts[k] = Piece("output", calls[i].n, NoSig)
    BY <1>4, <1>5 DEF BackOK, CallsOf, CallKinds, ResultOf
  <2> QED BY <1>6, <2>1 DEF TurnComesBack
<1> QED BY <1>4, <1>5, <1>7

LEMMA ResponsesReplayed ==
    ASSUME LoopInv, agyPhase = "replayed", agyClient = "responses"
    PROVE  TurnReplayed
<1>1. /\ agyOutput \in Seq(AnyPiece) /\ AllOf(agyOutput, HeadKinds) /\ agyMade \in Seq(MadeType)
      /\ CallsOf(agyOutput) = MadeOf(agyMade) /\ Signed(agyMade, agyOutput)
  BY DEF LoopInv, Answer
<1>2. Items = agyOutput \o Results(CallsOf(agyOutput))
  BY DEF Items, AgyResponsesItems, CallsOf, CallKinds
<1>3. Only(MadeOf(agyMade), {"function", "custom"}) = MadeOf(agyMade)
  <2>1. MadeOf(agyMade) \in Seq(AnyPiece) /\ AllOf(MadeOf(agyMade), {"function", "custom"})
    BY <1>1, MadeIs DEF AllOf, CallKinds
  <2> QED BY <2>1, OnlyAll
<1>4. TurnComesBack /\ Carries(agyMade, FlatParts)
  BY <1>1, <1>2, <1>3, HistoryReplayed
<1> QED BY <1>4 DEF TurnReplayed, SignaturesReturn, Carries, CallKinds

(* What an Anthropic and a chat client have of the calls. *)
LEMMA FunctionsAre ==
    ASSUME LoopInv, agyClient # "responses"
    PROVE  /\ agyShown \in Seq(AnyPiece)
           /\ Only(agyShown, {"function"}) \in Seq(AnyPiece)
           /\ Only(agyShown, {"function"}) = Only(MadeOf(agyMade), {"function"})
           /\ AllOf(Only(agyShown, {"function"}), {"function"})
           /\ AllOf(Only(agyShown, {"function"}), HeadKinds)
           /\ CallsOf(Only(agyShown, {"function"})) = Only(agyShown, {"function"})
<1>1. agyShown \in Seq(AnyPiece) /\ Only(agyShown, {"function"}) = Only(MadeOf(agyMade), {"function"})
  BY DEF LoopInv, ShownOK, Conversed
<1>2. Only(agyShown, {"function"}) \in Seq(AnyPiece) /\ AllOf(Only(agyShown, {"function"}), {"function"})
  BY <1>1, OnlyTyped DEF AllOf
<1>3. AllOf(Only(agyShown, {"function"}), HeadKinds) /\ AllOf(Only(agyShown, {"function"}), CallKinds)
  BY <1>2 DEF AllOf, HeadKinds, CallKinds
<1> QED BY <1>1, <1>2, <1>3, OnlyAll DEF CallsOf

LEMMA Spoken ==
    ASSUME NEW b
    PROVE  LET M == IF b THEN <<Word("message")>> ELSE <<>>
           IN /\ M \in Seq(AnyPiece) /\ AllOf(M, {"message"}) /\ AllOf(M, HeadKinds) /\ CallsOf(M) = <<>>
<1> DEFINE M == IF b THEN <<Word("message")>> ELSE <<>>
<1>1. Word("message") \in AnyPiece /\ Word("message").kind = "message"
  BY DEF Word, Piece, AnyPiece, AgyKinds
<1>2. M \in Seq(AnyPiece) /\ AllOf(M, {"message"})
  BY <1>1 DEF AllOf
<1> HIDE DEF M
<1>3. AllOf(M, HeadKinds)
  BY <1>2 DEF AllOf, HeadKinds
<1>4. CallsOf(M) = <<>>
  <2>1. CallKinds \intersect {"message"} = {}
    BY DEF CallKinds
  <2> QED BY <1>2, <2>1, OnlyNone DEF CallsOf
<1> QED BY <1>2, <1>3, <1>4 DEF M

LEMMA ChatReplayed ==
    ASSUME LoopInv, agyPhase = "replayed", agyClient = "chat-completions"
    PROVE  TurnReplayed
<1> DEFINE calls == Only(agyShown, {"function"})
           M == IF Holds(agyShown, "message") THEN <<Word("message")>> ELSE <<>>
           head == M \o calls
<1>1. /\ calls \in Seq(AnyPiece) /\ calls = Only(MadeOf(agyMade), {"function"})
      /\ AllOf(calls, HeadKinds) /\ CallsOf(calls) = calls
  BY FunctionsAre
<1>2. M \in Seq(AnyPiece) /\ AllOf(M, HeadKinds) /\ CallsOf(M) = <<>>
  BY Spoken
<1>3. Items = head \o Results(calls)
  BY DEF Items, AgyChatItems
<1> HIDE DEF calls, M
<1>4. head \in Seq(AnyPiece) /\ AllOf(head, HeadKinds)
  BY <1>1, <1>2, AllJoin, JoinIs
<1>5. CallsOf(head) = calls
  <2>1. CallsOf(head) = CallsOf(M) \o CallsOf(calls)
    BY <1>1, <1>2, OnlyJoin DEF CallsOf
  <2>2. <<>> \o calls = calls
    BY <1>1
  <2> QED BY <1>1, <1>2, <2>1, <2>2
<1> HIDE DEF head
<1>6. TurnComesBack
  BY <1>1, <1>3, <1>4, <1>5, HistoryReplayed
<1> QED BY <1>6 DEF TurnReplayed, SignaturesReturn

LEMMA GeminiReplayed ==
    ASSUME LoopInv, agyPhase = "replayed", agyClient = "gemini"
    PROVE  TurnReplayed
<1> SUFFICES ASSUME Distinct PROVE TurnComesBack
  BY DEF TurnReplayed, SignaturesReturn, TurnComesBack
<1> DEFINE calls == Only(agyShown, {"function"})
           head == Only(agyShown, {"message", "function"})
           tool(i) == agyMade[calls[i].n].tool
           same(i) == {j \in DOMAIN calls : tool(j) = tool(i)}
           lastOf(i) == CHOOSE j \in same(i) : \A k \in same(i) : k <= j
           paired == [i \in DOMAIN calls |->
                        IF \E j \in 1..(i - 1) : tool(j) = tool(i)
                        THEN Word("unpaired") ELSE Piece("output", calls[lastOf(i)].n, NoSig)]
<1>1. /\ agyShown \in Seq(AnyPiece) /\ calls \in Seq(AnyPiece)
      /\ calls = Only(MadeOf(agyMade), {"function"})
  BY FunctionsAre
<1>2. head \in Seq(AnyPiece) /\ AllOf(head, HeadKinds)
  BY <1>1, OnlyTyped DEF AllOf, HeadKinds
<1>3. CallsOf(head) = calls
  <2>1. {"message", "function"} \intersect CallKinds = {"function"}
    BY DEF CallKinds
  <2>2. Only(Only(agyShown, {"message", "function"}), CallKinds)
          = Only(agyShown, {"message", "function"} \intersect CallKinds)
    BY <1>1, OnlyOnly
  <2> QED BY <2>1, <2>2 DEF CallsOf
<1>4. Items = head \o paired
  BY DEF Items, AgyGeminiItems
<1>5. agyMade \in Seq(MadeType)
  BY DEF LoopInv, Answer
<1>6. /\ OneEach(calls) /\ \A i \in DOMAIN calls : calls[i].n \in DOMAIN agyMade
  <2> DEFINE s == MadeOf(agyMade)
  <2>1. /\ s \in Seq(AnyPiece) /\ OneEach(s) /\ DOMAIN s = DOMAIN agyMade
        /\ \A i \in DOMAIN s : s[i].n = i
    <3>1. /\ s \in Seq(AnyPiece) /\ OneEach(s) /\ Len(s) = Len(agyMade)
          /\ DOMAIN agyMade = 1..Len(agyMade) /\ \A i \in 1..Len(agyMade) : s[i].n = i
      BY <1>5, MadeIs
    <3>2. DOMAIN s = 1..Len(s)
      BY <3>1
    <3> HIDE DEF s
    <3> QED BY <3>1, <3>2
  <2> HIDE DEF s
  <2>2. calls = Only(s, {"function"})
    BY <1>1 DEF s
  <2>3. \A i \in DOMAIN calls : \E j \in DOMAIN s : s[j] = calls[i]
    BY <2>1, <2>2, OnlyTyped
  <2>4. OneEach(calls)
    BY <2>1, <2>2, OnlyOneEach
  <2> QED BY <2>1, <2>3, <2>4
<1> HIDE DEF calls
<1>7. \A i, j \in DOMAIN calls : tool(i) = tool(j) => i = j
  BY <1>6 DEF Distinct, OneEach
<1>8. ASSUME NEW i \in DOMAIN calls
      PROVE  /\ ~\E j \in 1..(i - 1) : tool(j) = tool(i)
             /\ lastOf(i) = i
  <2>1. DOMAIN calls = 1..Len(calls) /\ Len(calls) \in Nat
    BY <1>1
  <2>2. i \in Nat /\ \A j \in 1..(i - 1) : j \in DOMAIN calls /\ j # i
    BY <2>1
  <2>3. ~\E j \in 1..(i - 1) : tool(j) = tool(i)
    BY <1>7, <2>2
  <2>4. same(i) = {i}
    BY <1>7
  <2> HIDE DEF same
  <2>5. lastOf(i) \in same(i)
    <3>1. i \in same(i) /\ \A k \in same(i) : k <= i
      BY <2>2, <2>4
    <3> QED BY <3>1
  <2>6. lastOf(i) = i
    BY <2>4, <2>5
  <2> QED BY <2>3, <2>6 DEF same
<1>9. paired = Results(calls)
  <2>1. \A i \in DOMAIN calls : (IF \E j \in 1..(i - 1) : tool(j) = tool(i)
                        THEN Word("unpaired") ELSE Piece("output", calls[lastOf(i)].n, NoSig))
                  = Piece("output", calls[i].n, NoSig)
    <3> HIDE DEF lastOf, tool
    <3> QED BY <1>8
  <2> HIDE DEF lastOf, tool
  <2> QED BY <2>1 DEF Results
<1> HIDE DEF head, paired
<1> QED BY <1>1, <1>2, <1>3, <1>4, <1>9, HistoryReplayed

(* An Anthropic turn of which only the first call is signed: what stands    *)
(* before the calls is text and, last, the envelope of the first.           *)
Opening(made, pre) ==
    /\ \A i \in 1..Len(pre) : pre[i].kind = "message"
          \/ (i = Len(pre) /\ FirstSigned(made) /\ pre[i] = EnvelopeOf(made))
    /\ FirstSigned(made) => Len(pre) >= 1 /\ pre[Len(pre)] = EnvelopeOf(made)

LEMMA OpeningSigned ==
    ASSUME NEW made \in Seq(MadeType), FirstOnly(made), NEW pre \in Seq(AnyPiece), Opening(made, pre)
    PROVE  Signed(made, pre \o MadeOf(made))
<1> DEFINE calls == MadeOf(made)
           t == pre \o calls
           L == Len(pre)
           C == Len(made)
<1>1. /\ calls \in Seq(AnyPiece) /\ Len(calls) = C /\ C \in Nat /\ DOMAIN made = 1..C
      /\ \A i \in 1..C : calls[i].kind \in CallKinds /\ calls[i].n = i
  BY MadeIs
<1> HIDE DEF calls
<1>2. /\ L \in Nat /\ Len(t) = L + C
      /\ (\A i \in 1..L : t[i] = pre[i]) /\ (\A i \in 1..C : t[L + i] = calls[i])
  <2> HIDE DEF C
  <2>1. pre \in Seq(AnyPiece) /\ calls \in Seq(AnyPiece)
    BY <1>1
  <2>2. /\ L \in Nat /\ Len(t) = L + Len(calls)
        /\ (\A i \in 1..L : t[i] = pre[i]) /\ (\A i \in 1..Len(calls) : t[L + i] = calls[i])
    BY ONLY <2>1, JoinIs
  <2> QED BY <1>1, <2>2
<1>3. FirstSigned(made) => C >= 1 /\ 1 \in 1..C
  <2> SUFFICES ASSUME FirstSigned(made), C = 0 PROVE FALSE
    BY <1>1
  <2> QED BY <1>1 DEF FirstSigned
<1>4. FirstSigned(made) => /\ EnvelopeOf(made).kind = "envelope" /\ EnvelopeOf(made).sig = made[1].sig
                           /\ made[1].sig # NoSig
  BY DEF FirstSigned, EnvelopeOf, Piece
<1>5. \A k \in CallKinds : k # "envelope" /\ k # "thought" /\ k # "message"
  BY DEF CallKinds
<1>6. /\ \A i \in 1..L : pre[i].kind = "message"
            \/ (i = L /\ FirstSigned(made) /\ pre[i] = EnvelopeOf(made))
      /\ FirstSigned(made) => L >= 1 /\ pre[L] = EnvelopeOf(made)
  BY DEF Opening
<1> HIDE DEF t, L, C
<1>7. ASSUME NEW i \in 1..(L + C)
      PROVE  /\ t[i].kind = "envelope" =>
                   t[i].sig # NoSig /\ i + 1 \in 1..(L + C) /\ t[i + 1].kind \in CallKinds
             /\ t[i].kind = "thought" => t[i].sig = NoSig
             /\ t[i].kind \in CallKinds => t[i].n \in DOMAIN made /\ made[t[i].n].sig = Before(t, i)
  <2>1. CASE i \in 1..L /\ pre[i].kind = "message"
    <3>1. t[i].kind = "message"
      BY <1>2, <2>1
    <3> QED BY <3>1, <1>5
  <2>2. CASE i \in 1..L /\ pre[i].kind # "message"
    <3>1. i = L /\ FirstSigned(made) /\ t[i] = EnvelopeOf(made)
      BY <1>2, <1>6, <2>2
    <3>2. i + 1 \in 1..(L + C) /\ t[i + 1] = calls[1] /\ 1 \in 1..C
      BY <1>1, <1>2, <1>3, <3>1
    <3> QED BY <1>1, <1>4, <1>5, <3>1, <3>2
  <2>3. CASE i \notin 1..L
    <3> DEFINE j == i - L
    <3>1. j \in 1..C /\ L + j = i
      BY <1>1, <1>2, <2>3
    <3>2. t[L + j] = calls[j]
      BY <1>2, <3>1
    <3>3. t[i].kind \in CallKinds /\ t[i].n = j /\ j \in DOMAIN made
      BY <1>1, <3>1, <3>2
    <3>4. Before(t, i) = made[j].sig
      <4>1. CASE j > 1
        <5>1. j - 1 \in 1..C /\ i > 1 /\ L + (j - 1) = i - 1
          BY <1>1, <1>2, <3>1, <4>1
        <5>2. t[L + (j - 1)] = calls[j - 1]
          BY <1>2, <5>1
        <5>3. t[i - 1].kind \in CallKinds
          BY <1>1, <5>1, <5>2
        <5>4. made[j].sig = NoSig
          BY <3>3, <4>1 DEF FirstOnly
        <5> QED BY <1>5, <5>3, <5>4 DEF Before
      <4>2. CASE j = 1 /\ FirstSigned(made)
        <5>1. i - 1 = L /\ i > 1 /\ L \in 1..L
          BY <1>2, <1>6, <3>1, <4>2
        <5>2. t[i - 1] = EnvelopeOf(made)
          BY <1>2, <1>6, <4>2, <5>1
        <5> QED BY <1>4, <4>2, <5>1, <5>2 DEF Before
      <4>3. CASE j = 1 /\ ~FirstSigned(made)
        <5>1. made[1].sig = NoSig
          <6>1. 1 \in DOMAIN made /\ DOMAIN <<>> = {}
            BY <3>3, <4>3
          <6>2. made # <<>>
            BY <6>1
          <6> QED BY <6>2, <4>3 DEF FirstSigned
        <5>2. ~(i > 1 /\ t[i - 1].kind = "envelope")
          <6> SUFFICES ASSUME i > 1 PROVE t[i - 1].kind # "envelope"
            OBVIOUS
          <6>1. i - 1 = L /\ L \in 1..L
            BY <1>2, <3>1, <4>3
          <6>2. t[i - 1] = pre[L] /\ pre[L].kind = "message"
            BY <1>2, <1>6, <4>3, <6>1
          <6> QED BY <6>2
        <5> QED BY <4>3, <5>1, <5>2 DEF Before
      <4> QED BY <3>1, <4>1, <4>2, <4>3
    <3> HIDE DEF j
    <3> QED BY <1>5, <3>3, <3>4
  <2> QED BY <2>1, <2>2, <2>3
<1> QED BY <1>2, <1>7 DEF Signed, t, calls

LEMMA AnthropicReplayed ==
    ASSUME LoopInv, agyPhase = "replayed", agyClient = "anthropic"
    PROVE  TurnReplayed
<1> DEFINE calls == Only(agyShown, {"function"})
           M == IF Holds(agyShown, "message") \/ Holds(agyShown, "thought")
                THEN <<Word("message")>> ELSE <<>>
           E == Only(agyShown, {"envelope"})
           pre == M \o E
           head == pre \o calls
<1>1. /\ agyShown \in Seq(AnyPiece) /\ calls \in Seq(AnyPiece) /\ calls = Only(MadeOf(agyMade), {"function"})
      /\ AllOf(calls, HeadKinds) /\ CallsOf(calls) = calls
  BY FunctionsAre
<1>2. M \in Seq(AnyPiece) /\ AllOf(M, {"message"}) /\ AllOf(M, HeadKinds) /\ CallsOf(M) = <<>>
  BY Spoken
<1>3. E \in Seq(AnyPiece) /\ AllOf(E, {"envelope"}) /\ AllOf(E, HeadKinds) /\ CallsOf(E) = <<>>
  <2>1. E \in Seq(AnyPiece) /\ AllOf(E, {"envelope"})
    BY <1>1, OnlyTyped DEF AllOf
  <2> HIDE DEF E
  <2>2. AllOf(E, HeadKinds)
    BY <2>1 DEF AllOf, HeadKinds
  <2>3. CallKinds \intersect {"envelope"} = {}
    BY DEF CallKinds
  <2> QED BY <2>1, <2>2, <2>3, OnlyNone DEF CallsOf
<1>4. Items = head \o Results(calls)
  BY DEF Items, AgyAnthropicItems
<1>5. /\ agyMade \in Seq(MadeType)
      /\ FirstOnly(agyMade) => E = IF FirstSigned(agyMade) THEN <<EnvelopeOf(agyMade)>> ELSE <<>>
  BY DEF LoopInv, Answer, Conversed
<1>6. M = <<>> \/ (M = <<Word("message")>> /\ Word("message").kind = "message")
  BY DEF Word, Piece
<1> HIDE DEF calls, M, E
<1>7. pre \in Seq(AnyPiece) /\ AllOf(pre, HeadKinds) /\ CallsOf(pre) = <<>>
  <2>1. CallsOf(pre) = CallsOf(M) \o CallsOf(E)
    BY <1>2, <1>3, OnlyJoin DEF CallsOf
  <2>2. <<>> \o <<>> = <<>>
    OBVIOUS
  <2> QED BY <1>2, <1>3, <2>1, <2>2, AllJoin, JoinIs
<1>8. ASSUME FirstOnly(agyMade) PROVE Opening(agyMade, pre)
  <2>1. /\ Len(pre) = Len(M) + Len(E) /\ Len(M) \in Nat /\ Len(E) \in Nat
        /\ (\A i \in 1..Len(M) : pre[i] = M[i]) /\ (\A i \in 1..Len(E) : pre[Len(M) + i] = E[i])
    BY <1>2, <1>3, JoinIs
  <2>2. \A i \in 1..Len(M) : M[i].kind = "message"
    BY <1>2 DEF AllOf
  <2> HIDE DEF pre
  <2>3. CASE FirstSigned(agyMade)
    <3>1. Len(E) = 1 /\ E[1] = EnvelopeOf(agyMade)
      BY <1>5, <1>8, <2>3
    <3>2. Len(pre) = Len(M) + 1 /\ Len(pre) >= 1 /\ pre[Len(pre)] = EnvelopeOf(agyMade)
      BY <2>1, <3>1
    <3>3. \A i \in 1..Len(pre) : i = Len(pre) \/ i \in 1..Len(M)
      BY <2>1, <3>2
    <3> QED BY <2>1, <2>2, <2>3, <3>2, <3>3 DEF Opening
  <2>4. CASE ~FirstSigned(agyMade)
    <3>1. Len(E) = 0
      BY <1>5, <1>8, <2>4
    <3>2. Len(pre) = Len(M)
      BY <2>1, <3>1
    <3> QED BY <2>1, <2>2, <2>4, <3>2 DEF Opening
  <2> QED BY <2>3, <2>4
<1> HIDE DEF pre
<1>9. head \in Seq(AnyPiece) /\ AllOf(head, HeadKinds)
  BY <1>1, <1>7, AllJoin, JoinIs
<1>10. CallsOf(head) = calls
  <2>1. CallsOf(head) = CallsOf(pre) \o CallsOf(calls)
    BY <1>1, <1>7, OnlyJoin DEF CallsOf
  <2>2. <<>> \o calls = calls
    BY <1>1
  <2> QED BY <1>1, <1>7, <2>1, <2>2
<1>11. ASSUME FirstOnly(agyMade), \A i \in DOMAIN agyMade : agyMade[i].tool \notin AgyCustom
       PROVE  Signed(agyMade, head)
  <2> DEFINE s == MadeOf(agyMade)
  <2>1. /\ s \in Seq(AnyPiece) /\ DOMAIN agyMade = 1..Len(agyMade)
        /\ Len(s) = Len(agyMade)
        /\ \A i \in 1..Len(agyMade) : s[i] = Piece(CallKind(agyMade[i].tool), i, NoSig)
    BY <1>5, MadeIs
  <2>2. \A i \in DOMAIN agyMade : Piece(CallKind(agyMade[i].tool), i, NoSig).kind = "function"
    BY <1>11 DEF Piece, CallKind
  <2> HIDE DEF s
  <2>3. DOMAIN s = 1..Len(agyMade)
    BY <2>1
  <2>4. AllOf(s, {"function"})
    BY <2>1, <2>2, <2>3 DEF AllOf
  <2>5. calls = s
    BY <1>1, <2>1, <2>4, OnlyAll DEF s
  <2>6. Signed(agyMade, pre \o s)
    BY <1>5, <1>7, <1>8, <1>11, OpeningSigned DEF s
  <2> QED BY <2>5, <2>6
<1> HIDE DEF head
<1>12. TurnComesBack /\ (Signed(agyMade, head) => Carries(agyMade, FlatParts))
  BY <1>1, <1>4, <1>9, <1>10, HistoryReplayed
<1>13. SignaturesReturn
  <2> SUFFICES ASSUME \A i \in DOMAIN agyMade :
                        /\ agyMade[i].tool \notin AgyCustom
                        /\ i > 1 => agyMade[i].sig = NoSig
               PROVE  Carries(agyMade, FlatParts)
    BY DEF SignaturesReturn, Carries, CallKinds
  <2>1. FirstOnly(agyMade) /\ \A i \in DOMAIN agyMade : agyMade[i].tool \notin AgyCustom
    BY DEF FirstOnly
  <2> QED BY <1>11, <1>12, <2>1
<1> QED BY <1>12, <1>13 DEF TurnReplayed

(* What a client was given of a completed turn and sent back is the turn    *)
(* that was made, whoever the client is: each of its calls once and in      *)
(* order, each answered after it, and each signature with the call it was   *)
(* issued for (createAgyClientResponse, and pendingSignature of             *)
(* translateAgyRequest).                                                    *)
THEOREM TurnsReplayed == AgySpec => []TurnReplayed
<1>1. LoopInv => TurnReplayed
  <2> SUFFICES ASSUME LoopInv PROVE TurnReplayed
    OBVIOUS
  <2>1. CASE agyPhase # "replayed"
    BY <2>1 DEF TurnReplayed, TurnComesBack, SignaturesReturn
  <2>2. CASE agyPhase = "replayed"
    <3>1. agyClient \in AgyClients
      BY DEF LoopInv
    <3> QED BY <2>2, <3>1, ResponsesReplayed, ChatReplayed, GeminiReplayed, AnthropicReplayed DEF AgyClients
  <2> QED BY <2>1, <2>2
<1> QED BY <1>1, LoopInit, LoopNext, PTL DEF AgySpec

-----------------------------------------------------------------------------
(* The request logs.                                                       *)

USE LogAssumption

(* A file that some connection holds is no candidate of a sweep. *)
LEMMA HeldIsActive ==
    ASSUME NEW c \in Sockets, NEW all
    PROVE  holds[c] \notin Candidates(all)
<1> DEFINE holders == {d \in Sockets : holds[d] = holds[c]}
<1>1. c \in holders /\ IsFiniteSet(holders)
    BY FS_Subset
<1>2. Cardinality(holders) # 0
    BY <1>1, FS_EmptySet
<1> QED
    BY <1>2 DEF Candidates, ActiveCount

LEMMA AppendKeepsHeld ==
    ASSUME NEW f, LogAppend(f), NEW c \in Sockets, holds[c] \in files
    PROVE  holds[c] \in files'
<1> DEFINE all   == files \union {f}
           order == [g \in Names |-> IF g = f THEN all \ {f} ELSE older[g] \ {f}]
<1>1. files' = IF Due THEN all \ Stale(all, order) ELSE all
    BY DEF LogAppend
<1>2. holds[c] \notin Stale(all, order)
    BY HeldIsActive DEF Stale
<1> QED
    BY <1>1, <1>2

(* Only request logs are in the directory. *)
Named == files \subseteq Names /\ holds \in [Sockets -> Names \union {NoFile}]

LEMMA AppendNamed ==
    ASSUME NEW f \in Names, LogAppend(f), files \subseteq Names
    PROVE  files' \subseteq Names
    BY DEF LogAppend

LEMMA NamedAlways == LogSpec => []Named
<1>1. LogInit => Named
    BY DEF LogInit, Named
<1>2. Named /\ [LogNext]_logVars => Named'
  <2> SUFFICES ASSUME Named, [LogNext]_logVars PROVE Named'
      OBVIOUS
  <2>1. ASSUME NEW f \in Names, Write(f) PROVE Named'
      BY <2>1, AppendNamed DEF Write, Named
  <2>2. ASSUME NEW c \in Sockets, WriteHeld(c) PROVE Named'
    <3>1. holds[c] \in Names
        BY <2>2 DEF WriteHeld, Named
    <3> QED
        BY <2>2, <3>1, AppendNamed DEF WriteHeld, Named
  <2>3. ASSUME NEW c \in Sockets, Release(c) \/ \E f \in Names : Retain(c, f) PROVE Named'
      BY <2>3 DEF Release, Retain, Named
  <2>4. CASE LogRestart
      BY <2>4 DEF LogRestart, Named
  <2>5. CASE UNCHANGED logVars
      BY <2>5 DEF logVars, Named
  <2> QED
      BY <2>1, <2>2, <2>3, <2>4, <2>5 DEF LogNext
<1> QED
    BY <1>1, <1>2, PTL DEF LogSpec

LEMMA HeldStep ==
    Named /\ [LogNext]_logVars =>
       [\A c \in Sockets : holds[c] \in files /\ holds'[c] = holds[c] => holds[c] \in files']_logVars
<1> SUFFICES ASSUME Named, LogNext, NEW c \in Sockets, holds[c] \in files, holds'[c] = holds[c]
             PROVE  holds[c] \in files'
    OBVIOUS
<1>1. CASE \E f \in Names : Write(f)
    BY <1>1, AppendKeepsHeld DEF Write
<1>2. CASE \E d \in Sockets : WriteHeld(d)
    BY <1>2, AppendKeepsHeld DEF WriteHeld
<1>3. CASE \E d \in Sockets : Release(d) \/ \E f \in Names : Retain(d, f)
    BY <1>3 DEF Release, Retain
<1>4. CASE LogRestart
    BY <1>4 DEF LogRestart, Named
<1> QED
    BY <1>1, <1>2, <1>3, <1>4 DEF LogNext

(* No interleaving of writes, connections and sweeps deletes the file of a *)
(* connection that is still open.                                          *)
THEOREM SessionsKeepFiles == LogSpec => HeldFilesStay
    BY NamedAlways, HeldStep, PTL DEF LogSpec, HeldFilesStay

(* What remains of an ordered directory is ordered. *)
Ordered(all, order) ==
    /\ all \subseteq Names
    /\ order \in [Names -> SUBSET all]
    /\ \A f, g \in all : f # g => (f \in order[g] <=> g \notin order[f])
    /\ \A f, g, h \in all : f \in order[g] /\ g \in order[h] => f \in order[h]
    /\ \A f \in Names : f \notin order[f]

LEMMA KeptOrdered ==
    ASSUME NEW all, NEW order, Ordered(all, order), NEW kept \in SUBSET all
    PROVE  Ordered(kept, [g \in Names |-> IF g \in kept THEN order[g] \intersect kept ELSE {}])
BY DEF Ordered

LEMMA NewestOrdered ==
    ASSUME Ordered(files, older), NEW file \in Names
    PROVE  Ordered(files \union {file},
                   [g \in Names |-> IF g = file THEN (files \union {file}) \ {file} ELSE older[g] \ {file}])
BY DEF Ordered

TypeInv ==
    /\ Ordered(files, older) /\ holds \in [Sockets -> Names \union {NoFile}]
    /\ writes \in 0..SweepInterval - 1 /\ maxLogs \in Limits

LEMMA AppendTypes ==
    ASSUME TypeInv, NEW file \in Names, LogAppend(file)
    PROVE  Ordered(files, older)' /\ writes' \in 0..SweepInterval - 1 /\ maxLogs' \in Limits
<1> DEFINE all   == files \union {file}
           order == [g \in Names |-> IF g = file THEN all \ {file} ELSE older[g] \ {file}]
           kept  == IF Due THEN all \ Stale(all, order) ELSE all
<1>1. Ordered(all, order)
  BY NewestOrdered DEF TypeInv
<1>2. kept \in SUBSET all
  OBVIOUS
<1>3. files' = kept /\ older' = [g \in Names |-> IF g \in kept THEN order[g] \intersect kept ELSE {}]
  BY DEF LogAppend
<1>4. Ordered(kept, [g \in Names |-> IF g \in kept THEN order[g] \intersect kept ELSE {}])
  <2> HIDE DEF all, order, kept
  <2> QED
    BY <1>1, <1>2, KeptOrdered
<1>5. Ordered(files, older)'
  <2> HIDE DEF all, order, kept
  <2> QED
    BY <1>3, <1>4 DEF Ordered
<1>6. writes' \in 0..SweepInterval - 1 /\ maxLogs' \in Limits
  BY DEF LogAppend, Counted, Due, TypeInv
<1> QED
  BY <1>5, <1>6

LEMMA TypeInvStep == TypeInv /\ [LogNext]_logVars => TypeInv'
<1> SUFFICES ASSUME TypeInv, [LogNext]_logVars PROVE TypeInv'
  OBVIOUS
<1>1. ASSUME NEW f \in Names, Write(f) PROVE TypeInv'
  BY <1>1, AppendTypes DEF Write, TypeInv
<1>2. ASSUME NEW c \in Sockets, WriteHeld(c) PROVE TypeInv'
  <2>1. holds[c] \in Names
    BY <1>2 DEF WriteHeld, TypeInv
  <2> QED
    BY <1>2, <2>1, AppendTypes DEF WriteHeld, TypeInv
<1>3. ASSUME NEW c \in Sockets, Release(c) \/ \E f \in Names : Retain(c, f) PROVE TypeInv'
  BY <1>3 DEF Release, Retain, TypeInv, Ordered
<1>4. CASE LogRestart
  <2>1. PICK limit \in Limits : LogRestart!(limit)
    BY <1>4 DEF LogRestart
  <2> DEFINE kept == files \ StaleAtStart(limit)
  <2>2. /\ maxLogs' = limit /\ holds' = [c \in Sockets |-> NoFile] /\ writes' = 0
        /\ files' = kept /\ older' = [g \in Names |-> IF g \in kept THEN older[g] \intersect kept ELSE {}]
    BY <2>1
  <2>3. kept \in SUBSET files
    OBVIOUS
  <2>4. Ordered(files, older)'
    <3> HIDE DEF kept
    <3> QED
      BY <2>2, <2>3, KeptOrdered DEF TypeInv, Ordered
  <2> QED
    BY <2>2, <2>4 DEF TypeInv
<1>5. CASE UNCHANGED logVars
  BY <1>5 DEF logVars, TypeInv, Ordered
<1> QED
  BY <1>1, <1>2, <1>3, <1>4, <1>5 DEF LogNext

(* Files stay in the order in which they were written last, whatever a     *)
(* sweep takes out of the middle, and the counter keeps its bound.         *)
THEOREM LogTypes == LogSpec => []LogTypeOK
<1>1. LogInit => TypeInv
  BY DEF LogInit, TypeInv, Ordered
<1>2. TypeInv /\ [LogNext]_logVars => TypeInv'
  BY TypeInvStep
<1>3. TypeInv => LogTypeOK
  BY DEF TypeInv, LogTypeOK, Ordered
<1> QED
  BY <1>1, <1>2, <1>3, PTL DEF LogSpec

-----------------------------------------------------------------------------
(* The bound of the directory.                                             *)

(* The files with fewer than n newer ones are at most n: no two have the   *)
(* same number of newer files.                                             *)
NewerIn(s, order, f) == {g \in s : f \in order[g]}

LEMMA NewestAreFew ==
    ASSUME NEW all, NEW order, Ordered(all, order), NEW s \in SUBSET all, IsFiniteSet(s), NEW n \in Nat
    PROVE  LET top == {f \in s : Cardinality(NewerIn(s, order, f)) < n}
           IN  IsFiniteSet(top) /\ Cardinality(top) <= n
<1> DEFINE top == {f \in s : Cardinality(NewerIn(s, order, f)) < n}
           rank == [f \in top |-> Cardinality(NewerIn(s, order, f))]
<1>1. ASSUME NEW f \in s PROVE IsFiniteSet(NewerIn(s, order, f)) /\ Cardinality(NewerIn(s, order, f)) \in Nat
  BY FS_Subset, FS_CardinalityType DEF NewerIn
<1>2. ASSUME NEW f \in s, NEW g \in s, f \in order[g]
      PROVE  Cardinality(NewerIn(s, order, g)) < Cardinality(NewerIn(s, order, f))
  <2>1. NewerIn(s, order, g) \subseteq NewerIn(s, order, f)
    BY <1>2 DEF NewerIn, Ordered
  <2>2. g \in NewerIn(s, order, f) /\ g \notin NewerIn(s, order, g)
    BY <1>2 DEF NewerIn, Ordered
  <2>3. NewerIn(s, order, g) \in SUBSET NewerIn(s, order, f) /\ NewerIn(s, order, g) # NewerIn(s, order, f)
    BY <2>1, <2>2
  <2>4. /\ Cardinality(NewerIn(s, order, g)) <= Cardinality(NewerIn(s, order, f))
        /\ Cardinality(NewerIn(s, order, g)) # Cardinality(NewerIn(s, order, f))
    BY <1>1, <2>3, FS_Subset
  <2> QED BY <1>1, <2>4
<1>3. ASSUME NEW f \in s, NEW g \in s, Cardinality(NewerIn(s, order, f)) = Cardinality(NewerIn(s, order, g))
      PROVE  f = g
  <2> SUFFICES ASSUME f # g PROVE FALSE
    OBVIOUS
  <2>1. f \in order[g] \/ g \in order[f]
    BY DEF Ordered
  <2> QED BY <1>1, <1>2, <1>3, <2>1
<1>4. rank \in Injection(top, 0..n - 1)
  <2>1. rank \in [top -> 0..n - 1]
    BY <1>1
  <2>2. \A f, g \in top : rank[f] = rank[g] => f = g
    BY <1>3
  <2> QED BY <2>1, <2>2 DEF Injection, IsInjective
<1>5. IsFiniteSet(0..n - 1) /\ Cardinality(0..n - 1) = n
  BY FS_Interval
<1> QED BY <1>4, <1>5, FS_Injection

(* A connection holds one file. *)
LEMMA HeldAreFew ==
    ASSUME NEW all
    PROVE  LET held == all \ Candidates(all)
           IN  IsFiniteSet(held) /\ Cardinality(held) <= Cardinality(Sockets)
<1> DEFINE held == all \ Candidates(all)
           by == [f \in held |-> CHOOSE c \in Sockets : holds[c] = f]
<1>1. ASSUME NEW f \in held PROVE \E c \in Sockets : holds[c] = f
  <2>1. ActiveCount(f) # 0
    BY DEF Candidates
  <2>2. CASE {c \in Sockets : holds[c] = f} = {}
    BY <2>1, <2>2, FS_EmptySet DEF ActiveCount
  <2> QED BY <2>2
<1>2. \A f \in held : by[f] \in Sockets /\ holds[by[f]] = f
  BY <1>1
<1>3. by \in Injection(held, Sockets)
  BY <1>2 DEF Injection, IsInjective
<1> QED BY <1>3, FS_Injection

CountInv ==
    /\ IsFiniteSet(files)
    /\ maxLogs < SweepInterval => writes = 0
    /\ maxLogs # 0 => Cardinality(files) <= maxLogs + Cardinality(Sockets) + writes

LEMMA AppendCounts ==
    ASSUME TypeInv, CountInv, NEW file \in Names, LogAppend(file)
    PROVE  CountInv'
<1> DEFINE all   == files \union {file}
           order == [g \in Names |-> IF g = file THEN all \ {file} ELSE older[g] \ {file}]
           top   == {f \in Candidates(all) : Cardinality(NewerIn(Candidates(all), order, f)) < maxLogs}
           held  == all \ Candidates(all)
<1>1. /\ maxLogs \in Nat /\ writes \in Nat /\ SweepInterval \in Nat \ {0} /\ Cardinality(Sockets) \in Nat
      /\ writes <= SweepInterval - 1
  BY FS_CardinalityType DEF TypeInv, LogAssumption
<1>2. Ordered(all, order)
  BY NewestOrdered DEF TypeInv
<1>3. IsFiniteSet(all) /\ Cardinality(all) <= Cardinality(files) + 1 /\ Cardinality(files) \in Nat
  <2>1. IsFiniteSet(files) /\ Cardinality(files) \in Nat
    BY FS_CardinalityType DEF CountInv
  <2>2. Cardinality(all) = IF file \in files THEN Cardinality(files) ELSE Cardinality(files) + 1
    BY <2>1, FS_AddElement
  <2> QED BY <2>1, <2>2, FS_AddElement
<1>4. files' = (IF Due THEN all \ Stale(all, order) ELSE all) /\ maxLogs' = maxLogs /\ writes' = Counted
  BY DEF LogAppend
<1>5. CASE ~Due
  <2>1. files' = all
    BY <1>4, <1>5
  <2>2. maxLogs = 0 \/ (maxLogs >= SweepInterval /\ writes + 1 < SweepInterval)
    BY <1>1, <1>5 DEF Due
  <2>3. writes' = IF maxLogs = 0 \/ maxLogs < SweepInterval THEN writes ELSE writes + 1
    BY <1>4, <1>5 DEF Counted
  <2> HIDE DEF all
  <2>4. IsFiniteSet(files')
    BY <1>3, <2>1
  <2>5. (maxLogs < SweepInterval => writes = 0) /\ (maxLogs # 0 => Cardinality(files) <= maxLogs + Cardinality(Sockets) + writes)
    BY DEF CountInv
  <2>6. maxLogs' < SweepInterval => writes' = 0
    BY <1>1, <1>4, <2>2, <2>3, <2>5
  <2>7. maxLogs' # 0 => Cardinality(files') <= maxLogs' + Cardinality(Sockets) + writes'
    <3> SUFFICES ASSUME maxLogs # 0 PROVE Cardinality(files') <= maxLogs + Cardinality(Sockets) + writes'
      BY <1>4
    <3>1. Cardinality(files') = Cardinality(all) /\ writes' = writes + 1
      BY <1>1, <2>1, <2>2, <2>3
    <3>2. IsFiniteSet(all) /\ Cardinality(all) \in Nat
      BY <1>3, FS_CardinalityType
    <3> QED BY <1>1, <1>3, <2>5, <3>1, <3>2
  <2> QED BY <2>4, <2>6, <2>7 DEF CountInv
<1>6. CASE Due
  <2>1. Candidates(all) \in SUBSET all
    BY DEF Candidates
  <2>2. IsFiniteSet(Candidates(all)) /\ Cardinality(Candidates(all)) \in Nat
    BY <1>3, <2>1, FS_Subset, FS_CardinalityType
  <2>3. \A f \in Candidates(all) : Cardinality(NewerIn(Candidates(all), order, f)) \in Nat
    BY <2>2, FS_Subset, FS_CardinalityType DEF NewerIn
  <2>4. files' \subseteq held \union top
    <3>1. files' = all \ Stale(all, order)
      BY <1>4, <1>6
    <3>2. Stale(all, order) = {f \in Candidates(all) : Cardinality(NewerIn(Candidates(all), order, f)) >= maxLogs}
      BY DEF Stale, NewerIn
    <3> HIDE DEF all, order
    <3> QED BY <1>1, <2>3, <3>1, <3>2
  <2>5. IsFiniteSet(top) /\ Cardinality(top) <= maxLogs /\ Cardinality(top) \in Nat
    <3> HIDE DEF all, order
    <3>1. IsFiniteSet(top) /\ Cardinality(top) <= maxLogs
      <4>1. Ordered(all, order) /\ Candidates(all) \in SUBSET all /\ IsFiniteSet(Candidates(all)) /\ maxLogs \in Nat
        BY <1>1, <1>2, <2>1, <2>2
      <4> QED BY <4>1, NewestAreFew
    <3> QED BY <3>1, FS_CardinalityType
  <2>6. IsFiniteSet(held) /\ Cardinality(held) <= Cardinality(Sockets) /\ Cardinality(held) \in Nat
    <3> HIDE DEF all
    <3>1. IsFiniteSet(held) /\ Cardinality(held) <= Cardinality(Sockets)
      BY HeldAreFew
    <3> QED BY <3>1, FS_CardinalityType
  <2> HIDE DEF top, held
  <2>7. IsFiniteSet(held \union top) /\ Cardinality(held \union top) <= maxLogs + Cardinality(Sockets)
        /\ Cardinality(held \union top) \in Nat
    <3>1. IsFiniteSet(held \cap top) /\ Cardinality(held \cap top) \in Nat
      BY <2>5, FS_Intersection, FS_CardinalityType
    <3>2. /\ IsFiniteSet(held \union top)
          /\ Cardinality(held \union top) = Cardinality(held) + Cardinality(top) - Cardinality(held \cap top)
      BY <2>5, <2>6, FS_Union
    <3> QED BY <1>1, <2>5, <2>6, <3>1, <3>2, FS_CardinalityType
  <2>8. IsFiniteSet(files') /\ Cardinality(files') <= maxLogs + Cardinality(Sockets) /\ Cardinality(files') \in Nat
    <3>1. IsFiniteSet(files') /\ Cardinality(files') <= Cardinality(held \union top)
      BY <2>4, <2>7, FS_Subset
    <3>2. Cardinality(files') \in Nat
      BY <3>1, FS_CardinalityType
    <3> QED BY <1>1, <2>7, <3>1, <3>2
  <2>9. writes' \in Nat /\ (maxLogs < SweepInterval => writes' = writes)
    BY <1>1, <1>4 DEF Counted
  <2> QED BY <1>1, <1>4, <2>8, <2>9 DEF CountInv
<1> QED BY <1>5, <1>6

LEMMA RestartCounts ==
    ASSUME TypeInv, CountInv, LogRestart
    PROVE  CountInv'
<1>1. PICK limit \in Limits : LogRestart!(limit)
  BY DEF LogRestart
<1> DEFINE top == {f \in files : Cardinality(NewerIn(files, older, f)) < limit}
<1>2. files' = files \ StaleAtStart(limit) /\ maxLogs' = limit /\ writes' = 0
  BY <1>1
<1>3. limit \in Nat /\ Cardinality(Sockets) \in Nat /\ SweepInterval \in Nat
  BY FS_CardinalityType DEF LogAssumption
<1>4. IsFiniteSet(files) /\ Ordered(files, older)
  BY DEF CountInv, TypeInv
<1>5. IsFiniteSet(files')
  <2>1. files' \in SUBSET files
    BY <1>2
  <2> QED BY <1>4, <2>1, FS_Subset
<1>6. CASE limit = 0
  BY <1>2, <1>3, <1>5, <1>6 DEF CountInv
<1>7. CASE limit # 0
  <2>1. \A f \in files : Cardinality(NewerIn(files, older, f)) \in Nat
    BY <1>4, FS_Subset, FS_CardinalityType DEF NewerIn
  <2>2. StaleAtStart(limit) = {f \in files : Cardinality(NewerIn(files, older, f)) >= limit}
    BY <1>7 DEF StaleAtStart, NewerIn
  <2>3. files' = top
    BY <1>2, <1>3, <2>1, <2>2
  <2>4. Cardinality(top) <= limit
    BY <1>3, <1>4, NewestAreFew
  <2>5. Cardinality(files') \in Nat /\ Cardinality(files') <= limit
    BY <1>5, <2>3, <2>4, FS_CardinalityType
  <2> QED BY <1>2, <1>3, <1>5, <2>5 DEF CountInv
<1> QED BY <1>6, <1>7

(* Whatever is written, held, released and swept, the directory holds at    *)
(* most maxLogs files, one for each open connection and those written since *)
(* the last sweep.                                                          *)
THEOREM DirectoryStaysBounded == LogSpec => []DirectoryBounded
<1>1. LogInit => TypeInv /\ CountInv
  <2> SUFFICES ASSUME LogInit PROVE TypeInv /\ CountInv
    OBVIOUS
  <2>1. TypeInv
    BY DEF LogInit, TypeInv, Ordered
  <2>2. IsFiniteSet(files) /\ Cardinality(files) = 0 /\ Cardinality(Sockets) \in Nat
    BY FS_EmptySet, FS_CardinalityType DEF LogInit, LogAssumption
  <2> QED BY <2>1, <2>2 DEF LogInit, CountInv, LogAssumption
<1>2. TypeInv /\ CountInv /\ [LogNext]_logVars => TypeInv' /\ CountInv'
  <2> SUFFICES ASSUME TypeInv, CountInv, [LogNext]_logVars PROVE TypeInv' /\ CountInv'
    OBVIOUS
  <2>1. TypeInv'
    BY TypeInvStep
  <2>2. ASSUME NEW f \in Names, Write(f) PROVE CountInv'
    BY <2>2, AppendCounts DEF Write
  <2>3. ASSUME NEW c \in Sockets, WriteHeld(c) PROVE CountInv'
    <3>1. holds[c] \in Names
      BY <2>3 DEF WriteHeld, TypeInv
    <3> QED BY <2>3, <3>1, AppendCounts DEF WriteHeld
  <2>4. ASSUME NEW c \in Sockets, Release(c) \/ \E f \in Names : Retain(c, f) PROVE CountInv'
    BY <2>4 DEF Release, Retain, CountInv
  <2>5. ASSUME LogRestart PROVE CountInv'
    BY <2>5, RestartCounts
  <2>6. ASSUME UNCHANGED logVars PROVE CountInv'
    BY <2>6 DEF logVars, CountInv
  <2>7. CountInv'
    BY <2>2, <2>3, <2>4, <2>5, <2>6 DEF LogNext
  <2> QED BY <2>1, <2>7
<1>3. TypeInv /\ CountInv => DirectoryBounded
  <2> SUFFICES ASSUME TypeInv, CountInv, maxLogs # 0
               PROVE  Cardinality(files) <= maxLogs + Cardinality(Sockets) + Interval - 1
    BY DEF DirectoryBounded
  <2>1. /\ Cardinality(files) \in Nat /\ Cardinality(Sockets) \in Nat /\ maxLogs \in Nat
        /\ writes \in 0..SweepInterval - 1 /\ SweepInterval \in Nat
    BY FS_CardinalityType DEF CountInv, TypeInv, LogAssumption
  <2>2. writes <= Interval - 1 /\ Interval \in Nat
    BY <2>1 DEF CountInv, Interval
  <2> QED BY <2>1, <2>2 DEF CountInv
<1> QED BY <1>1, <1>2, <1>3, PTL DEF LogSpec

-----------------------------------------------------------------------------
(* The routing of sessions.                                                *)

USE RoutingAssumption

(* A sequence of turns without repetition, within the bound. *)
Queue(s) ==
    /\ s \in Seq(Turns) /\ Len(s) <= MaxTurns
    /\ \A i, j \in 1..Len(s) : s[i] = s[j] => i = j

-----------------------------------------------------------------------------
(* What rememberCpaTurn returns: the turn is in, nothing else came in, the *)
(* order is kept, and only the head of a full sequence went.               *)
LEMMA RememberKnown ==
    ASSUME Queue(cpaTurns), NEW turn \in Turns, Remembered(turn)
    PROVE  Remember(turn) = cpaTurns
    BY DEF Remember

LEMMA RememberWithRoom ==
    ASSUME Queue(cpaTurns), NEW turn \in Turns, ~Remembered(turn), Len(cpaTurns) < MaxTurns
    PROVE  /\ Queue(Remember(turn))
           /\ Len(Remember(turn)) = Len(cpaTurns) + 1
           /\ \A k \in 1..Len(cpaTurns) : Remember(turn)[k] = cpaTurns[k]
           /\ Remember(turn)[Len(cpaTurns) + 1] = turn
<1> DEFINE r == Remember(turn)
<1>1. r = Append(cpaTurns, turn)
    BY DEF Remember, Queue
<1>2. /\ r \in Seq(Turns) /\ Len(r) = Len(cpaTurns) + 1
      /\ \A k \in 1..Len(cpaTurns) : r[k] = cpaTurns[k]
      /\ r[Len(cpaTurns) + 1] = turn
    BY <1>1, AppendProperties DEF Queue
<1>3. ASSUME NEW i \in 1..Len(r), NEW j \in 1..Len(r), r[i] = r[j] PROVE i = j
    BY <1>2, <1>3 DEF Queue, Remembered
<1> QED
    BY <1>2, <1>3 DEF Queue

LEMMA RememberFull ==
    ASSUME Queue(cpaTurns), NEW turn \in Turns, ~Remembered(turn), ~(Len(cpaTurns) < MaxTurns)
    PROVE  /\ Queue(Remember(turn))
           /\ Len(cpaTurns) = MaxTurns /\ Len(Remember(turn)) = MaxTurns
           /\ \A k \in 1..MaxTurns - 1 : Remember(turn)[k] = cpaTurns[k + 1]
           /\ Remember(turn)[MaxTurns] = turn
<1> DEFINE r == Remember(turn)
<1>1. /\ r = Append(Tail(cpaTurns), turn)
      /\ Len(cpaTurns) = MaxTurns /\ cpaTurns # <<>>
    BY DEF Remember, Queue
<1>2. /\ Tail(cpaTurns) \in Seq(Turns) /\ Len(Tail(cpaTurns)) = MaxTurns - 1
      /\ \A k \in 1..MaxTurns - 1 : Tail(cpaTurns)[k] = cpaTurns[k + 1]
    BY <1>1, HeadTailProperties DEF Queue
<1>3. /\ r \in Seq(Turns) /\ Len(r) = MaxTurns
      /\ \A k \in 1..MaxTurns - 1 : r[k] = Tail(cpaTurns)[k]
      /\ r[MaxTurns] = turn
    BY <1>1, <1>2, AppendProperties
<1>4. ASSUME NEW i \in 1..Len(r), NEW j \in 1..Len(r), r[i] = r[j] PROVE i = j
    BY <1>1, <1>2, <1>3, <1>4 DEF Queue, Remembered
<1> QED
    BY <1>1, <1>2, <1>3, <1>4 DEF Queue

LEMMA RememberQueue ==
    ASSUME Queue(cpaTurns), NEW turn \in Turns
    PROVE  Queue(Remember(turn))
    BY RememberKnown, RememberWithRoom, RememberFull

-----------------------------------------------------------------------------
(* TypeOK, action by action. *)
LEMMA TypesInit == Init => TypeOK
<1> SUFFICES ASSUME Init PROVE TypeOK
    OBVIOUS
<1>1. cpaTurns \in Seq(Turns) /\ Len(cpaTurns) = 0
    BY EmptySeq DEF Init
<1> QED
    BY <1>1 DEF Init, TypeOK, Closed, NoAnswer, MaybeThread, MaybeTurn, Models, Routes

LEMMA MemoryTypes ==
    ASSUME TypeOK, NEW m \in Models, NEW t \in MaybeThread, NEW p \in MaybeThread,
           NEW u \in MaybeTurn, NEW i \in MaybeTurn, Decide(m, t, p, u, i)
    PROVE  cpaThreads' \in SUBSET Threads /\ Queue(cpaTurns)'
<1>1. cpaThreads' \in SUBSET Threads
    BY DEF TypeOK, Decide, With, MaybeThread
<1>2. Queue(cpaTurns)
    BY DEF TypeOK, Queue
<1>3. cpaTurns' = cpaTurns \/ (u \in Turns /\ cpaTurns' = Remember(u))
    BY DEF Decide, MaybeTurn
<1> QED
    BY <1>1, <1>2, <1>3, RememberQueue DEF Queue

LEMMA HistoryTypes ==
    ASSUME TypeOK, NEW to \in {"request", "image", "handshake", "frame"}, NEW m \in Models,
           NEW t \in MaybeThread, NEW p \in MaybeThread, NEW u \in MaybeTurn, NEW r \in Routes,
           Record(to, m, t, p, u, r)
    PROVE  /\ answer' \in [to : {"nobody", "request", "image", "handshake", "frame"}, model : Models,
                           thread : MaybeThread, parent : MaybeThread, turn : MaybeTurn,
                           route : Routes \union {"reconnect"}]
           /\ proxied' \in SUBSET Threads
           /\ turnsServed' \in SUBSET Turns /\ turnsNamed' \in SUBSET turnsServed'
           /\ later' \in [Turns -> SUBSET Turns]
<1>1. answer' \in [to : {"nobody", "request", "image", "handshake", "frame"}, model : Models,
                   thread : MaybeThread, parent : MaybeThread, turn : MaybeTurn,
                   route : Routes \union {"reconnect"}]
    BY DEF Record
<1>2. CASE r # "cliproxy"
    BY <1>1, <1>2 DEF Record, history, TypeOK
<1>3. CASE r = "cliproxy"
  <2> DEFINE v == IF IsOfTurn(to, m) THEN u ELSE None
             knownBy == to = "frame" \/ m = "prefixed"
  <2>1. v \in MaybeTurn /\ ServedByProxy(t, v, knownBy)
      BY <1>3 DEF Record, MaybeTurn
  <2> HIDE DEF v, knownBy
  <2>2. proxied' \in SUBSET Threads
      BY <2>1 DEF ServedByProxy, With, MaybeThread, TypeOK
  <2>3. CASE v = None
      BY <1>1, <2>1, <2>2, <2>3 DEF ServedByProxy, TypeOK
  <2>4. CASE v # None
    <3>1. v \in Turns
        BY <2>1, <2>4 DEF MaybeTurn
    <3>2. /\ turnsServed' = turnsServed \union {v}
          /\ turnsNamed' = IF knownBy THEN turnsNamed \union {v} ELSE turnsNamed
          /\ later' = [w \in Turns |-> IF w \in turnsServed \ {v} THEN later[w] \union {v} ELSE later[w]]
        BY <2>1, <2>4 DEF ServedByProxy
    <3>3. later' \in [Turns -> SUBSET Turns]
        BY <3>1, <3>2 DEF TypeOK
    <3> QED
        BY <1>1, <2>2, <3>1, <3>2, <3>3 DEF TypeOK
  <2> QED
      BY <2>3, <2>4
<1> QED
    BY <1>2, <1>3

LEMMA RouteTypes ==
    ASSUME NEW m, NEW t, NEW p, NEW i
    PROVE  RouteOf(m, t, p, i) \in Routes
    BY DEF RouteOf, Routes

LEMMA RequestTypes ==
    ASSUME TypeOK, NEW m \in Models, NEW t \in MaybeThread, NEW p \in MaybeThread,
           NEW u \in MaybeTurn, Request(m, t, p, u)
    PROVE  TypeOK'
<1>1. None \in MaybeTurn
    BY DEF MaybeTurn
<1>2. cpaThreads' \in SUBSET Threads /\ Queue(cpaTurns)'
    BY <1>1, MemoryTypes DEF Request
<1>3. RouteOf(m, t, p, None) \in Routes
    BY RouteTypes
<1> QED
    BY <1>2, <1>3, HistoryTypes DEF Request, TypeOK, Queue

LEMMA ImageTypes ==
    ASSUME TypeOK, NEW u \in Turns, ImageRequest(u)
    PROVE  TypeOK'
<1>1. None \in MaybeTurn /\ None \in MaybeThread /\ "plain" \in Models /\ u \in MaybeTurn
    BY DEF MaybeTurn, MaybeThread, Models
<1>2. cpaThreads' \in SUBSET Threads /\ Queue(cpaTurns)'
    BY <1>1, MemoryTypes DEF ImageRequest
<1>3. RouteOf("plain", None, None, u) \in Routes
    BY RouteTypes
<1> QED
    BY <1>1, <1>2, <1>3, HistoryTypes DEF ImageRequest, TypeOK, Queue

LEMMA HandshakeTypes ==
    ASSUME TypeOK, NEW c \in Connections, NEW m \in Models, NEW t \in MaybeThread,
           NEW p \in MaybeThread, NEW u \in MaybeTurn, Handshake(c, m, t, p, u)
    PROVE  TypeOK'
<1>1. None \in MaybeTurn
    BY DEF MaybeTurn
<1>2. cpaThreads' \in SUBSET Threads /\ Queue(cpaTurns)'
    BY <1>1, MemoryTypes DEF Handshake
<1>3. RouteOf(m, t, p, None) \in Routes
    BY RouteTypes
<1>4. conn' \in [Connections -> [open : BOOLEAN, thread : MaybeThread, route : Routes]]
  <2> DEFINE opened == [open |-> TRUE, thread |-> t, route |-> RouteOf(m, t, p, None)]
  <2>1. opened \in [open : BOOLEAN, thread : MaybeThread, route : Routes]
      BY <1>3
  <2>2. conn' = conn \/ conn' = [conn EXCEPT ![c] = opened]
      BY DEF Handshake
  <2> HIDE DEF opened
  <2> QED
      BY <2>1, <2>2 DEF TypeOK
<1> QED
    BY <1>2, <1>3, <1>4, HistoryTypes DEF Handshake, TypeOK, Queue

LEMMA ReconnectTypes ==
    ASSUME TypeOK, NEW c \in Connections, NEW u \in MaybeTurn, Reconnect(c, u)
    PROVE  TypeOK'
<1>1. conn[c].thread \in MaybeThread
    BY DEF TypeOK
<1>2. cpaThreads' \in SUBSET Threads /\ proxied' \in SUBSET Threads
    BY <1>1 DEF Reconnect, With, MaybeThread, TypeOK
<1>3. conn' \in [Connections -> [open : BOOLEAN, thread : MaybeThread, route : Routes]]
    BY DEF Reconnect, TypeOK, Closed, MaybeThread, Routes
<1>4. answer' \in [to : {"nobody", "request", "image", "handshake", "frame"}, model : Models,
                   thread : MaybeThread, parent : MaybeThread, turn : MaybeTurn,
                   route : Routes \union {"reconnect"}]
    BY <1>1 DEF Reconnect, Models, MaybeThread
<1> QED
    BY <1>2, <1>3, <1>4 DEF Reconnect, TypeOK

LEMMA ForwardTypes ==
    ASSUME TypeOK, NEW c \in Connections, NEW m \in Models, NEW u \in MaybeTurn, Forward(c, m, u)
    PROVE  TypeOK'
<1>1. conn[c].thread \in MaybeThread /\ conn[c].route \in Routes /\ None \in MaybeThread
    BY DEF TypeOK, MaybeThread
<1>2. Queue(cpaTurns)
    BY DEF TypeOK, Queue
<1>3. Queue(cpaTurns)'
  <2>1. cpaTurns' = cpaTurns \/ (u \in Turns /\ cpaTurns' = Remember(u))
      BY DEF Forward, MaybeTurn
  <2> QED
      BY <1>2, <2>1, RememberQueue DEF Queue
<1> QED
    BY <1>1, <1>3, HistoryTypes DEF Forward, TypeOK, Queue

LEMMA EndTypes ==
    ASSUME TypeOK, (\E c \in Connections : Disconnect(c)) \/ Restart
    PROVE  TypeOK'
<1>1. CASE Restart
  <2>1. cpaTurns' \in Seq(Turns) /\ Len(cpaTurns') = 0
      BY <1>1, EmptySeq DEF Restart
  <2> QED
      BY <1>1, <2>1 DEF Restart, TypeOK, Closed, NoAnswer, MaybeThread, MaybeTurn, Models, Routes
<1>2. CASE \E c \in Connections : Disconnect(c)
    BY <1>2 DEF Disconnect, memory, history, TypeOK, Closed, NoAnswer, MaybeThread, MaybeTurn, Models, Routes
<1> QED
    BY <1>1, <1>2

LEMMA TypesStep == TypeOK /\ [Next]_vars => TypeOK'
<1> SUFFICES ASSUME TypeOK, [Next]_vars PROVE TypeOK'
    OBVIOUS
<1>1. CASE UNCHANGED vars
    BY <1>1 DEF vars, memory, history, TypeOK
<1>2. CASE Next
    BY <1>2, RequestTypes, ImageTypes, HandshakeTypes, ReconnectTypes, ForwardTypes, EndTypes DEF Next
<1> QED
    BY <1>1, <1>2

(* The memory of turns has no repetition and keeps its bound, whatever     *)
(* order requests, handshakes and frames come in.                          *)
THEOREM RoutingTypes == Spec => []TypeOK
    BY TypesInit, TypesStep, PTL DEF Spec

-----------------------------------------------------------------------------
(* Threads: outside upstreamOnly mode the memory is what the clients saw,  *)
(* and a connection to the proxy has its thread in it.                     *)
SessionInv ==
    ~upstreamOnly =>
        /\ cpaThreads = proxied
        /\ \A c \in Connections :
              conn[c].open /\ conn[c].route = "cliproxy" /\ conn[c].thread # None
                 => conn[c].thread \in cpaThreads

LEMMA ThreadsDecided ==
    ASSUME TypeOK, SessionInv, ~upstreamOnly, NEW to, NEW m \in Models, NEW t \in MaybeThread, NEW p,
           NEW u, NEW i, Decide(m, t, p, u, i), Record(to, m, t, p, u, RouteOf(m, t, p, i))
    PROVE  /\ cpaThreads' = proxied' /\ cpaThreads \subseteq cpaThreads'
           /\ RouteOf(m, t, p, i) = "cliproxy" /\ t # None => t \in cpaThreads'
<1>1. CASE RouteOf(m, t, p, i) = "cliproxy"
  <2>1. proxied' = With(proxied, t)
      BY <1>1 DEF Record, ServedByProxy
  <2>2. m = "prefixed" \/ Inherits(t, p, i)
      BY <1>1 DEF RouteOf
  <2>3. cpaThreads' = With(cpaThreads, t)
      BY <2>2 DEF Decide
  <2> QED
      BY <2>1, <2>3 DEF SessionInv, With
<1>2. CASE RouteOf(m, t, p, i) # "cliproxy"
  <2>1. m # "prefixed" /\ ~Inherits(t, p, i)
      BY <1>2 DEF RouteOf
  <2> QED
      BY <1>2, <2>1 DEF Decide, Record, history, SessionInv
<1> QED
    BY <1>1, <1>2

LEMMA SessionStep == TypeOK /\ SessionInv /\ [Next]_vars => SessionInv'
<1> SUFFICES ASSUME TypeOK, SessionInv, [Next]_vars, ~upstreamOnly'
             PROVE  SessionInv'
    BY DEF SessionInv
<1>1. ASSUME NEW m \in Models, NEW t \in MaybeThread, NEW p \in MaybeThread, NEW u \in MaybeTurn,
             Request(m, t, p, u)
      PROVE  SessionInv'
  <2>1. /\ ~upstreamOnly /\ UNCHANGED conn /\ Decide(m, t, p, u, None)
        /\ Record("request", m, t, p, u, RouteOf(m, t, p, None))
      BY <1>1 DEF Request
  <2>2. cpaThreads' = proxied' /\ cpaThreads \subseteq cpaThreads'
      BY <2>1, ThreadsDecided
  <2> QED
      BY <2>1, <2>2 DEF SessionInv
<1>2. ASSUME NEW u \in Turns, ImageRequest(u)
      PROVE  SessionInv'
  <2>1. /\ ~upstreamOnly /\ UNCHANGED conn /\ Decide("plain", None, None, None, u)
        /\ Record("image", "plain", None, None, u, RouteOf("plain", None, None, u))
      BY <1>2 DEF ImageRequest
  <2>2. /\ UNCHANGED cpaThreads
        /\ proxied' = proxied
      BY <2>1 DEF Decide, Record, ServedByProxy, With, history
  <2> QED
      BY <2>1, <2>2 DEF SessionInv
<1>3. ASSUME NEW d \in Connections, NEW m \in Models, NEW t \in MaybeThread, NEW p \in MaybeThread,
             NEW u \in MaybeTurn, Handshake(d, m, t, p, u)
      PROVE  SessionInv'
  <2> DEFINE opened == [open |-> TRUE, thread |-> t, route |-> RouteOf(m, t, p, None)]
  <2>1. /\ ~upstreamOnly /\ Decide(m, t, p, u, None)
        /\ Record("handshake", m, t, p, u, RouteOf(m, t, p, None))
      BY <1>3 DEF Handshake
  <2>2. /\ cpaThreads' = proxied' /\ cpaThreads \subseteq cpaThreads'
        /\ RouteOf(m, t, p, None) = "cliproxy" /\ t # None => t \in cpaThreads'
      BY <2>1, ThreadsDecided
  <2>3. conn' = conn \/ conn' = [conn EXCEPT ![d] = opened]
      BY <1>3 DEF Handshake
  <2>4. opened.thread = t /\ opened.route = RouteOf(m, t, p, None)
      OBVIOUS
  <2> HIDE DEF opened
  <2>5. ASSUME NEW c \in Connections, conn'[c].open, conn'[c].route = "cliproxy", conn'[c].thread # None
        PROVE  conn'[c].thread \in cpaThreads'
    <3>1. conn'[c] = conn[c] \/ conn'[c] = opened
        BY <2>3 DEF TypeOK
    <3> QED
        BY <2>1, <2>2, <2>4, <2>5, <3>1 DEF SessionInv
  <2> QED
      BY <2>2, <2>5 DEF SessionInv
<1>4. ASSUME NEW d \in Connections, NEW u \in MaybeTurn, Reconnect(d, u)
      PROVE  SessionInv'
  <2>1. ~upstreamOnly /\ conn[d].thread \in MaybeThread
      BY <1>4 DEF Reconnect, TypeOK
  <2>2. cpaThreads' = proxied' /\ cpaThreads \subseteq cpaThreads'
      BY <1>4, <2>1 DEF Reconnect, SessionInv, With
  <2>3. ASSUME NEW c \in Connections PROVE conn'[c] = conn[c] \/ conn'[c] = Closed
      BY <1>4 DEF Reconnect, TypeOK
  <2> QED
      BY <2>1, <2>2, <2>3 DEF SessionInv, Closed
<1>5. ASSUME NEW d \in Connections, NEW m \in Models, NEW u \in MaybeTurn, Forward(d, m, u)
      PROVE  SessionInv'
  <2>1. /\ ~upstreamOnly /\ UNCHANGED <<conn, cpaThreads>> /\ conn[d].open
        /\ Record("frame", m, conn[d].thread, None, u, conn[d].route)
      BY <1>5 DEF Forward
  <2>2. CASE conn[d].route = "cliproxy"
    <3>1. proxied' = With(proxied, conn[d].thread)
        BY <2>1, <2>2 DEF Record, ServedByProxy
    <3> QED
        BY <2>1, <2>2, <3>1 DEF SessionInv, With
  <2>3. CASE conn[d].route # "cliproxy"
      BY <2>1, <2>3 DEF Record, history, SessionInv
  <2> QED
      BY <2>2, <2>3
<1>6. ASSUME NEW d \in Connections, Disconnect(d)
      PROVE  SessionInv'
  <2>1. ASSUME NEW c \in Connections PROVE conn'[c] = conn[c] \/ conn'[c] = Closed
      BY <1>6 DEF Disconnect, TypeOK
  <2> QED
      BY <1>6, <2>1 DEF Disconnect, memory, history, SessionInv, Closed
<1>7. CASE Restart
    BY <1>7 DEF Restart, Closed, SessionInv
<1>8. CASE UNCHANGED vars
    BY <1>8 DEF vars, memory, history, SessionInv
<1> QED
    BY <1>1, <1>2, <1>3, <1>4, <1>5, <1>6, <1>7, <1>8 DEF Next, SessionInv

LEMMA SessionInit == Init => SessionInv
    BY DEF Init, SessionInv, Closed

LEMMA StaysStep ==
    TypeOK /\ SessionInv /\ [Next]_vars =>
       [Decision /\ (answer'.thread \in proxied \/ answer'.parent \in proxied)
           => answer'.route = "cliproxy"]_vars
<1> SUFFICES ASSUME TypeOK, SessionInv, Next, Decision,
                    answer'.thread \in proxied \/ answer'.parent \in proxied
             PROVE  answer'.route = "cliproxy"
    OBVIOUS
<1>1. ASSUME NEW to, NEW m \in Models, NEW t \in MaybeThread, NEW p \in MaybeThread, NEW u,
             Record(to, m, t, p, u, RouteOf(m, t, p, None))
      PROVE  answer'.route = "cliproxy"
  <2>1. answer'.thread = t /\ answer'.parent = p /\ answer'.route = RouteOf(m, t, p, None)
      BY <1>1 DEF Record
  <2> QED
      BY <2>1 DEF RouteOf, Inherits, SessionInv
<1>2. ASSUME NEW u \in Turns, ImageRequest(u) PROVE FALSE
    BY <1>2 DEF ImageRequest, Record, Decision
<1>3. ASSUME NEW c \in Connections, NEW u \in MaybeTurn, Reconnect(c, u) PROVE FALSE
    BY <1>3 DEF Reconnect, Decision
<1>4. ASSUME NEW c \in Connections, NEW m \in Models, NEW u \in MaybeTurn, Forward(c, m, u) PROVE FALSE
    BY <1>4 DEF Forward, Record, Decision
<1>5. ASSUME (\E c \in Connections : Disconnect(c)) \/ Restart PROVE FALSE
    BY <1>5 DEF Disconnect, Restart, NoAnswer, Decision
<1> QED
    BY <1>1, <1>2, <1>3, <1>4, <1>5 DEF Next, Request, Handshake

(* Whatever requests, handshakes, frames and failed dials come in whatever *)
(* order, a session that reached the proxy stays there with its subagents. *)
THEOREM SessionsStay == Spec => SessionStays
<1>1. Spec => []TypeOK
    BY RoutingTypes
<1>2. Spec => [](TypeOK /\ SessionInv)
    BY <1>1, SessionInit, SessionStep, PTL DEF Spec
<1> QED
    BY <1>2, StaysStep, PTL DEF Spec, SessionStays

-----------------------------------------------------------------------------
(* Turns: every turn remembered was named, a turn behind another came      *)
(* after it, and a turn named but not remembered saw MaxTurns others.      *)
InOrder ==
    \A i, j \in 1..Len(cpaTurns) : i < j => cpaTurns[j] \in later[cpaTurns[i]]

EvictedSawOthers ==
    ~upstreamOnly => \A u \in turnsNamed : Remembered(u) \/ Cardinality(later[u]) >= MaxTurns

TurnInv ==
    /\ \A k \in 1..Len(cpaTurns) : cpaTurns[k] \in turnsNamed
    /\ InOrder
    /\ EvictedSawOthers

(* What a step can do to the turns: nothing, serve a turn that is not      *)
(* remembered, or serve one that is.                                       *)
TurnsStay == UNCHANGED <<upstreamOnly, cpaTurns, turnsServed, turnsNamed, later>>

Served(v) ==
    /\ v \in Turns /\ UNCHANGED upstreamOnly
    /\ turnsServed' = turnsServed \union {v}
    /\ later' = [u \in Turns |-> IF u \in turnsServed \ {v} THEN later[u] \union {v} ELSE later[u]]

TurnServed(v) ==
    /\ Served(v) /\ UNCHANGED cpaTurns
    /\ turnsNamed' = turnsNamed \/ (upstreamOnly /\ turnsNamed' = turnsNamed \union {v})

TurnNoted(v) ==
    /\ Served(v) /\ cpaTurns' = Remember(v)
    /\ turnsNamed' = turnsNamed \union {v}

TurnStep == TurnsStay \/ Restart \/ \E v \in Turns : TurnServed(v) \/ TurnNoted(v)

(* The sets of later turns only grow, and count accordingly. *)
LEMMA LaterGrows ==
    ASSUME TypeOK, NEW v, Served(v), NEW u \in Turns
    PROVE  /\ later[u] \subseteq later'[u] /\ later'[u] \subseteq Turns
           /\ Cardinality(later[u]) \in Nat /\ Cardinality(later'[u]) \in Nat
           /\ Cardinality(later[u]) <= Cardinality(later'[u])
<1>1. later[u] \subseteq later'[u] /\ later'[u] \subseteq Turns
    BY DEF Served, TypeOK
<1>2. IsFiniteSet(later'[u]) /\ IsFiniteSet(later[u])
    BY <1>1, FS_Subset
<1> QED
    BY <1>1, <1>2, FS_Subset, FS_CardinalityType

LEMMA ServedStep ==
    ASSUME TypeOK, TurnInv, NEW v \in Turns, TurnServed(v)
    PROVE  TurnInv'
<1>1. Served(v) /\ cpaTurns' = cpaTurns /\ turnsNamed \subseteq turnsNamed'
    BY DEF TurnServed
<1>2. InOrder'
    BY <1>1, LaterGrows DEF InOrder, TurnInv, TypeOK
<1>3. ASSUME ~upstreamOnly', NEW u \in turnsNamed'
      PROVE  Remembered(u)' \/ Cardinality(later'[u]) >= MaxTurns
  <2>1. ~upstreamOnly /\ u \in turnsNamed /\ u \in Turns
      BY <1>3 DEF TurnServed, Served, TypeOK
  <2>2. Remembered(u) \/ Cardinality(later[u]) >= MaxTurns
      BY <2>1 DEF TurnInv, EvictedSawOthers
  <2>3. Remembered(u)' <=> Remembered(u)
      BY <1>1 DEF Remembered
  <2> QED
      BY <1>1, <2>1, <2>2, <2>3, LaterGrows
<1> QED
    BY <1>1, <1>2, <1>3 DEF TurnInv, EvictedSawOthers

(* The turn that is evicted saw the whole sequence that is left. *)
LEMMA EvictedStep ==
    ASSUME TypeOK, TurnInv, NEW v \in Turns, TurnNoted(v), ~Remembered(v), ~(Len(cpaTurns) < MaxTurns)
    PROVE  Cardinality(later'[cpaTurns[1]]) >= MaxTurns
<1> DEFINE r == Remember(v)
           u == cpaTurns[1]
<1>1. Queue(cpaTurns)
    BY DEF TypeOK, Queue
<1>2. /\ Queue(r) /\ Len(cpaTurns) = MaxTurns /\ Len(r) = MaxTurns
      /\ \A k \in 1..MaxTurns - 1 : r[k] = cpaTurns[k + 1]
      /\ r[MaxTurns] = v
    BY <1>1, RememberFull
<1>3. u \in Turns /\ u \in turnsNamed /\ u # v
    BY <1>1, <1>2 DEF Queue, TurnInv, Remembered
<1>4. u \in turnsServed \ {v} /\ later'[u] = later[u] \union {v} /\ Served(v)
    BY <1>3 DEF TypeOK, TurnNoted, Served
<1>5. ASSUME NEW k \in 1..MaxTurns PROVE r[k] \in later'[u]
  <2>1. CASE k = MaxTurns
      BY <1>2, <1>4, <2>1
  <2>2. CASE k # MaxTurns
    <3>1. k \in 1..MaxTurns - 1 /\ k + 1 \in 1..Len(cpaTurns) /\ 1 \in 1..Len(cpaTurns) /\ 1 < k + 1
        BY <1>2, <2>2
    <3>2. cpaTurns[k + 1] \in later[u]
        BY <3>1 DEF TurnInv, InOrder
    <3> QED
        BY <1>2, <1>4, <3>1, <3>2
  <2> QED
      BY <2>1, <2>2
<1>6. IsFiniteSet(later'[u])
    BY <1>3, <1>4, LaterGrows, FS_Subset
<1> DEFINE f == [k \in 1..MaxTurns |-> r[k]]
           T == later'[u]
<1>7. f \in Injection(1..MaxTurns, T)
  <2>1. f \in [1..MaxTurns -> T]
      BY <1>5
  <2>2. \A i, j \in 1..MaxTurns : f[i] = f[j] => i = j
      BY <1>2 DEF Queue
  <2> HIDE DEF f
  <2> QED
      BY <2>1, <2>2 DEF Injection, IsInjective
<1> HIDE DEF f, T
<1>8. Cardinality(1..MaxTurns) = MaxTurns
    BY FS_Interval
<1>9. Cardinality(1..MaxTurns) <= Cardinality(T)
    BY <1>6, <1>7, FS_Injection DEF T
<1>10. Cardinality(T) \in Nat
    BY <1>6, FS_CardinalityType DEF T
<1> QED
    BY <1>8, <1>9, <1>10 DEF T

LEMMA NotedStep ==
    ASSUME TypeOK, TurnInv, NEW v \in Turns, TurnNoted(v)
    PROVE  TurnInv'
<1>1. Queue(cpaTurns) /\ Served(v) /\ cpaTurns' = Remember(v)
    BY DEF TypeOK, Queue, TurnNoted
<1>2. ASSUME NEW u \in turnsNamed, u # v PROVE v \in later'[u]
    BY <1>2 DEF TypeOK, TurnNoted, Served
<1>3. ASSUME NEW u \in turnsNamed PROVE u \in Turns
    BY DEF TypeOK
<1>4. CASE Remembered(v)
  <2>1. cpaTurns' = cpaTurns
      BY <1>1, <1>4, RememberKnown
  <2>2. InOrder'
      BY <1>1, <2>1, LaterGrows DEF InOrder, TurnInv, TypeOK
  <2>3. ASSUME ~upstreamOnly', NEW u \in turnsNamed'
        PROVE  Remembered(u)' \/ Cardinality(later'[u]) >= MaxTurns
    <3>1. ~upstreamOnly /\ u \in Turns /\ (u \in turnsNamed \/ u = v)
        BY <1>3, <2>3 DEF TurnNoted, Served
    <3>2. Remembered(u)' <=> Remembered(u)
        BY <2>1 DEF Remembered
    <3> QED
        BY <1>1, <1>4, <3>1, <3>2, LaterGrows DEF TurnInv, EvictedSawOthers
  <2> QED
      BY <2>1, <2>2, <2>3 DEF TurnInv, EvictedSawOthers, TurnNoted
<1>5. CASE ~Remembered(v) /\ Len(cpaTurns) < MaxTurns
  <2>1. /\ Len(cpaTurns') = Len(cpaTurns) + 1 /\ Len(cpaTurns) \in Nat
        /\ \A k \in 1..Len(cpaTurns) : cpaTurns'[k] = cpaTurns[k]
        /\ cpaTurns'[Len(cpaTurns) + 1] = v
      BY <1>1, <1>5, RememberWithRoom DEF Queue
  <2>2. \A k \in 1..Len(cpaTurns') : cpaTurns'[k] \in turnsNamed'
      BY <2>1 DEF TurnInv, TurnNoted
  <2>3. ASSUME NEW i \in 1..Len(cpaTurns'), NEW j \in 1..Len(cpaTurns'), i < j
        PROVE  cpaTurns'[j] \in later'[cpaTurns'[i]]
    <3>1. i \in 1..Len(cpaTurns) /\ cpaTurns'[i] = cpaTurns[i]
          /\ cpaTurns[i] \in turnsNamed /\ cpaTurns[i] # v
        BY <1>5, <2>1, <2>3 DEF TurnInv, Remembered
    <3>2. CASE j = Len(cpaTurns) + 1
        BY <1>2, <2>1, <3>1, <3>2
    <3>3. CASE j # Len(cpaTurns) + 1
      <4>1. j \in 1..Len(cpaTurns) /\ cpaTurns'[j] = cpaTurns[j]
          BY <2>1, <3>3
      <4>2. cpaTurns[j] \in later[cpaTurns[i]]
          BY <2>3, <3>1, <4>1 DEF TurnInv, InOrder
      <4> QED
          BY <1>1, <1>3, <3>1, <4>1, <4>2, LaterGrows
    <3> QED
        BY <3>2, <3>3
  <2>4. ASSUME NEW u, Remembered(u) \/ u = v PROVE Remembered(u)'
      BY <2>1, <2>4 DEF Remembered
  <2>5. ASSUME ~upstreamOnly', NEW u \in turnsNamed'
        PROVE  Remembered(u)' \/ Cardinality(later'[u]) >= MaxTurns
    <3>1. ~upstreamOnly /\ u \in Turns /\ (u \in turnsNamed \/ u = v)
        BY <1>3, <2>5 DEF TurnNoted, Served
    <3> QED
        BY <1>1, <2>4, <3>1, LaterGrows DEF TurnInv, EvictedSawOthers
  <2> QED
      BY <2>2, <2>3, <2>5 DEF TurnInv, InOrder, EvictedSawOthers
<1>6. CASE ~Remembered(v) /\ ~(Len(cpaTurns) < MaxTurns)
  <2>1. /\ Len(cpaTurns) = MaxTurns /\ Len(cpaTurns') = MaxTurns
        /\ \A k \in 1..MaxTurns - 1 : cpaTurns'[k] = cpaTurns[k + 1]
        /\ cpaTurns'[MaxTurns] = v
      BY <1>1, <1>6, RememberFull
  <2>2. \A k \in 1..Len(cpaTurns') : cpaTurns'[k] \in turnsNamed'
      BY <2>1 DEF TurnInv, TurnNoted
  <2>3. ASSUME NEW i \in 1..Len(cpaTurns'), NEW j \in 1..Len(cpaTurns'), i < j
        PROVE  cpaTurns'[j] \in later'[cpaTurns'[i]]
    <3>1. i + 1 \in 1..Len(cpaTurns) /\ cpaTurns'[i] = cpaTurns[i + 1]
          /\ cpaTurns[i + 1] \in turnsNamed /\ cpaTurns[i + 1] # v
        BY <1>6, <2>1, <2>3 DEF TurnInv, Remembered
    <3>2. CASE j = MaxTurns
        BY <1>2, <2>1, <3>1, <3>2
    <3>3. CASE j # MaxTurns
      <4>1. j + 1 \in 1..Len(cpaTurns) /\ cpaTurns'[j] = cpaTurns[j + 1] /\ i + 1 < j + 1
          BY <2>1, <2>3, <3>3
      <4>2. cpaTurns[j + 1] \in later[cpaTurns[i + 1]]
          BY <3>1, <4>1 DEF TurnInv, InOrder
      <4> QED
          BY <1>1, <1>3, <3>1, <4>1, <4>2, LaterGrows
    <3> QED
        BY <3>2, <3>3
  <2>4. ASSUME NEW u, Remembered(u) \/ u = v, u # cpaTurns[1] PROVE Remembered(u)'
    <3>1. CASE u = v
        BY <2>1, <3>1 DEF Remembered
    <3>2. CASE u # v
      <4>1. PICK k \in 1..Len(cpaTurns) : cpaTurns[k] = u
          BY <2>4, <3>2 DEF Remembered
      <4>2. k - 1 \in 1..MaxTurns - 1 /\ k - 1 \in 1..Len(cpaTurns') /\ (k - 1) + 1 = k
          BY <2>1, <2>4, <4>1
      <4> QED
          BY <2>1, <4>1, <4>2 DEF Remembered
    <3> QED
        BY <3>1, <3>2
  <2>5. ASSUME ~upstreamOnly', NEW u \in turnsNamed'
        PROVE  Remembered(u)' \/ Cardinality(later'[u]) >= MaxTurns
    <3>1. ~upstreamOnly /\ u \in Turns /\ (u \in turnsNamed \/ u = v)
        BY <1>3, <2>5 DEF TurnNoted, Served
    <3>2. CASE u = cpaTurns[1]
        BY <1>6, <3>2, EvictedStep
    <3>3. CASE u # cpaTurns[1]
        BY <1>1, <2>4, <3>1, <3>3, LaterGrows DEF TurnInv, EvictedSawOthers
    <3> QED
        BY <3>2, <3>3
  <2> QED
      BY <2>2, <2>3, <2>5 DEF TurnInv, InOrder, EvictedSawOthers
<1> QED
    BY <1>4, <1>5, <1>6

(* Every action is a step of one of these kinds. *)
LEMMA RequestTurn ==
    ASSUME NEW to \in {"request", "handshake"}, NEW m \in Models, NEW t, NEW p, NEW v \in MaybeTurn,
           Decide(m, t, p, v, None), Record(to, m, t, p, v, RouteOf(m, t, p, None)), UNCHANGED upstreamOnly
    PROVE  TurnStep
<1> DEFINE r == RouteOf(m, t, p, None)
<1>1. CASE m = "prefixed" /\ v # None
  <2>1. r = "cliproxy" /\ IsOfTurn(to, m) /\ v \in Turns
      BY <1>1 DEF RouteOf, IsOfTurn, MaybeTurn
  <2>2. Served(v) /\ turnsNamed' = turnsNamed \union {v}
      BY <1>1, <2>1 DEF Record, ServedByProxy, Served
  <2>3. CASE upstreamOnly
      BY <1>1, <2>1, <2>2, <2>3 DEF Decide, TurnStep, TurnServed
  <2>4. CASE ~upstreamOnly
      BY <1>1, <2>1, <2>2, <2>4 DEF Decide, TurnStep, TurnNoted
  <2> QED
      BY <2>3, <2>4
<1>2. CASE v = None
    BY <1>2 DEF Decide, Record, ServedByProxy, history, TurnStep, TurnsStay
<1>3. CASE m # "prefixed" /\ v # None
  <2>1. UNCHANGED cpaTurns /\ v \in Turns
      BY <1>3 DEF Decide, MaybeTurn
  <2>2. CASE r = "cliproxy" /\ to = "request"
    <3>1. Served(v) /\ turnsNamed' = turnsNamed
        BY <1>3, <2>1, <2>2 DEF Record, ServedByProxy, Served, IsOfTurn
    <3> QED
        BY <2>1, <3>1 DEF TurnStep, TurnServed
  <2>3. CASE ~(r = "cliproxy" /\ to = "request")
      BY <1>3, <2>1, <2>3 DEF Record, ServedByProxy, history, IsOfTurn, TurnStep, TurnsStay
  <2> QED
      BY <2>2, <2>3
<1> QED
    BY <1>1, <1>2, <1>3

LEMMA ForwardTurn ==
    ASSUME NEW c \in Connections, NEW m \in Models, NEW v \in MaybeTurn, Forward(c, m, v)
    PROVE  TurnStep
<1> DEFINE r == conn[c].route
<1>1. /\ Record("frame", m, conn[c].thread, None, v, r) /\ UNCHANGED upstreamOnly
      /\ cpaTurns' = IF r = "cliproxy" /\ v # None THEN Remember(v) ELSE cpaTurns
    BY DEF Forward
<1>2. CASE r = "cliproxy" /\ v # None
  <2>1. Served(v) /\ turnsNamed' = turnsNamed \union {v} /\ v \in Turns
      BY <1>1, <1>2 DEF Record, ServedByProxy, Served, IsOfTurn, MaybeTurn
  <2> QED
      BY <1>1, <1>2, <2>1 DEF TurnStep, TurnNoted
<1>3. CASE ~(r = "cliproxy" /\ v # None)
    BY <1>1, <1>3 DEF Record, ServedByProxy, history, IsOfTurn, TurnStep, TurnsStay
<1> QED
    BY <1>2, <1>3

LEMMA ImageTurn ==
    ASSUME NEW u \in Turns, ImageRequest(u)
    PROVE  TurnsStay
    BY DEF ImageRequest, Decide, Record, ServedByProxy, history, IsOfTurn, TurnsStay

LEMMA AllTurnSteps == [Next]_vars => TurnStep
<1> SUFFICES ASSUME [Next]_vars PROVE TurnStep
    OBVIOUS
<1>1. ASSUME NEW m \in Models, NEW t \in MaybeThread, NEW p \in MaybeThread, NEW u \in MaybeTurn,
             Request(m, t, p, u)
      PROVE  TurnStep
    BY <1>1, RequestTurn DEF Request
<1>2. ASSUME NEW c \in Connections, NEW m \in Models, NEW t \in MaybeThread, NEW p \in MaybeThread,
             NEW u \in MaybeTurn, Handshake(c, m, t, p, u)
      PROVE  TurnStep
    BY <1>2, RequestTurn DEF Handshake
<1>3. ASSUME NEW u \in Turns, ImageRequest(u) PROVE TurnStep
    BY <1>3, ImageTurn DEF TurnStep
<1>4. ASSUME NEW c \in Connections, NEW u \in MaybeTurn, Reconnect(c, u) PROVE TurnStep
    BY <1>4 DEF Reconnect, TurnStep, TurnsStay
<1>5. ASSUME NEW c \in Connections, NEW m \in Models, NEW u \in MaybeTurn, Forward(c, m, u) PROVE TurnStep
    BY <1>5, ForwardTurn
<1>6. ASSUME NEW c \in Connections, Disconnect(c) PROVE TurnStep
    BY <1>6 DEF Disconnect, memory, history, TurnStep, TurnsStay
<1>7. CASE UNCHANGED vars
    BY <1>7 DEF vars, memory, history, TurnStep, TurnsStay
<1>8. CASE Restart
    BY <1>8 DEF TurnStep
<1> QED
    BY <1>1, <1>2, <1>3, <1>4, <1>5, <1>6, <1>7, <1>8 DEF Next

LEMMA TurnInit == Init => TurnInv
    BY DEF Init, TurnInv, InOrder, EvictedSawOthers

LEMMA TurnInvStep == TypeOK /\ TurnInv /\ [Next]_vars => TurnInv'
<1> SUFFICES ASSUME TypeOK, TurnInv, TurnStep PROVE TurnInv'
    BY AllTurnSteps
<1>1. CASE TurnsStay
    BY <1>1 DEF TurnsStay, TurnInv, InOrder, EvictedSawOthers, Remembered
<1>2. CASE Restart
    BY <1>2 DEF Restart, TurnInv, InOrder, EvictedSawOthers
<1> QED
    BY <1>1, <1>2, ServedStep, NotedStep DEF TurnStep

LEMMA RoutingInvariant == Spec => [](TypeOK /\ SessionInv /\ TurnInv)
<1>1. Spec => []TypeOK
    BY RoutingTypes
<1> QED
    BY <1>1, SessionInit, SessionStep, TurnInit, TurnInvStep, PTL DEF Spec

LEMMA ImageStep ==
    TypeOK /\ TurnInv /\ [Next]_vars =>
       [answer'.to = "image" /\ answer'.turn \in turnsNamed /\ Cardinality(later[answer'.turn]) < MaxTurns
           => answer'.route = "cliproxy"]_vars
<1> SUFFICES ASSUME TypeOK, TurnInv, Next, answer'.to = "image", answer'.turn \in turnsNamed,
                    Cardinality(later[answer'.turn]) < MaxTurns
             PROVE  answer'.route = "cliproxy"
    OBVIOUS
<1>1. ASSUME NEW u \in Turns, ImageRequest(u) PROVE answer'.route = "cliproxy"
  <2>1. answer'.turn = u /\ answer'.route = RouteOf("plain", None, None, u)
      BY <1>1 DEF ImageRequest, Record
  <2>2. CASE upstreamOnly
      BY <2>1, <2>2 DEF RouteOf
  <2>3. CASE ~upstreamOnly
    <3>1. IsFiniteSet(later[u])
        BY FS_Subset DEF TypeOK
    <3>2. Cardinality(later[u]) \in Nat
        BY <3>1, FS_CardinalityType
    <3>3. Remembered(u)
        BY <2>1, <2>3, <3>2 DEF TurnInv, EvictedSawOthers
    <3> QED
        BY <2>1, <3>3 DEF RouteOf, Inherits
  <2> QED
      BY <2>2, <2>3
<1>2. ASSUME NEW m \in Models, NEW t \in MaybeThread, NEW p \in MaybeThread, NEW u \in MaybeTurn,
             Request(m, t, p, u) \/ \E c \in Connections : Handshake(c, m, t, p, u)
      PROVE  FALSE
    BY <1>2 DEF Request, Handshake, Record
<1>3. ASSUME NEW c \in Connections, NEW u \in MaybeTurn,
             Reconnect(c, u) \/ \E m \in Models : Forward(c, m, u)
      PROVE  FALSE
    BY <1>3 DEF Reconnect, Forward, Record
<1>4. ASSUME (\E c \in Connections : Disconnect(c)) \/ Restart PROVE FALSE
    BY <1>4 DEF Disconnect, Restart, NoAnswer
<1> QED
    BY <1>1, <1>2, <1>3, <1>4 DEF Next

(* A turn named on the proxy keeps its images there until MaxTurns others  *)
(* pushed it out, for any bound and any interleaving of its connections.   *)
THEOREM ImagesFollow == Spec => ImagesFollowTurn
    BY RoutingInvariant, ImageStep, PTL DEF Spec, ImagesFollowTurn

LEMMA DivertStep ==
    TypeOK /\ SessionInv /\ TurnInv /\ [Next]_vars =>
       [~upstreamOnly /\ answer'.to \in {"request", "image", "handshake"} /\ answer'.route = "cliproxy"
          => \/ answer'.thread \in proxied \/ answer'.parent \in proxied
             \/ answer'.to = "image" /\ answer'.turn \in turnsNamed
             \/ answer'.model = "prefixed"]_vars
<1> SUFFICES ASSUME TypeOK, SessionInv, TurnInv, Next, ~upstreamOnly,
                    answer'.to \in {"request", "image", "handshake"}, answer'.route = "cliproxy"
             PROVE  \/ answer'.thread \in proxied \/ answer'.parent \in proxied
                    \/ answer'.to = "image" /\ answer'.turn \in turnsNamed
                    \/ answer'.model = "prefixed"
    OBVIOUS
<1> DEFINE Goal == \/ answer'.thread \in proxied \/ answer'.parent \in proxied
                   \/ answer'.to = "image" /\ answer'.turn \in turnsNamed
                   \/ answer'.model = "prefixed"
<1>1. ASSUME NEW to, NEW m \in Models, NEW t \in MaybeThread, NEW p \in MaybeThread, NEW u,
             Record(to, m, t, p, u, RouteOf(m, t, p, None))
      PROVE  Goal
  <2>1. /\ answer'.thread = t /\ answer'.parent = p /\ answer'.model = m
        /\ RouteOf(m, t, p, None) = "cliproxy"
      BY <1>1 DEF Record
  <2> QED
      BY <2>1 DEF RouteOf, Inherits, SessionInv
<1>2. ASSUME NEW u \in Turns, ImageRequest(u) PROVE Goal
  <2>1. /\ answer'.to = "image" /\ answer'.turn = u
        /\ RouteOf("plain", None, None, u) = "cliproxy"
      BY <1>2 DEF ImageRequest, Record
  <2>2. None \notin cpaThreads
      BY DEF TypeOK
  <2>3. Remembered(u)
      BY <2>1, <2>2 DEF RouteOf, Inherits
  <2> QED
      BY <2>1, <2>3 DEF TurnInv, Remembered
<1>3. ASSUME NEW c \in Connections, NEW u \in MaybeTurn,
             Reconnect(c, u) \/ \E m \in Models : Forward(c, m, u)
      PROVE  FALSE
    BY <1>3 DEF Reconnect, Forward, Record
<1>4. ASSUME (\E c \in Connections : Disconnect(c)) \/ Restart PROVE FALSE
    BY <1>4 DEF Disconnect, Restart, NoAnswer
<1> QED
    BY <1>1, <1>2, <1>3, <1>4 DEF Next, Request, Handshake

(* No request of an official session is diverted to the proxy, whatever    *)
(* was remembered, evicted or inherited before.                            *)
THEOREM OfficialStays == Spec => OfficialNotDiverted
    BY RoutingInvariant, DivertStep, PTL DEF Spec, OfficialNotDiverted
=============================================================================
