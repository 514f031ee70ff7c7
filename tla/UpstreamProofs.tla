---------------------------- MODULE UpstreamProofs ----------------------------
(***************************************************************************)
(* What the parsers of UpstreamEvents give, for any calls, any contents    *)
(* and any length of the stream: the events of a call begin, bring its     *)
(* pieces in order, each once, and end; an end or an error is the last     *)
(* event; an end that is no cut tells what the provider said.              *)
(*                                                                         *)
(* The events still in the queue are looked at as a run: a run brings a    *)
(* call from a place (not begun, open, ended) and a number of pieces to    *)
(* another, one event after the other.                                     *)
(***************************************************************************)
EXTENDS ClientOutput, FiniteSetTheorems, SequenceTheorems, TLAPS

Readers   == {"reading", "flushing", "ended", "returned", "thrown"}
Pieces    == Seq(Nat)
Events    == {Start, Error} \union {Content(w) : w \in {"text", "thinking", "refusal"}}
             \union {CallStart(c) : c \in Calls} \union {CallEnd(c) : c \in Calls}
             \union {Args(p[1], p[2]) : p \in Calls \X Pieces} \union {End(r) : r \in AllReasons}
CallType  == [state : {"none", "waiting", "open", "ended"}, tool : Tools, native : BOOLEAN,
              sent : Nat, held : Nat, whole : BOOLEAN]

(* The types of the parser.                                                *)
ParserTypes ==
    /\ from \in Protocols /\ json \in BOOLEAN /\ reader \in Readers /\ started \in BOOLEAN
    /\ stop \in AllReasons \union {None} /\ blocks \in BOOLEAN /\ texts \in 0..MaxTexts
    /\ call \in [Calls -> CallType] /\ order \in Seq(Calls) /\ queue \in Seq(Events)

(* An event of a call. *)
OfCall(e) == e.type \in {"call", "args", "call end"}
About(e, c) == OfCall(e) /\ e.call = c

(* What an event makes of a call: how far it is, and how many pieces came. *)
Step(e, c, s, m, t, n) ==
    \/ e.type = "call" /\ e.call = c /\ s = "none" /\ t = "open" /\ n = m
    \/ e.type = "args" /\ e.call = c /\ s = "open" /\ t = "open"
       /\ n = m + Len(e.pieces) /\ e.pieces = [k \in 1..Len(e.pieces) |-> m + k]
    \/ e.type = "call end" /\ e.call = c /\ s = "open" /\ t = "ended" /\ n = m
    \/ ~About(e, c) /\ t = s /\ n = m

Places == {"none", "open", "ended"}

(* A call that ended does not change. *)
Settled(f, g, n) ==
    \A j \in 1..n : \A k \in j..n : f[j] = "ended" => f[k] = "ended" /\ g[k] = g[j]

(* The events q bring call c from s and m pieces to t and n pieces. *)
Run(q, c, s, m, t, n) ==
    \E f \in [1..(Len(q) + 1) -> Places], g \in [1..(Len(q) + 1) -> Nat] :
        /\ f[1] = s /\ g[1] = m /\ f[Len(q) + 1] = t /\ g[Len(q) + 1] = n
        /\ \A j \in 1..Len(q) : Step(q[j], c, f[j], g[j], f[j + 1], g[j + 1])
        /\ Settled(f, g, Len(q) + 1)

(* Queues without events of calls, without an end, of one call only.       *)
Calm(q)    == \A j \in DOMAIN q : ~OfCall(q[j])
NoEnd(q)   == \A j \in DOMAIN q : q[j].type \notin {"end", "error"}
Only(q, c) == \A j \in DOMAIN q : OfCall(q[j]) => q[j].call = c

-----------------------------------------------------------------------------
(* Events.                                                                  *)
LEMMA EventKinds ==
    /\ Start \in Events /\ Error \in Events
    /\ \A w \in {"text", "thinking", "refusal"} : Content(w) \in Events
    /\ \A c \in Calls : CallStart(c) \in Events /\ CallEnd(c) \in Events
    /\ \A c \in Calls, ps \in Pieces : Args(c, ps) \in Events
    /\ \A r \in AllReasons : End(r) \in Events
<1>1. \A c \in Calls, ps \in Pieces : Args(c, ps) \in Events
  <2> SUFFICES ASSUME NEW c \in Calls, NEW ps \in Pieces PROVE Args(c, ps) \in Events
    OBVIOUS
  <2> DEFINE p == <<c, ps>>
  <2>1. p \in Calls \X Pieces /\ p[1] = c /\ p[2] = ps
    OBVIOUS
  <2> HIDE DEF p
  <2> QED BY <2>1 DEF Events
<1> QED BY <1>1 DEF Events

LEMMA EventFields ==
    ASSUME NEW e \in Events
    PROVE  /\ e.type \in {"start", "error", "content", "call", "args", "call end", "end"}
           /\ e.type = "call" => e.call \in Calls /\ e = CallStart(e.call)
           /\ e.type = "call end" => e.call \in Calls /\ e = CallEnd(e.call)
           /\ e.type = "args" => e.call \in Calls /\ e.pieces \in Pieces /\ e = Args(e.call, e.pieces)
           /\ e.type = "end" => e.reason \in AllReasons /\ e = End(e.reason)
           /\ e.type = "error" => e = Error
           /\ e.type = "start" => e = Start
           /\ e.type = "content" => e.what \in {"text", "thinking", "refusal"} /\ e = Content(e.what)
<1>1. (e = Start => e.type = "start") /\ (e = Error => e.type = "error")
  BY DEF Start, Error
<1>2. ASSUME NEW w \in {"text", "thinking", "refusal"}, e = Content(w)
      PROVE  e.type = "content" /\ e.what = w
  BY <1>2 DEF Content
<1>3. ASSUME NEW c \in Calls, e = CallStart(c) PROVE e.type = "call" /\ e.call = c
  BY <1>3 DEF CallStart
<1>4. ASSUME NEW c \in Calls, e = CallEnd(c) PROVE e.type = "call end" /\ e.call = c
  BY <1>4 DEF CallEnd
<1>5. ASSUME NEW p \in Calls \X Pieces, e = Args(p[1], p[2])
      PROVE  e.type = "args" /\ e.call = p[1] /\ e.pieces = p[2] /\ p[1] \in Calls /\ p[2] \in Pieces
  BY <1>5 DEF Args
<1>6. ASSUME NEW r \in AllReasons, e = End(r) PROVE e.type = "end" /\ e.reason = r
  BY <1>6 DEF End
<1>7. \/ e = Start
      \/ e = Error
      \/ \E w \in {"text", "thinking", "refusal"} : e = Content(w)
      \/ \E c \in Calls : e = CallStart(c)
      \/ \E c \in Calls : e = CallEnd(c)
      \/ \E p \in Calls \X Pieces : e = Args(p[1], p[2])
      \/ \E r \in AllReasons : e = End(r)
  BY DEF Events
<1>8. CASE e = Start \/ e = Error
  BY <1>1, <1>8
<1>9. CASE \E w \in {"text", "thinking", "refusal"} : e = Content(w)
  BY <1>2, <1>9
<1>10. CASE \E c \in Calls : e = CallStart(c)
  BY <1>3, <1>10
<1>11. CASE \E c \in Calls : e = CallEnd(c)
  BY <1>4, <1>11
<1>12. CASE \E p \in Calls \X Pieces : e = Args(p[1], p[2])
  BY <1>5, <1>12
<1>13. CASE \E r \in AllReasons : e = End(r)
  BY <1>6, <1>13
<1> QED BY <1>7, <1>8, <1>9, <1>10, <1>11, <1>12, <1>13

-----------------------------------------------------------------------------
(* Runs.                                                                    *)
LEMMA RunEmpty ==
    ASSUME NEW c, NEW s \in Places, NEW m \in Nat, NEW t, NEW n
    PROVE  Run(<<>>, c, s, m, t, n) <=> t = s /\ n = m
<1>1. Len(<<>>) = 0
  OBVIOUS
<1>2. ASSUME Run(<<>>, c, s, m, t, n) PROVE t = s /\ n = m
  BY <1>1, <1>2 DEF Run
<1>3. Run(<<>>, c, s, m, s, m)
  <2> DEFINE f == [k \in 1..1 |-> s]
             g == [k \in 1..1 |-> m]
  <2>1. f \in [1..1 -> Places] /\ g \in [1..1 -> Nat] /\ f[1] = s /\ g[1] = m
    OBVIOUS
  <2> HIDE DEF f, g
  <2>2. Settled(f, g, 0 + 1)
    BY DEF Settled
  <2> QED BY <1>1, <2>1, <2>2 DEF Run
<1> QED BY <1>2, <1>3

LEMMA RunCalm ==
    ASSUME NEW q \in Seq(Events), NEW c, NEW s \in Places, NEW m \in Nat,
           \A j \in DOMAIN q : ~About(q[j], c)
    PROVE  Run(q, c, s, m, s, m)
<1> DEFINE f == [k \in 1..(Len(q) + 1) |-> s]
           g == [k \in 1..(Len(q) + 1) |-> m]
<1>1. Len(q) \in Nat /\ DOMAIN q = 1..Len(q)
  OBVIOUS
<1>2. f \in [1..(Len(q) + 1) -> Places] /\ g \in [1..(Len(q) + 1) -> Nat]
      /\ \A k \in 1..(Len(q) + 1) : f[k] = s /\ g[k] = m
  OBVIOUS
<1> HIDE DEF f, g
<1>3. \A j \in 1..Len(q) : Step(q[j], c, f[j], g[j], f[j + 1], g[j + 1])
  <2> SUFFICES ASSUME NEW j \in 1..Len(q) PROVE Step(q[j], c, f[j], g[j], f[j + 1], g[j + 1])
    OBVIOUS
  <2>1. j \in 1..(Len(q) + 1) /\ j + 1 \in 1..(Len(q) + 1)
    BY <1>1
  <2>2. f[j] = s /\ f[j + 1] = s /\ g[j] = m /\ g[j + 1] = m /\ ~About(q[j], c)
    BY <1>1, <1>2, <2>1
  <2> QED BY <2>2 DEF Step
<1>4. Settled(f, g, Len(q) + 1)
  BY <1>1, <1>2 DEF Settled
<1> QED BY <1>1, <1>2, <1>3, <1>4 DEF Run

LEMMA RunOne ==
    ASSUME NEW e \in Events, NEW c, NEW s \in Places, NEW m \in Nat, NEW t \in Places, NEW n \in Nat,
           Step(e, c, s, m, t, n)
    PROVE  Run(<<e>>, c, s, m, t, n)
<1> DEFINE f == [k \in 1..2 |-> IF k = 1 THEN s ELSE t]
           g == [k \in 1..2 |-> IF k = 1 THEN m ELSE n]
           q == <<e>>
<1>1. f \in [1..2 -> Places] /\ g \in [1..2 -> Nat] /\ f[1] = s /\ g[1] = m /\ f[2] = t /\ g[2] = n
  OBVIOUS
<1>2. Len(q) = 1 /\ q[1] = e
  OBVIOUS
<1> HIDE DEF f, g, q
<1>3. \A j \in 1..Len(q) : Step(q[j], c, f[j], g[j], f[j + 1], g[j + 1])
  <2> SUFFICES ASSUME NEW j \in 1..Len(q) PROVE Step(q[j], c, f[j], g[j], f[j + 1], g[j + 1])
    OBVIOUS
  <2>1. j = 1 /\ j + 1 = 2
    BY <1>2
  <2>2. q[j] = e /\ f[j] = s /\ g[j] = m /\ f[j + 1] = t /\ g[j + 1] = n
    BY <1>1, <1>2, <2>1
  <2> QED BY <2>2
<1>4. Settled(f, g, Len(q) + 1)
  <2>1. s = "ended" => t = "ended" /\ n = m
    BY DEF Step
  <2> QED BY <1>1, <1>2, <2>1 DEF Settled
<1>5. Run(q, c, s, m, t, n)
  BY <1>1, <1>2, <1>3, <1>4 DEF Run
<1> QED BY <1>5 DEF q

LEMMA RunTail ==
    ASSUME NEW q \in Seq(Events), q # <<>>, NEW c, NEW s, NEW m, NEW t, NEW n, Run(q, c, s, m, t, n)
    PROVE  \E u \in Places, k \in Nat : Step(Head(q), c, s, m, u, k) /\ Run(Tail(q), c, u, k, t, n)
<1>1. PICK f \in [1..(Len(q) + 1) -> Places], g \in [1..(Len(q) + 1) -> Nat] :
        /\ f[1] = s /\ g[1] = m /\ f[Len(q) + 1] = t /\ g[Len(q) + 1] = n
        /\ \A j \in 1..Len(q) : Step(q[j], c, f[j], g[j], f[j + 1], g[j + 1])
        /\ Settled(f, g, Len(q) + 1)
  BY DEF Run
<1> DEFINE r == Tail(q)
           h == [j \in 1..(Len(r) + 1) |-> f[j + 1]]
           i == [j \in 1..(Len(r) + 1) |-> g[j + 1]]
<1>2. Len(q) \in Nat /\ Len(q) >= 1 /\ Len(r) = Len(q) - 1 /\ \A j \in 1..Len(r) : r[j] = q[j + 1]
  OBVIOUS
<1>3. h \in [1..(Len(r) + 1) -> Places] /\ i \in [1..(Len(r) + 1) -> Nat]
      /\ \A j \in 1..(Len(r) + 1) : h[j] = f[j + 1] /\ i[j] = g[j + 1]
  BY <1>2
<1>4. Head(q) = q[1]
  OBVIOUS
<1> HIDE DEF r, h, i
<1>5. \A j \in 1..Len(r) : Step(r[j], c, h[j], i[j], h[j + 1], i[j + 1])
  <2> SUFFICES ASSUME NEW j \in 1..Len(r) PROVE Step(r[j], c, h[j], i[j], h[j + 1], i[j + 1])
    OBVIOUS
  <2>1. j + 1 \in 1..Len(q) /\ j \in 1..(Len(r) + 1) /\ j + 1 \in 1..(Len(r) + 1)
    BY <1>2
  <2>2. Step(q[j + 1], c, f[j + 1], g[j + 1], f[(j + 1) + 1], g[(j + 1) + 1])
    BY <1>1, <2>1
  <2> QED BY <1>2, <1>3, <2>1, <2>2
<1>6. h[1] = f[2] /\ i[1] = g[2] /\ h[Len(r) + 1] = t /\ i[Len(r) + 1] = n
  <2>1. 1 \in 1..(Len(r) + 1) /\ Len(r) + 1 \in 1..(Len(r) + 1) /\ (Len(r) + 1) + 1 = Len(q) + 1
    BY <1>2
  <2> QED BY <1>1, <1>3, <2>1
<1>9. Settled(h, i, Len(r) + 1)
  <2> SUFFICES ASSUME NEW j \in 1..(Len(r) + 1), NEW k \in j..(Len(r) + 1), h[j] = "ended"
               PROVE  h[k] = "ended" /\ i[k] = i[j]
    BY DEF Settled
  <2>1. j + 1 \in 1..(Len(q) + 1) /\ k + 1 \in (j + 1)..(Len(q) + 1) /\ k \in 1..(Len(r) + 1)
    BY <1>2
  <2>2. f[j + 1] = "ended" => f[k + 1] = "ended" /\ g[k + 1] = g[j + 1]
    BY <1>1, <2>1 DEF Settled
  <2> QED BY <1>3, <2>1, <2>2
<1>7. Run(r, c, f[2], g[2], t, n)
  BY <1>3, <1>5, <1>6, <1>9 DEF Run
<1>8. f[2] \in Places /\ g[2] \in Nat /\ Step(Head(q), c, s, m, f[2], g[2])
  BY <1>1, <1>2, <1>4
<1> QED BY <1>7, <1>8 DEF r

LEMMA RunConcat ==
    ASSUME NEW a \in Seq(Events), NEW b \in Seq(Events), NEW c, NEW s, NEW m, NEW t, NEW n, NEW u, NEW k,
           Run(a, c, s, m, t, n), Run(b, c, t, n, u, k)
    PROVE  Run(a \o b, c, s, m, u, k)
<1>1. PICK f \in [1..(Len(a) + 1) -> Places], g \in [1..(Len(a) + 1) -> Nat] :
        /\ f[1] = s /\ g[1] = m /\ f[Len(a) + 1] = t /\ g[Len(a) + 1] = n
        /\ \A j \in 1..Len(a) : Step(a[j], c, f[j], g[j], f[j + 1], g[j + 1])
        /\ Settled(f, g, Len(a) + 1)
  BY DEF Run
<1>2. PICK h \in [1..(Len(b) + 1) -> Places], i \in [1..(Len(b) + 1) -> Nat] :
        /\ h[1] = t /\ i[1] = n /\ h[Len(b) + 1] = u /\ i[Len(b) + 1] = k
        /\ \A j \in 1..Len(b) : Step(b[j], c, h[j], i[j], h[j + 1], i[j + 1])
        /\ Settled(h, i, Len(b) + 1)
  BY DEF Run
<1> DEFINE q == a \o b
           la == Len(a)
           lb == Len(b)
           v == [j \in 1..(Len(q) + 1) |-> IF j <= la THEN f[j] ELSE h[j - la]]
           w == [j \in 1..(Len(q) + 1) |-> IF j <= la THEN g[j] ELSE i[j - la]]
<1>3. /\ la \in Nat /\ lb \in Nat /\ Len(q) = la + lb
      /\ \A j \in 1..la : q[j] = a[j]
      /\ \A j \in 1..lb : q[la + j] = b[j]
  OBVIOUS
<1>4. /\ v \in [1..(Len(q) + 1) -> Places] /\ w \in [1..(Len(q) + 1) -> Nat]
      /\ \A j \in 1..(Len(q) + 1) : v[j] = (IF j <= la THEN f[j] ELSE h[j - la])
                                    /\ w[j] = (IF j <= la THEN g[j] ELSE i[j - la])
  <2>1. \A j \in 1..(Len(q) + 1) : IF j <= la THEN j \in 1..(Len(a) + 1) ELSE j - la \in 1..(Len(b) + 1)
    BY <1>3
  <2> QED BY <2>1
<1>5. \A j \in 1..(la + 1) : v[j] = f[j] /\ w[j] = g[j]
  <2> SUFFICES ASSUME NEW j \in 1..(la + 1) PROVE v[j] = f[j] /\ w[j] = g[j]
    OBVIOUS
  <2>1. j \in 1..(Len(q) + 1)
    BY <1>3
  <2>2. CASE j <= la
    BY <1>4, <2>1, <2>2
  <2>3. CASE j = la + 1
    <3>1. ~(j <= la) /\ j - la = 1
      BY <1>3, <2>3
    <3> QED BY <1>1, <1>2, <1>4, <2>1, <2>3, <3>1
  <2> QED BY <1>3, <2>2, <2>3
<1>6. \A j \in 1..(lb + 1) : v[la + j] = h[j] /\ w[la + j] = i[j]
  <2> SUFFICES ASSUME NEW j \in 1..(lb + 1) PROVE v[la + j] = h[j] /\ w[la + j] = i[j]
    OBVIOUS
  <2>1. la + j \in 1..(Len(q) + 1) /\ ~(la + j <= la) /\ (la + j) - la = j
    BY <1>3
  <2> QED BY <1>4, <2>1
<1> HIDE DEF v, w, q
<1>7. \A j \in 1..Len(q) : Step(q[j], c, v[j], w[j], v[j + 1], w[j + 1])
  <2> SUFFICES ASSUME NEW j \in 1..Len(q) PROVE Step(q[j], c, v[j], w[j], v[j + 1], w[j + 1])
    OBVIOUS
  <2>1. CASE j <= la
    <3>1. j \in 1..la /\ j \in 1..(la + 1) /\ j + 1 \in 1..(la + 1)
      BY <1>3, <2>1
    <3> QED BY <1>1, <1>3, <1>5, <3>1
  <2>2. CASE ~(j <= la)
    <3> DEFINE p == j - la
    <3>1. p \in 1..lb /\ p \in 1..(lb + 1) /\ p + 1 \in 1..(lb + 1) /\ la + p = j /\ la + (p + 1) = j + 1
      BY <1>3, <2>2
    <3> HIDE DEF p
    <3>2. Step(b[p], c, h[p], i[p], h[p + 1], i[p + 1])
      BY <1>2, <3>1
    <3>3. v[j] = h[p] /\ w[j] = i[p] /\ q[j] = b[p]
      <4>1. v[la + p] = h[p] /\ w[la + p] = i[p]
        BY <1>6, <3>1
      <4>2. q[la + p] = b[p]
        BY <1>3, <3>1
      <4>3. la + p = j
        BY <3>1
      <4> HIDE DEF la
      <4> QED BY <4>1, <4>2, <4>3, Zenon
    <3>4. v[j + 1] = h[p + 1] /\ w[j + 1] = i[p + 1]
      BY <1>6, <3>1
    <3> QED BY <3>2, <3>3, <3>4
  <2> QED BY <2>1, <2>2
<1>8. v[1] = s /\ w[1] = m /\ v[Len(q) + 1] = u /\ w[Len(q) + 1] = k
  <2>1. 1 \in 1..(la + 1) /\ lb + 1 \in 1..(lb + 1) /\ la + (lb + 1) = Len(q) + 1
    BY <1>3
  <2> QED BY <1>1, <1>2, <1>5, <1>6, <2>1
<1>10. Settled(v, w, Len(q) + 1)
  <2> SUFFICES ASSUME NEW x \in 1..(Len(q) + 1), NEW y \in x..(Len(q) + 1), v[x] = "ended"
               PROVE  v[y] = "ended" /\ w[y] = w[x]
    BY DEF Settled
  <2>1. CASE y <= la + 1
    <3>1. x \in 1..(la + 1) /\ y \in x..(la + 1) /\ y \in 1..(la + 1)
      BY <1>3, <2>1
    <3>2. f[x] = "ended" => f[y] = "ended" /\ g[y] = g[x]
      BY <1>1, <3>1 DEF Settled
    <3> QED BY <1>5, <3>1, <3>2
  <2>2. CASE ~(y <= la + 1) /\ x <= la + 1
    <3> DEFINE z == y - la
    <3>1. x \in 1..(la + 1) /\ la + 1 \in x..(la + 1) /\ z \in 1..(lb + 1) /\ 1 \in 1..(lb + 1) /\ la + z = y
      BY <1>3, <2>2
    <3> HIDE DEF z
    <3>2. f[x] = "ended" => f[la + 1] = "ended" /\ g[la + 1] = g[x]
      BY <1>1, <3>1 DEF Settled
    <3>3. h[1] = "ended" => h[z] = "ended" /\ i[z] = i[1]
      BY <1>2, <3>1 DEF Settled
    <3>4. v[la + z] = h[z] /\ w[la + z] = i[z] /\ v[x] = f[x] /\ w[x] = g[x]
      BY <1>5, <1>6, <3>1
    <3>5. v[y] = h[z] /\ w[y] = i[z]
      BY <3>1, <3>4
    <3>6. f[la + 1] = h[1] /\ g[la + 1] = i[1]
      BY <1>1, <1>2
    <3> QED BY <3>2, <3>3, <3>4, <3>5, <3>6
  <2>3. CASE ~(x <= la + 1)
    <3> DEFINE z == y - la
               o == x - la
    <3>1. o \in 1..(lb + 1) /\ z \in o..(lb + 1) /\ z \in 1..(lb + 1) /\ la + z = y /\ la + o = x
      BY <1>3, <2>3
    <3> HIDE DEF z, o
    <3>3. h[o] = "ended" => h[z] = "ended" /\ i[z] = i[o]
      BY <1>2, <3>1 DEF Settled
    <3>4. v[la + z] = h[z] /\ w[la + z] = i[z] /\ v[la + o] = h[o] /\ w[la + o] = i[o]
      BY <1>6, <3>1
    <3>5. v[y] = h[z] /\ w[y] = i[z] /\ v[x] = h[o] /\ w[x] = i[o]
      BY <3>1, <3>4
    <3> QED BY <3>3, <3>5
  <2> QED BY <1>3, <2>1, <2>2, <2>3
<1>9. Run(q, c, s, m, u, k)
  BY <1>4, <1>7, <1>8, <1>10 DEF Run
<1> QED BY <1>9 DEF q

(* A call that ended has all its pieces. *)
LEMMA RunOver ==
    ASSUME NEW q \in Seq(Events), NEW c, NEW m, NEW t, NEW n, Run(q, c, "ended", m, t, n)
    PROVE  t = "ended" /\ n = m
<1>1. PICK f \in [1..(Len(q) + 1) -> Places], g \in [1..(Len(q) + 1) -> Nat] :
        /\ f[1] = "ended" /\ g[1] = m /\ f[Len(q) + 1] = t /\ g[Len(q) + 1] = n
        /\ Settled(f, g, Len(q) + 1)
  BY DEF Run
<1>2. 1 \in 1..(Len(q) + 1) /\ Len(q) + 1 \in 1..(Len(q) + 1)
  OBVIOUS
<1> QED BY <1>1, <1>2 DEF Settled

(* Pieces held back are given one by one. *)
LEMMA RunPieces ==
    ASSUME NEW c \in Calls, NEW n \in Nat, NEW q, q = [k \in 1..n |-> Args(c, <<k>>)]
    PROVE  q \in Seq(Events) /\ Run(q, c, "open", 0, "open", n) /\ Only(q, c) /\ NoEnd(q)
           /\ \A j \in DOMAIN q : q[j].type = "args"
<1>1. \A k \in 1..n : q[k] = Args(c, <<k>>) /\ <<k>> \in Pieces
  BY DEF Pieces
<1>2. \A k \in 1..n : q[k] \in Events
  BY <1>1, EventKinds
<1>3. q \in Seq(Events) /\ Len(q) = n /\ DOMAIN q = 1..n
  BY <1>2
<1>4. \A k \in 1..n : q[k].type = "args" /\ q[k].call = c /\ q[k].pieces = <<k>>
  BY <1>1 DEF Args
<1> DEFINE f == [k \in 1..(n + 1) |-> "open"]
           g == [k \in 1..(n + 1) |-> k - 1]
<1>5. f \in [1..(n + 1) -> Places] /\ g \in [1..(n + 1) -> Nat]
      /\ \A k \in 1..(n + 1) : f[k] = "open" /\ g[k] = k - 1
  BY DEF Places
<1> HIDE DEF f, g
<1>6. \A j \in 1..n : Step(q[j], c, f[j], g[j], f[j + 1], g[j + 1])
  <2> SUFFICES ASSUME NEW j \in 1..n PROVE Step(q[j], c, f[j], g[j], f[j + 1], g[j + 1])
    OBVIOUS
  <2>1. j \in 1..(n + 1) /\ j + 1 \in 1..(n + 1)
    OBVIOUS
  <2>2. f[j] = "open" /\ f[j + 1] = "open" /\ g[j] = j - 1 /\ g[j + 1] = j
    BY <1>5, <2>1
  <2> DEFINE ps == <<j>>
  <2>3. Len(ps) = 1 /\ ps = [k \in 1..Len(ps) |-> (j - 1) + k]
    OBVIOUS
  <2>4. j = (j - 1) + 1
    OBVIOUS
  <2> QED BY <1>4, <2>2, <2>3, <2>4 DEF Step
<1>7. Run(q, c, "open", 0, "open", n)
  <2>1. 1 \in 1..(n + 1) /\ n + 1 \in 1..(n + 1)
    OBVIOUS
  <2>2. f[1] = "open" /\ g[1] = 0 /\ f[n + 1] = "open" /\ g[n + 1] = n
    BY <1>5, <2>1
  <2>3. Settled(f, g, n + 1)
    <3>1. \A k \in 1..(n + 1) : f[k] # "ended"
      BY <1>5
    <3> QED BY <3>1 DEF Settled
  <2> QED BY <1>3, <1>5, <1>6, <2>2, <2>3 DEF Run
<1> QED BY <1>3, <1>4, <1>7 DEF Only, NoEnd

-----------------------------------------------------------------------------
(* The parser.                                                              *)

(* What the parser remembers of a call. *)
CallOK(r) ==
    /\ r.state \in {"none", "ended"} => r.held = 0
    /\ r.state = "none" => r = NoCall
    /\ r.state = "waiting" => r.held = r.sent /\ ~r.native
    /\ r.state = "open" => r.held = IF r.native THEN r.sent ELSE 0

(* How far its events brought a call. *)
PlaceOf(r) == IF r.state \in {"none", "waiting"} THEN "none" ELSE r.state
GaveOf(r)  == r.sent - r.held

(* A message_end that is no cut tells the truth. *)
Told     == EndSaid /\ "error" \notin said /\ OpenCalls = {}
EndOf(r) == ~Incomplete(r) => Told

(* An end or an error is the last event, and the parser is over by then.   *)
Ends(q, rd) ==
    /\ \A j \in DOMAIN q : q[j].type \in {"end", "error"} => j = Len(q) /\ rd \in {"ended", "returned"}
    /\ rd \in {"ended", "returned"} /\ q # <<>> => q[Len(q)].type \in {"end", "error"}
    /\ rd = "thrown" => q = <<>>

(* A call has begun, or ended, before the parser when its events are       *)
(* queued.                                                                 *)
OfCalls(q, cs) ==
    \A j \in DOMAIN q : /\ OfCall(q[j]) => PlaceOf(cs[q[j].call]) # "none"
                        /\ q[j].type = "call end" => cs[q[j].call].state = "ended"

(* The calls of a Chat stream that did not end are listed, each once. *)
Listed(cs, o) ==
    /\ \A c \in Calls : cs[c].state \in {"waiting", "open"} => \E j \in DOMAIN o : o[j] = c
    /\ \A j \in DOMAIN o : cs[o[j]].state \in {"waiting", "open"}
    /\ \A j, k \in DOMAIN o : o[j] = o[k] => j = k

(* What holds of the parser, whatever the provider sends.                  *)
ReadInv ==
    /\ ParserTypes
    /\ Ends(queue, reader) /\ OfCalls(queue, call)
    /\ \A j \in DOMAIN queue : queue[j].type = "end" => EndOf(queue[j].reason)
    /\ reader \in {"reading", "flushing"} => "error" \notin said
    /\ reader = "flushing" => from = "chat" /\ ~json /\ EndSaid
    /\ from = "chat" /\ ~json /\ reader \in {"reading", "flushing"} => Listed(call, order)
    /\ json \/ from = "gemini" => OpenCalls = {}
    /\ stop # None => "stop" \in said
    /\ from = "chat" /\ ~json /\ reader = "reading" => \A c \in Calls : call[c].state # "ended"
    /\ \A c \in Calls : CallOK(call[c])
    /\ \A c \in Calls : call[c].native => from = "responses"

(* What a step of the parser tells of call c. *)
Gives(q, c, old, new) ==
    /\ Run(q, c, PlaceOf(old), GaveOf(old), PlaceOf(new), GaveOf(new))
    /\ old.state = "ended" => new = old
    /\ PlaceOf(old) # "none" => new.tool = old.tool /\ PlaceOf(new) # "none"

LEMMA CallTyped ==
    ASSUME NEW r \in CallType, CallOK(r)
    PROVE  PlaceOf(r) \in Places /\ GaveOf(r) \in Nat
BY DEF CallType, CallOK, PlaceOf, GaveOf, Places, NoCall

LEMMA Concats ==
    ASSUME NEW a \in Seq(Events), NEW b \in Seq(Events)
    PROVE  /\ a \o b \in Seq(Events)
           /\ Calm(a) /\ Calm(b) => Calm(a \o b)
           /\ NoEnd(a) /\ NoEnd(b) => NoEnd(a \o b)
           /\ \A c : Only(a, c) /\ Only(b, c) => Only(a \o b, c)
           /\ \A j \in DOMAIN (a \o b) : (\E k \in DOMAIN a : (a \o b)[j] = a[k]) \/ (\E k \in DOMAIN b : (a \o b)[j] = b[k])
<1>1. \A j \in DOMAIN (a \o b) : (\E k \in DOMAIN a : (a \o b)[j] = a[k]) \/ (\E k \in DOMAIN b : (a \o b)[j] = b[k])
  <2> SUFFICES ASSUME NEW j \in DOMAIN (a \o b)
               PROVE (\E k \in DOMAIN a : (a \o b)[j] = a[k]) \/ (\E k \in DOMAIN b : (a \o b)[j] = b[k])
    OBVIOUS
  <2>1. CASE j <= Len(a)
    <3>1. j \in DOMAIN a /\ (a \o b)[j] = a[j]
      BY <2>1
    <3> QED BY <3>1
  <2>2. CASE ~(j <= Len(a))
    <3>1. j - Len(a) \in DOMAIN b /\ (a \o b)[j] = b[j - Len(a)]
      BY <2>2
    <3> QED BY <3>1
  <2> QED BY <2>1, <2>2
<1>2. a \o b \in Seq(Events)
  OBVIOUS
<1>3. /\ Calm(a) /\ Calm(b) => Calm(a \o b)
      /\ NoEnd(a) /\ NoEnd(b) => NoEnd(a \o b)
      /\ \A c : Only(a, c) /\ Only(b, c) => Only(a \o b, c)
  BY <1>1, Zenon DEF Calm, NoEnd, Only
<1> QED BY <1>1, <1>2, <1>3

LEMMA Singles ==
    ASSUME NEW e \in Events
    PROVE  /\ <<e>> \in Seq(Events) /\ <<>> \in Seq(Events) /\ DOMAIN <<e>> = {1} /\ <<e>>[1] = e
           /\ Calm(<<>>) /\ NoEnd(<<>>) /\ \A c : Only(<<>>, c)
           /\ ~OfCall(e) => Calm(<<e>>)
           /\ e.type \notin {"end", "error"} => NoEnd(<<e>>)
           /\ \A c : (OfCall(e) => e.call = c) => Only(<<e>>, c)
<1>1. DOMAIN <<e>> = {1} /\ <<e>>[1] = e /\ <<e>> \in Seq(Events)
  OBVIOUS
<1>2. DOMAIN <<>> = {} /\ <<>> \in Seq(Events)
  OBVIOUS
<1> DEFINE one == <<e>>
           none == <<>>
<1>3. DOMAIN one = {1} /\ one[1] = e /\ DOMAIN none = {}
  BY <1>1, <1>2
<1> HIDE DEF one, none
<1>4. /\ Calm(none) /\ NoEnd(none) /\ \A c : Only(none, c)
      /\ ~OfCall(e) => Calm(one)
      /\ e.type \notin {"end", "error"} => NoEnd(one)
      /\ \A c : (OfCall(e) => e.call = c) => Only(one, c)
  BY <1>3 DEF Calm, NoEnd, Only
<1> QED BY <1>1, <1>2, <1>4 DEF one, none

LEMMA CalmRuns ==
    ASSUME NEW q \in Seq(Events), NEW c, NEW s \in Places, NEW m \in Nat, Calm(q) \/ (\E d : d # c /\ Only(q, d))
    PROVE  Run(q, c, s, m, s, m)
BY RunCalm DEF Calm, Only, About

(* Events of one call that bring it from s and m to t and n. *)
Chunk(q, c, s, m, t, n) ==
    /\ q \in Seq(Events) /\ Only(q, c) /\ NoEnd(q) /\ Run(q, c, s, m, t, n)
    /\ t = "none" => Calm(q)
    /\ \A j \in DOMAIN q : q[j].type = "call end" => t = "ended"

LEMMA ChunkConcat ==
    ASSUME NEW a, NEW b, NEW c, NEW s, NEW m, NEW t, NEW n, NEW u, NEW k,
           Chunk(a, c, s, m, t, n), Chunk(b, c, t, n, u, k), t = "ended" => u = "ended", u = "none" => t = "none"
    PROVE  Chunk(a \o b, c, s, m, u, k)
<1> DEFINE q == a \o b
<1>1. a \in Seq(Events) /\ b \in Seq(Events)
  BY DEF Chunk
<1>2. q \in Seq(Events) /\ (Only(a, c) /\ Only(b, c) => Only(q, c)) /\ (NoEnd(a) /\ NoEnd(b) => NoEnd(q))
      /\ (Calm(a) /\ Calm(b) => Calm(q))
      /\ \A j \in DOMAIN q : (\E l \in DOMAIN a : q[j] = a[l]) \/ (\E l \in DOMAIN b : q[j] = b[l])
  BY <1>1, Concats
<1>3. Run(q, c, s, m, u, k)
  BY <1>1, RunConcat DEF Chunk
<1> HIDE DEF q
<1>4. \A j \in DOMAIN q : q[j].type = "call end" => u = "ended"
  BY <1>2 DEF Chunk
<1>5. Chunk(q, c, s, m, u, k)
  BY <1>2, <1>3, <1>4 DEF Chunk
<1> QED BY <1>5 DEF q

LEMMA ChunkCalm ==
    ASSUME NEW q \in Seq(Events), Calm(q), NoEnd(q), NEW c, NEW s \in Places, NEW m \in Nat
    PROVE  Chunk(q, c, s, m, s, m)
BY CalmRuns DEF Chunk, Calm, Only, OfCall

LEMMA ChunkOne ==
    ASSUME NEW e \in Events, e.type \notin {"end", "error"}, NEW c, OfCall(e) => e.call = c,
           NEW s \in Places, NEW m \in Nat, NEW t \in Places, NEW n \in Nat,
           Step(e, c, s, m, t, n), t = "none" => ~OfCall(e), e.type = "call end" => t = "ended"
    PROVE  Chunk(<<e>>, c, s, m, t, n)
<1> DEFINE q == <<e>>
<1>1. q \in Seq(Events) /\ Only(q, c) /\ NoEnd(q) /\ (~OfCall(e) => Calm(q))
  BY Singles
<1>2. DOMAIN q = {1} /\ q[1] = e
  BY Singles
<1>3. Run(q, c, s, m, t, n)
  BY RunOne
<1> HIDE DEF q
<1>4. Chunk(q, c, s, m, t, n)
  BY <1>1, <1>2, <1>3 DEF Chunk
<1> QED BY <1>4 DEF q

LEMMA ChunkStart ==
    ASSUME NEW c \in Calls, NEW m \in Nat
    PROVE  Chunk(<<CallStart(c)>>, c, "none", m, "open", m)
<1> DEFINE e == CallStart(c)
<1>1. e \in Events /\ e.type = "call" /\ e.call = c
  BY EventKinds DEF CallStart
<1> HIDE DEF e
<1>2. Step(e, c, "none", m, "open", m) /\ OfCall(e) /\ {"none", "open"} \subseteq Places
  BY <1>1 DEF Step, OfCall, Places
<1>3. Chunk(<<e>>, c, "none", m, "open", m)
  BY <1>1, <1>2, ChunkOne
<1> QED BY <1>3 DEF e

LEMMA ChunkEnd ==
    ASSUME NEW c \in Calls, NEW m \in Nat
    PROVE  Chunk(<<CallEnd(c)>>, c, "open", m, "ended", m)
<1> DEFINE e == CallEnd(c)
<1>1. e \in Events /\ e.type = "call end" /\ e.call = c
  BY EventKinds DEF CallEnd
<1> HIDE DEF e
<1>2. Step(e, c, "open", m, "ended", m) /\ OfCall(e) /\ {"ended", "open"} \subseteq Places
  BY <1>1 DEF Step, OfCall, Places
<1>3. Chunk(<<e>>, c, "open", m, "ended", m)
  BY <1>1, <1>2, ChunkOne
<1> QED BY <1>3 DEF e

LEMMA ChunkArgs ==
    ASSUME NEW c \in Calls, NEW m \in Nat, NEW n \in Nat, NEW ps \in Pieces, Len(ps) = n,
           ps = [k \in 1..n |-> m + k]
    PROVE  Chunk(<<Args(c, ps)>>, c, "open", m, "open", m + n)
<1> DEFINE e == Args(c, ps)
<1>1. e \in Events /\ e.type = "args" /\ e.call = c /\ e.pieces = ps
  BY EventKinds DEF Args
<1> HIDE DEF e
<1>2. Step(e, c, "open", m, "open", m + n) /\ OfCall(e) /\ "open" \in Places
  BY <1>1 DEF Step, OfCall, Places
<1>3. m + n \in Nat
  OBVIOUS
<1>4. Chunk(<<e>>, c, "open", m, "open", m + n)
  BY <1>1, <1>2, <1>3, ChunkOne
<1> QED BY <1>4 DEF e

LEMMA ChunkPiece ==
    ASSUME NEW c \in Calls, NEW m \in Nat
    PROVE  Chunk(<<Args(c, <<m + 1>>)>>, c, "open", m, "open", m + 1)
<1> DEFINE ps == <<m + 1>>
<1>1. ps \in Pieces /\ Len(ps) = 1 /\ ps = [k \in 1..1 |-> m + k]
  BY DEF Pieces
<1> HIDE DEF ps
<1>2. Chunk(<<Args(c, ps)>>, c, "open", m, "open", m + 1)
  BY <1>1, ChunkArgs
<1> QED BY <1>2 DEF ps

LEMMA ChunkPieces ==
    ASSUME NEW c \in Calls, NEW n \in Nat
    PROVE  Chunk([k \in 1..n |-> Args(c, <<k>>)], c, "open", 0, "open", n)
<1> DEFINE q == [k \in 1..n |-> Args(c, <<k>>)]
<1>1. q = [k \in 1..n |-> Args(c, <<k>>)]
  OBVIOUS
<1> HIDE DEF q
<1>2. Chunk(q, c, "open", 0, "open", n)
  BY <1>1, RunPieces DEF Chunk
<1> QED BY <1>2 DEF q

LEMMA OpeningCalm == Opening \in Seq(Events) /\ Calm(Opening) /\ NoEnd(Opening)
<1>1. Start \in Events /\ ~OfCall(Start) /\ Start.type = "start"
  BY EventKinds DEF Start, OfCall
<1> QED BY <1>1, Singles DEF Opening

(* A frame without a call. *)
LEMMA QuietFrame ==
    ASSUME ReadInv, Frame, reader' = reader, queue' \in Seq(Events), Calm(queue'), NoEnd(queue'),
           UNCHANGED <<from, json, call, order>>, started' \in BOOLEAN, stop' \in AllReasons \union {None},
           blocks' \in BOOLEAN, texts' \in 0..MaxTexts, said' = said \/ said' = said \union {"stop"},
           stop' # None => "stop" \in said'
    PROVE  ReadInv' /\ \A c \in Calls : Gives(queue', c, call[c], call'[c])
<1>1. ParserTypes'
  BY DEF ReadInv, ParserTypes, Readers
<1>2. Ends(queue', reader') /\ OfCalls(queue', call') /\ (\A j \in DOMAIN queue' : queue'[j].type # "end")
  BY DEF Ends, OfCalls, Calm, NoEnd, Frame, OfCall
<1>3. \A c \in Calls : Gives(queue', c, call[c], call'[c])
  <2> SUFFICES ASSUME NEW c \in Calls PROVE Gives(queue', c, call[c], call'[c])
    OBVIOUS
  <2>1. PlaceOf(call[c]) \in Places /\ GaveOf(call[c]) \in Nat
    BY CallTyped DEF ReadInv, ParserTypes
  <2> QED BY <2>1, CalmRuns DEF Gives
<1>4. OpenCalls' = OpenCalls
  BY DEF OpenCalls, Open
<1>5. "error" \notin said' /\ reader' = "reading"
  BY DEF ReadInv, Frame
<1> QED BY <1>1, <1>2, <1>3, <1>4, <1>5 DEF ReadInv

(* The end of the message. *)
LEMMA EndFrame ==
    ASSUME ReadInv, reader \in {"reading", "flushing"}, queue = <<>>, reader' \in {"ended", "returned"},
           UNCHANGED <<from, json, call, order, stop, blocks, texts>>, started' \in BOOLEAN,
           NEW a \in Seq(Events), Calm(a), NoEnd(a), NEW e \in Events, queue' = a \o <<e>>,
           e.type \in {"end", "error"}, e.type = "end" => Incomplete(e.reason) \/ Told', said \subseteq said'
    PROVE  ReadInv' /\ \A c \in Calls : Gives(queue', c, call[c], call'[c])
<1> DEFINE b == <<e>>
<1>1. b \in Seq(Events) /\ Calm(b) /\ Len(b) = 1 /\ b[1] = e
  BY Singles DEF OfCall
<1>2. queue' = a \o b
  OBVIOUS
<1> HIDE DEF b
<1>3. queue' \in Seq(Events) /\ Calm(queue')
  BY <1>1, <1>2, Concats
<1>4. /\ Len(queue') = Len(a) + 1 /\ Len(a) \in Nat /\ queue'[Len(queue')] = e
      /\ \A j \in 1..Len(a) : queue'[j] = a[j]
      /\ DOMAIN a = 1..Len(a) /\ DOMAIN queue' = 1..(Len(a) + 1)
  BY <1>1, <1>2
<1>5. \A j \in DOMAIN queue' : j # Len(queue') => queue'[j].type \notin {"end", "error"}
  BY <1>4 DEF NoEnd
<1>6. ParserTypes'
  BY <1>3 DEF ReadInv, ParserTypes, Readers
<1>7. Ends(queue', reader') /\ OfCalls(queue', call')
  BY <1>3, <1>4, <1>5 DEF Ends, OfCalls, Calm, OfCall
<1>8. \A c \in Calls : Gives(queue', c, call[c], call'[c])
  <2> SUFFICES ASSUME NEW c \in Calls PROVE Gives(queue', c, call[c], call'[c])
    OBVIOUS
  <2>1. PlaceOf(call[c]) \in Places /\ GaveOf(call[c]) \in Nat
    BY CallTyped DEF ReadInv, ParserTypes
  <2> QED BY <1>3, <2>1, CalmRuns DEF Gives
<1>9. OpenCalls' = OpenCalls
  BY DEF OpenCalls, Open
<1>10. \A j \in DOMAIN queue' : queue'[j].type = "end" => Incomplete(queue'[j].reason) \/ Told'
  BY <1>4, <1>5
<1> QED BY <1>6, <1>7, <1>8, <1>9, <1>10 DEF ReadInv, EndOf

(* Nothing is given: the flushing begins, or the parser throws. *)
LEMMA LastFrame ==
    ASSUME ReadInv, reader \in {"reading", "flushing", "ended"}, queue = <<>>, queue' = <<>>, UNCHANGED <<from, json, call, order, stop, blocks, texts>>,
           started' \in BOOLEAN, said \subseteq said',
           \/ reader' \in {"thrown", "returned"}
           \/ reader = "reading" /\ reader' = "flushing" /\ from = "chat" /\ ~json /\ EndSaid' /\ "error" \notin said'
    PROVE  ReadInv' /\ \A c \in Calls : Gives(queue', c, call[c], call'[c])
<1>1. queue' \in Seq(Events) /\ Calm(queue') /\ DOMAIN queue' = {}
  BY DEF Calm
<1>2. ParserTypes'
  BY <1>1 DEF ReadInv, ParserTypes, Readers
<1>3. Ends(queue', reader') /\ OfCalls(queue', call')
  BY <1>1 DEF Ends, OfCalls
<1>4. \A c \in Calls : Gives(queue', c, call[c], call'[c])
  <2> SUFFICES ASSUME NEW c \in Calls PROVE Gives(queue', c, call[c], call'[c])
    OBVIOUS
  <2>1. PlaceOf(call[c]) \in Places /\ GaveOf(call[c]) \in Nat
    BY CallTyped DEF ReadInv, ParserTypes
  <2> QED BY <1>1, <2>1, CalmRuns DEF Gives
<1>5. OpenCalls' = OpenCalls
  BY DEF OpenCalls, Open
<1> QED BY <1>1, <1>2, <1>3, <1>4, <1>5 DEF ReadInv

LEMMA Appended ==
    ASSUME NEW S, NEW s \in Seq(S), NEW x \in S
    PROVE  /\ Append(s, x) \in Seq(S) /\ Len(Append(s, x)) = Len(s) + 1
           /\ DOMAIN s = 1..Len(s) /\ DOMAIN Append(s, x) = 1..(Len(s) + 1) /\ Len(s) \in Nat
           /\ \A j \in DOMAIN s : j \in DOMAIN Append(s, x) /\ Append(s, x)[j] = s[j]
           /\ Len(s) + 1 \in DOMAIN Append(s, x) /\ Append(s, x)[Len(s) + 1] = x
OBVIOUS

(* A frame of a call. *)
LEMMA CallFrame ==
    ASSUME ReadInv, Frame, UNCHANGED <<reader, from, json, stop, blocks, said>>, started' \in BOOLEAN,
           texts' \in 0..MaxTexts, NEW c \in Calls, NEW r \in CallType, call' = [call EXCEPT ![c] = r],
           CallOK(r), order' = (IF call[c].state = "none" THEN Append(order, c) ELSE order),
           r.state \in {"waiting", "open"} => ~json /\ from # "gemini",
           from = "chat" /\ ~json => r.state \in {"waiting", "open"},
           r.native => from = "responses",
           Chunk(queue', c, PlaceOf(call[c]), GaveOf(call[c]), PlaceOf(r), GaveOf(r)),
           call[c].state # "ended", PlaceOf(call[c]) # "none" => r.tool = call[c].tool /\ PlaceOf(r) # "none"
    PROVE  ReadInv' /\ \A d \in Calls : Gives(queue', d, call[d], call'[d])
<1>1. /\ call \in [Calls -> CallType] /\ order \in Seq(Calls) /\ reader = "reading"
      /\ \A d \in Calls : CallOK(call[d])
  BY DEF ReadInv, ParserTypes, Frame
<1>2. /\ call' \in [Calls -> CallType] /\ call'[c] = r /\ \A d \in Calls \ {c} : call'[d] = call[d]
  BY <1>1
<1>3. order' \in Seq(Calls) /\ \A j \in DOMAIN order : j \in DOMAIN order' /\ order'[j] = order[j]
  <2>3. order \in Seq(Calls) /\ c \in Calls
    BY <1>1
  <2>4. Append(order, c) \in Seq(Calls)
        /\ \A j \in DOMAIN order : j \in DOMAIN Append(order, c) /\ Append(order, c)[j] = order[j]
    BY ONLY <2>3, Appended
  <2> DEFINE o == Append(order, c)
  <2>1. o \in Seq(Calls) /\ \A j \in DOMAIN order : j \in DOMAIN o /\ o[j] = order[j]
    BY <2>4
  <2>2. order' = o \/ order' = order
    OBVIOUS
  <2> HIDE DEF o
  <2> QED BY <1>1, <2>1, <2>2
<1>4. ParserTypes'
  BY <1>2, <1>3 DEF ReadInv, ParserTypes, Chunk
<1>5. Ends(queue', reader') /\ (\A j \in DOMAIN queue' : queue'[j].type # "end")
  BY <1>1 DEF Ends, NoEnd, Chunk
<1>6. OfCalls(queue', call')
  BY <1>2 DEF OfCalls, Only, OfCall, Chunk, Calm, PlaceOf
<1>7. \A d \in Calls : Gives(queue', d, call[d], call'[d])
  <2>1. Gives(queue', c, call[c], call'[c])
    BY <1>2 DEF Gives, Chunk
  <2>2. ASSUME NEW d \in Calls \ {c} PROVE Gives(queue', d, call[d], call'[d])
    <3>1. PlaceOf(call[d]) \in Places /\ GaveOf(call[d]) \in Nat
      BY <1>1, CallTyped
    <3>4. queue' \in Seq(Events) /\ Only(queue', c)
      BY DEF Chunk
    <3>2. call'[d] = call[d] /\ d # c
      BY <1>2
    <3>3. Run(queue', d, PlaceOf(call[d]), GaveOf(call[d]), PlaceOf(call[d]), GaveOf(call[d]))
      BY <3>1, <3>2, <3>4, CalmRuns
    <3> QED BY <3>2, <3>3 DEF Gives
  <2> QED BY <2>1, <2>2
<1>8. from' = "chat" /\ ~json' => Listed(call', order')
  <2> SUFFICES ASSUME from = "chat", ~json PROVE Listed(call', order')
    OBVIOUS
  <2>1. Listed(call, order) /\ r.state \in {"waiting", "open"}
    BY <1>1 DEF ReadInv
  <2>2. ASSUME NEW d \in Calls PROVE call[d].state \in {"none", "waiting", "open"}
    BY <1>1, <2>2 DEF CallType, ReadInv
  <2>3. CASE call[c].state = "none"
    <3>1. order \in Seq(Calls) /\ c \in Calls
      BY <1>1
    <3> DEFINE o == Append(order, c)
               n == Len(order) + 1
    <3>2. /\ Append(order, c) \in Seq(Calls) /\ DOMAIN order = 1..Len(order)
          /\ DOMAIN Append(order, c) = 1..(Len(order) + 1) /\ Len(order) \in Nat
          /\ \A j \in DOMAIN order : j \in DOMAIN Append(order, c) /\ Append(order, c)[j] = order[j]
          /\ Len(order) + 1 \in DOMAIN Append(order, c) /\ Append(order, c)[Len(order) + 1] = c
      BY ONLY <3>1, Appended
    <3>3. /\ o \in Seq(Calls) /\ DOMAIN order \subseteq DOMAIN o /\ DOMAIN o = DOMAIN order \union {n} /\ o[n] = c
          /\ \A j \in DOMAIN order : o[j] = order[j] /\ order[j] \in Calls
      BY <3>1, <3>2
    <3>4. order' = o
      BY <2>3
    <3> HIDE DEF o, n
    <3>5. \A j \in DOMAIN order : order[j] # c
      BY <2>1, <2>3 DEF Listed
    <3>6. \A d \in Calls : call'[d].state \in {"waiting", "open"} => \E j \in DOMAIN o : o[j] = d
      BY <1>2, <2>1, <3>3 DEF Listed
    <3>7. \A j \in DOMAIN o : call'[o[j]].state \in {"waiting", "open"}
      BY <1>2, <2>1, <3>3, <3>5 DEF Listed
    <3>8. \A j, k \in DOMAIN o : o[j] = o[k] => j = k
      BY <2>1, <3>3, <3>5 DEF Listed
    <3> QED BY <3>4, <3>6, <3>7, <3>8 DEF Listed
  <2>4. CASE call[c].state # "none"
    <3>1. order' = order /\ \A j \in DOMAIN order : order[j] \in Calls
      BY <1>1, <2>4
    <3>2. call[c].state \in {"waiting", "open"}
      BY <2>2, <2>4
    <3> QED BY <1>2, <2>1, <3>1, <3>2 DEF Listed
  <2> QED BY <2>3, <2>4
<1>9. json' \/ from' = "gemini" => OpenCalls' = {}
  <2> SUFFICES ASSUME json \/ from = "gemini", NEW d \in Calls, call'[d].state \in {"waiting", "open"} PROVE FALSE
    BY DEF OpenCalls, Open
  <2>1. d # c
    BY <1>2
  <2> QED BY <1>2, <2>1 DEF ReadInv, OpenCalls, Open
<1>10. from' = "chat" /\ ~json' => \A d \in Calls : call'[d].state # "ended"
  BY <1>1, <1>2 DEF ReadInv
<1>11. \A d \in Calls : CallOK(call'[d]) /\ (call'[d].native => from' = "responses")
  BY <1>1, <1>2 DEF ReadInv
<1> QED BY <1>1, <1>4, <1>5, <1>6, <1>7, <1>8, <1>9, <1>10, <1>11 DEF ReadInv

-----------------------------------------------------------------------------
(* What every frame read adds to the queue, frame by frame.                *)

Gave == ReadInv' /\ \A c \in Calls : Gives(queue', c, call[c], call'[c])

LEMMA ContentRead ==
    ASSUME ReadInv, NEW what \in Contents, ReadContent(what)
    PROVE  Gave
<1> DEFINE e == Content(what)
<1>1. what \in {"text", "thinking", "refusal"}
  BY StreamAssumption
<1>2. e \in Events /\ e.type = "content"
  BY <1>1, EventKinds DEF Content
<1> HIDE DEF e
<1>3. <<e>> \in Seq(Events) /\ Calm(<<e>>) /\ NoEnd(<<e>>)
  BY <1>2, Singles DEF OfCall
<1>4. Opening \o <<e>> \in Seq(Events) /\ Calm(Opening \o <<e>>) /\ NoEnd(Opening \o <<e>>)
  BY <1>3, OpeningCalm, Concats
<1>5. queue' = Opening \o <<e>> /\ reader' = reader
  BY DEF ReadContent, Emit, e
<1>6. queue' \in Seq(Events) /\ Calm(queue') /\ NoEnd(queue')
  BY <1>4, <1>5
<1>7. Frame /\ UNCHANGED <<from, json, call, order, stop, blocks, said>> /\ started' \in BOOLEAN
      /\ texts' \in 0..MaxTexts
  BY StreamAssumption DEF ReadContent, Text, Opened, ReadInv, ParserTypes
<1>8. stop' \in AllReasons \union {None} /\ blocks' \in BOOLEAN /\ (stop' # None => "stop" \in said')
  BY <1>7 DEF ReadInv, ParserTypes
<1> QED BY <1>5, <1>6, <1>7, <1>8, QuietFrame DEF Gave

LEMMA StartRead ==
    ASSUME ReadInv, ReadStart
    PROVE  Gave
<1>1. Start \in Events /\ ~OfCall(Start) /\ Start.type = "start"
  BY EventKinds DEF Start, OfCall
<1>2. queue' \in Seq(Events) /\ Calm(queue') /\ NoEnd(queue')
  <2>1. queue' = <<>> \/ queue' = <<Start>>
    BY DEF ReadStart, Emit
  <2> QED BY <1>1, <2>1, Singles
<1>3. Frame /\ UNCHANGED <<reader, from, json, call, order, stop, blocks, said, texts>> /\ started' \in BOOLEAN
  BY DEF ReadStart, Emit
<1>4. stop' \in AllReasons \union {None} /\ blocks' \in BOOLEAN /\ (stop' # None => "stop" \in said')
      /\ texts' \in 0..MaxTexts
  BY <1>3 DEF ReadInv, ParserTypes
<1> QED BY <1>2, <1>3, <1>4, QuietFrame DEF Gave

LEMMA BlockRead ==
    ASSUME ReadInv, ReadBlock
    PROVE  Gave
<1>1. queue' = <<>> /\ queue' \in Seq(Events) /\ Calm(queue') /\ NoEnd(queue')
  BY DEF ReadBlock, Emit, Calm, NoEnd
<1>2. Frame /\ UNCHANGED <<reader, from, json, call, order, stop, started, said, texts>> /\ blocks' \in BOOLEAN
  BY DEF ReadBlock, Emit, ReadInv, ParserTypes
<1>3. stop' \in AllReasons \union {None} /\ started' \in BOOLEAN /\ (stop' # None => "stop" \in said')
      /\ texts' \in 0..MaxTexts
  BY <1>2 DEF ReadInv, ParserTypes
<1> QED BY <1>1, <1>2, <1>3, QuietFrame DEF Gave

LEMMA StopRead ==
    ASSUME ReadInv, NEW reason \in Reasons, ReadStop(reason)
    PROVE  Gave
<1>1. queue' \in Seq(Events) /\ Calm(queue') /\ NoEnd(queue')
  BY OpeningCalm DEF ReadStop, Emit
<1>2. Frame /\ UNCHANGED <<reader, from, json, call, order, blocks, texts>> /\ started' \in BOOLEAN
      /\ stop' = reason /\ said' = said \union {"stop"}
  BY DEF ReadStop, Emit, Opened, ReadInv, ParserTypes
<1>3. stop' \in AllReasons \union {None} /\ blocks' \in BOOLEAN /\ (stop' # None => "stop" \in said')
      /\ texts' \in 0..MaxTexts
  BY <1>2, StreamAssumption DEF ReadInv, ParserTypes
<1> QED BY <1>1, <1>2, <1>3, QuietFrame DEF Gave

-----------------------------------------------------------------------------
LEMMA Three ==
    ASSUME NEW a \in Events, NEW b \in Events, NEW x \in Events
    PROVE  <<a>> \o (<<b>> \o <<x>>) = <<a, b, x>>
<1> DEFINE p == <<b>> \o <<x>>
           q == <<a>> \o p
           r == <<a, b, x>>
<1>1. p \in Seq(Events) /\ Len(p) = 2 /\ p[1] = b /\ p[2] = x
  OBVIOUS
<1> HIDE DEF p
<1>2. q \in Seq(Events) /\ Len(q) = 3 /\ q[1] = a /\ q[2] = b /\ q[3] = x
  <2> DEFINE o == <<a>>
  <2>1. o \in Seq(Events) /\ Len(o) = 1 /\ o[1] = a
    OBVIOUS
  <2>2. q = o \o p
    OBVIOUS
  <2> HIDE DEF o, q
  <2>4. /\ q \in Seq(Events) /\ Len(q) = Len(o) + Len(p)
        /\ \A i \in 1..(Len(o) + Len(p)) : q[i] = IF i <= Len(o) THEN o[i] ELSE p[i - Len(o)]
    BY <1>1, <2>1, <2>2, ConcatProperties
  <2>3. q \in Seq(Events) /\ Len(q) = 3 /\ \A i \in 1..3 : q[i] = IF i <= 1 THEN o[i] ELSE p[i - 1]
    BY <1>1, <2>1, <2>4
  <2> QED BY <1>1, <2>1, <2>3
<1>3. r \in Seq(Events) /\ Len(r) = 3 /\ r[1] = a /\ r[2] = b /\ r[3] = x
  OBVIOUS
<1> HIDE DEF q, r
<1>4. q = r
  BY <1>2, <1>3
<1> QED BY <1>4 DEF q, r, p

LEMMA LongerCall ==
    ASSUME NEW o \in CallType, NEW u \in Longer(o)
    PROVE  /\ u \in CallType /\ u.state = o.state /\ u.sent = o.sent + 1 /\ u.native = o.native
           /\ u.tool = o.tool /\ u.held = o.held
<1>1. PICK w \in BOOLEAN : u = [o EXCEPT !.sent = @ + 1, !.whole = w]
  BY DEF Longer
<1>2. /\ DOMAIN o = {"state", "tool", "native", "sent", "held", "whole"}
      /\ o.state \in {"none", "waiting", "open", "ended"} /\ o.tool \in Tools
      /\ o.native \in BOOLEAN /\ o.sent \in Nat /\ o.held \in Nat /\ o.whole \in BOOLEAN
  BY DEF CallType
<1>3. u = [state |-> o.state, tool |-> o.tool, native |-> o.native, sent |-> o.sent + 1, held |-> o.held, whole |-> w]
  BY <1>1, <1>2 DEF CallType
<1> QED BY <1>2, <1>3 DEF CallType

(* What a call is after a frame of it. *)
LEMMA CallStates ==
    ASSUME ReadInv, NEW c \in Calls
    PROVE  /\ call[c] \in CallType /\ CallOK(call[c]) /\ PlaceOf(call[c]) \in Places /\ GaveOf(call[c]) \in Nat
           /\ call[c].native => from = "responses"
           /\ call[c].state = "none" => PlaceOf(call[c]) = "none" /\ GaveOf(call[c]) = 0 /\ ~call[c].native
           /\ call[c].state = "waiting" => PlaceOf(call[c]) = "none" /\ GaveOf(call[c]) = 0 /\ ~call[c].native
           /\ call[c].state = "open" => PlaceOf(call[c]) = "open"
           /\ call[c].state = "open" /\ ~call[c].native => GaveOf(call[c]) = call[c].sent /\ call[c].held = 0
           /\ call[c].state = "open" /\ call[c].native => GaveOf(call[c]) = 0 /\ call[c].held = call[c].sent
<1>1. call[c] \in CallType /\ CallOK(call[c]) /\ (call[c].native => from = "responses")
  BY DEF ReadInv, ParserTypes
<1>2. PlaceOf(call[c]) \in Places /\ GaveOf(call[c]) \in Nat
  BY <1>1, CallTyped
<1> QED BY <1>1, <1>2 DEF CallType, CallOK, PlaceOf, GaveOf, NoCall

LEMMA CallStartRead ==
    ASSUME ReadInv, NEW c \in Calls, NEW tool \in Tools, NEW native \in BOOLEAN, ReadCallStart(c, tool, native)
    PROVE  Gave
<1> DEFINE r == [NoCall EXCEPT !.state = "open", !.tool = tool, !.native = native]
<1>1. r \in CallType /\ r.state = "open" /\ r.sent = 0 /\ r.held = 0 /\ r.native = native /\ r.tool = tool
  BY DEF NoCall, CallType
<1>2. call' = [call EXCEPT ![c] = r]
  BY DEF ReadCallStart
<1> HIDE DEF r
<1>3. CallOK(r) /\ PlaceOf(r) = "open" /\ GaveOf(r) = 0
  BY <1>1 DEF CallOK, PlaceOf, GaveOf
<1>4. PlaceOf(call[c]) = "none" /\ GaveOf(call[c]) = 0 /\ call[c].state = "none"
  BY CallStates DEF ReadCallStart
<1>5. Chunk(<<CallStart(c)>>, c, "none", 0, "open", 0)
  BY ChunkStart
<1>6. Chunk(queue', c, "none", 0, "open", 0)
  <2>1. CASE queue' = <<CallStart(c)>>
    BY <1>5, <2>1
  <2>2. CASE queue' = <<Start, CallStart(c)>>
    <3>1. Start \in Events /\ ~OfCall(Start) /\ Start.type = "start"
      BY EventKinds DEF Start, OfCall
    <3>2. <<Start>> \in Seq(Events) /\ Calm(<<Start>>) /\ NoEnd(<<Start>>)
      BY <3>1, Singles
    <3>3. Chunk(<<Start>>, c, "none", 0, "none", 0)
      BY <3>2, ChunkCalm DEF Places
    <3>4. Chunk(<<Start>> \o <<CallStart(c)>>, c, "none", 0, "open", 0)
      BY <1>5, <3>3, ChunkConcat
    <3>5. queue' = <<Start>> \o <<CallStart(c)>>
      BY <2>2
    <3> QED BY <3>4, <3>5
  <2> QED BY <2>1, <2>2 DEF ReadCallStart, Emit
<1>7. Frame /\ UNCHANGED <<reader, from, json, stop, blocks, said, texts>> /\ started' \in BOOLEAN
      /\ ~json /\ from \in {"anthropic", "responses"} /\ (native => from = "responses")
  BY DEF ReadCallStart, Emit, ReadInv, ParserTypes
<1>8. texts' \in 0..MaxTexts /\ order' = (IF call[c].state = "none" THEN Append(order, c) ELSE order)
  BY <1>4, <1>7 DEF ReadCallStart, ReadInv, ParserTypes
<1> QED BY <1>1, <1>2, <1>3, <1>4, <1>6, <1>7, <1>8, CallFrame DEF Gave

LEMMA PieceRead ==
    ASSUME ReadInv, NEW c \in Calls, ReadPiece(c)
    PROVE  Gave
<1>1. PICK u \in Longer(call[c]) :
        /\ call' = [call EXCEPT ![c] = IF call[c].native THEN [u EXCEPT !.held = u.sent, !.whole = TRUE] ELSE u]
        /\ Emit(IF call[c].native THEN <<>> ELSE <<Args(c, <<u.sent>>)>>)
  BY DEF ReadPiece
<1>2. call[c] \in CallType /\ call[c].state = "open" /\ CallOK(call[c]) /\ (call[c].native => from = "responses")
  BY CallStates DEF ReadPiece
<1>10. u \in CallType /\ u.state = "open" /\ u.sent = call[c].sent + 1 /\ u.native = call[c].native
       /\ u.tool = call[c].tool /\ u.held = call[c].held
  BY <1>2, LongerCall
<1>11. PICK v : v = [u EXCEPT !.held = u.sent, !.whole = TRUE]
  OBVIOUS
<1>12. v \in CallType /\ v.state = u.state /\ v.sent = u.sent /\ v.native = u.native /\ v.tool = u.tool /\ v.held = u.sent
  BY <1>10, <1>11 DEF CallType
<1>13. PICK r : r = IF call[c].native THEN v ELSE u
  OBVIOUS
<1>3. r \in CallType /\ r.state = "open" /\ r.sent = call[c].sent + 1 /\ r.native = call[c].native
      /\ r.tool = call[c].tool /\ r.held = IF call[c].native THEN r.sent ELSE call[c].held
  BY <1>10, <1>12, <1>13
<1>4. call' = [call EXCEPT ![c] = r] /\ reader' = reader
      /\ queue' = IF call[c].native THEN <<>> ELSE <<Args(c, <<call[c].sent + 1>>)>>
  BY <1>1, <1>10, <1>11, <1>13 DEF Emit
<1>5. CallOK(r) /\ PlaceOf(r) = "open" /\ PlaceOf(call[c]) = "open"
  BY <1>2, <1>3 DEF CallOK, PlaceOf
<1>6. Chunk(queue', c, PlaceOf(call[c]), GaveOf(call[c]), PlaceOf(r), GaveOf(r))
  <2>1. CASE call[c].native
    <3>1. queue' = <<>> /\ queue' \in Seq(Events) /\ Calm(queue') /\ NoEnd(queue')
      BY <1>4, <2>1 DEF Calm, NoEnd
    <3>2. GaveOf(call[c]) = 0 /\ GaveOf(r) = 0
      BY <1>2, <1>3, <2>1, CallStates DEF GaveOf, CallType
    <3> QED BY <1>5, <3>1, <3>2, ChunkCalm DEF Places
  <2>2. CASE ~call[c].native
    <3>1. GaveOf(call[c]) = call[c].sent /\ GaveOf(r) = call[c].sent + 1 /\ call[c].sent \in Nat
      BY <1>2, <1>3, <2>2, CallStates DEF GaveOf, CallType
    <3> QED BY <1>4, <1>5, <2>2, <3>1, ChunkPiece
  <2> QED BY <2>1, <2>2
<1>7. Frame /\ UNCHANGED <<reader, from, json, stop, blocks, said, started, order>>
      /\ ~json /\ from \in {"anthropic", "responses"}
  BY <1>4 DEF ReadPiece
<1>8. texts' \in 0..MaxTexts /\ order' = (IF call[c].state = "none" THEN Append(order, c) ELSE order)
      /\ started' \in BOOLEAN
  BY <1>2, <1>7, StreamAssumption DEF ReadPiece, Text, ReadInv, ParserTypes
<1> QED BY <1>2, <1>3, <1>4, <1>5, <1>6, <1>7, <1>8, CallFrame DEF Gave

LEMMA CallEndRead ==
    ASSUME ReadInv, NEW c \in Calls, ReadCallEnd(c)
    PROVE  Gave
<1> DEFINE r == [call[c] EXCEPT !.state = "ended", !.held = 0]
<1>1. call[c] \in CallType /\ call[c].state = "open" /\ CallOK(call[c]) /\ (call[c].native => from = "responses")
      /\ PlaceOf(call[c]) = "open" /\ call \in [Calls -> CallType]
  BY CallStates DEF ReadCallEnd, ReadInv, ParserTypes
<1>2. r \in CallType /\ r.state = "ended" /\ r.sent = call[c].sent /\ r.held = 0 /\ r.native = call[c].native
      /\ r.tool = call[c].tool
  BY <1>1 DEF CallType
<1>3. call' = [call EXCEPT ![c] = r] /\ reader' = reader
  BY <1>1 DEF ReadCallEnd, Emit
<1> HIDE DEF r
<1>4. CallOK(r) /\ PlaceOf(r) = "ended" /\ GaveOf(r) = call[c].sent
  BY <1>1, <1>2 DEF CallOK, PlaceOf, GaveOf, CallType
<1>5. Chunk(queue', c, PlaceOf(call[c]), GaveOf(call[c]), PlaceOf(r), GaveOf(r))
  <2>1. CASE call[c].native
    <3> DEFINE n == call[c].sent
               ps == [k \in 1..n |-> k]
    <3>1. n \in Nat /\ GaveOf(call[c]) = 0 /\ call[c].held = n /\ GaveOf(r) = n
      BY <1>1, <1>4, <2>1, CallStates DEF CallType
    <3>2. queue' = <<Args(c, ps), CallEnd(c)>>
      BY <2>1, <3>1 DEF ReadCallEnd, Emit
    <3> HIDE DEF n
    <3>3. ps \in Pieces /\ Len(ps) = n /\ ps = [k \in 1..n |-> 0 + k]
      BY <3>1 DEF Pieces
    <3> HIDE DEF ps
    <3>4. Chunk(<<Args(c, ps)>>, c, "open", 0, "open", 0 + n)
      BY <3>1, <3>3, ChunkArgs
    <3>5. Chunk(<<CallEnd(c)>>, c, "open", n, "ended", n) /\ 0 + n = n
      BY <3>1, ChunkEnd
    <3>6. Chunk(<<Args(c, ps)>> \o <<CallEnd(c)>>, c, "open", 0, "ended", n)
      BY <3>4, <3>5, ChunkConcat
    <3>7. queue' = <<Args(c, ps)>> \o <<CallEnd(c)>>
      BY <3>2
    <3> QED BY <1>1, <1>4, <3>1, <3>6, <3>7
  <2>2. CASE ~call[c].native
    <3>1. GaveOf(call[c]) = call[c].sent /\ call[c].sent \in Nat
      BY <1>1, <2>2, CallStates DEF CallType
    <3>2. queue' = <<CallEnd(c)>>
      BY <2>2 DEF ReadCallEnd, Emit
    <3> QED BY <1>1, <1>4, <3>1, <3>2, ChunkEnd
  <2> QED BY <2>1, <2>2
<1>6. Frame /\ UNCHANGED <<reader, from, json, stop, blocks, said, started, order, texts>>
      /\ ~json /\ from \in {"anthropic", "responses"}
  BY <1>3 DEF ReadCallEnd
<1>7. texts' \in 0..MaxTexts /\ order' = (IF call[c].state = "none" THEN Append(order, c) ELSE order)
      /\ started' \in BOOLEAN
  BY <1>1, <1>6 DEF ReadInv, ParserTypes
<1> QED BY <1>1, <1>2, <1>3, <1>4, <1>5, <1>6, <1>7, CallFrame DEF Gave

LEMMA WholeCallRead ==
    ASSUME ReadInv, NEW c \in Calls, NEW tool \in Tools, NEW whole \in BOOLEAN, ReadWholeCall(c, tool, whole)
    PROVE  Gave
<1> DEFINE r == [NoCall EXCEPT !.state = "ended", !.tool = tool, !.sent = 1, !.whole = whole]
<1>1. r \in CallType /\ r.state = "ended" /\ r.sent = 1 /\ r.held = 0 /\ r.native = FALSE /\ r.tool = tool
  BY DEF NoCall, CallType
<1>2. call' = [call EXCEPT ![c] = r]
  BY DEF ReadWholeCall
<1> HIDE DEF r
<1>3. CallOK(r) /\ PlaceOf(r) = "ended" /\ GaveOf(r) = 1
  BY <1>1 DEF CallOK, PlaceOf, GaveOf
<1>4. PlaceOf(call[c]) = "none" /\ GaveOf(call[c]) = 0 /\ call[c].state = "none"
  BY CallStates DEF ReadWholeCall
<1>5. Chunk(queue', c, "none", 0, "ended", 1)
  <2>1. Chunk(Opening, c, "none", 0, "none", 0)
    BY OpeningCalm, ChunkCalm DEF Places
  <2>2. Chunk(<<CallStart(c)>>, c, "none", 0, "open", 0)
    BY ChunkStart
  <2>3. Chunk(<<Args(c, <<0 + 1>>)>>, c, "open", 0, "open", 0 + 1)
    BY ChunkPiece
  <2>4. Chunk(<<Args(c, <<1>>)>>, c, "open", 0, "open", 1)
    BY <2>3
  <2>5. Chunk(<<CallEnd(c)>>, c, "open", 1, "ended", 1)
    BY ChunkEnd
  <2>6. Chunk(<<Args(c, <<1>>)>> \o <<CallEnd(c)>>, c, "open", 0, "ended", 1)
    BY <2>4, <2>5, ChunkConcat
  <2>7. Chunk(<<CallStart(c)>> \o (<<Args(c, <<1>>)>> \o <<CallEnd(c)>>), c, "none", 0, "ended", 1)
    BY <2>2, <2>6, ChunkConcat
  <2>8. Chunk(Opening \o (<<CallStart(c)>> \o (<<Args(c, <<1>>)>> \o <<CallEnd(c)>>)), c, "none", 0, "ended", 1)
    BY <2>1, <2>7, ChunkConcat
  <2>9. <<CallStart(c)>> \o (<<Args(c, <<1>>)>> \o <<CallEnd(c)>>) = <<CallStart(c), Args(c, <<1>>), CallEnd(c)>>
    <3>1. <<1>> \in Pieces
      BY DEF Pieces
    <3> QED BY <3>1, Three, EventKinds
  <2> QED BY <2>8, <2>9 DEF ReadWholeCall, Emit
<1>6. Frame /\ UNCHANGED <<reader, from, json, stop, blocks, said>> /\ started' \in BOOLEAN
      /\ (json \/ from = "gemini")
  BY DEF ReadWholeCall, Emit, Opened, ReadInv, ParserTypes
<1>7. texts' \in 0..MaxTexts /\ order' = (IF call[c].state = "none" THEN Append(order, c) ELSE order)
  BY <1>4, StreamAssumption DEF ReadWholeCall, Text, ReadInv, ParserTypes
<1> QED BY <1>1, <1>2, <1>3, <1>4, <1>5, <1>6, <1>7, CallFrame DEF Gave

LEMMA HeldCall ==
    ASSUME NEW o \in CallType, NEW n \in Nat, NEW u, u = [o EXCEPT !.held = n]
    PROVE  /\ u \in CallType /\ u.state = o.state /\ u.sent = o.sent /\ u.native = o.native
           /\ u.tool = o.tool /\ u.held = n
BY DEF CallType

LEMMA ChunkNone ==
    ASSUME NEW c, NEW s \in Places, NEW m \in Nat
    PROVE  Chunk(<<>>, c, s, m, s, m)
<1> DEFINE q == <<>>
<1>1. q \in Seq(Events) /\ DOMAIN q = {}
  OBVIOUS
<1> HIDE DEF q
<1>2. Calm(q) /\ NoEnd(q)
  BY <1>1 DEF Calm, NoEnd
<1>3. Chunk(q, c, s, m, s, m)
  BY <1>1, <1>2, ChunkCalm
<1> QED BY <1>3 DEF q

(* The events of a frame of a Chat call. *)
LEMMA ChatChunk ==
    ASSUME ReadInv, NEW c \in Calls, ~call[c].native, call[c].state # "ended", NEW u \in CallType,
           u.state \in {"waiting", "open"}, call[c].state = "open" => u.state = "open",
           u.sent = call[c].sent \/ u.sent = call[c].sent + 1
    PROVE  Chunk(ChatEvents(c, u), c, PlaceOf(call[c]), GaveOf(call[c]),
                 IF u.state = "open" THEN "open" ELSE "none", IF u.state = "open" THEN u.sent ELSE 0)
<1> DEFINE n  == call[c].sent
           s  == PlaceOf(call[c])
           m  == GaveOf(call[c])
           q1 == IF call[c].state = "open" THEN <<>>
                 ELSE <<CallStart(c)>> \o [k \in 1..call[c].held |-> Args(c, <<k>>)]
           q2 == IF u.sent > call[c].sent THEN <<Args(c, <<u.sent>>)>> ELSE <<>>
<1>1. call[c] \in CallType /\ n \in Nat /\ call[c].state \in {"none", "waiting", "open"}
      /\ s \in Places /\ m \in Nat /\ CallOK(call[c]) /\ call[c].held \in Nat
  BY CallStates DEF CallType
<1>2. CASE u.state = "waiting"
  <2>1. s = "none" /\ m = 0
    BY <1>1, <1>2, CallStates
  <2>2. ChatEvents(c, u) = <<>>
    BY <1>2 DEF ChatEvents
  <2>3. Chunk(<<>>, c, "none", 0, "none", 0)
    BY ChunkNone DEF Places
  <2> QED BY <1>2, <2>1, <2>2, <2>3
<1>3. CASE u.state = "open"
  <2>1. ChatEvents(c, u) = q1 \o q2
    BY <1>3 DEF ChatEvents
  <2>2. Chunk(q1, c, s, m, "open", n)
    <3>1. CASE call[c].state = "open"
      <4>1. s = "open" /\ m = n /\ q1 = <<>>
        BY <3>1, CallStates
      <4>2. Chunk(<<>>, c, "open", n, "open", n)
        BY <1>1, ChunkNone DEF Places
      <4> QED BY <4>1, <4>2
    <3>2. CASE call[c].state # "open"
      <4>1. s = "none" /\ m = 0 /\ call[c].held = n
        BY <1>1, <3>2, CallStates DEF CallOK, NoCall
      <4>2. Chunk(<<CallStart(c)>>, c, "none", 0, "open", 0)
        BY ChunkStart
      <4>3. Chunk([k \in 1..call[c].held |-> Args(c, <<k>>)], c, "open", 0, "open", n)
        BY <1>1, <4>1, ChunkPieces
      <4>4. Chunk(<<CallStart(c)>> \o [k \in 1..call[c].held |-> Args(c, <<k>>)], c, "none", 0, "open", n)
        BY <4>2, <4>3, ChunkConcat
      <4> QED BY <3>2, <4>1, <4>4
    <3> QED BY <3>1, <3>2
  <2>3. Chunk(q2, c, "open", n, "open", u.sent)
    <3>1. CASE u.sent = n + 1
      <4>1. q2 = <<Args(c, <<n + 1>>)>>
        BY <1>1, <3>1
      <4> QED BY <1>1, <3>1, <4>1, ChunkPiece
    <3>2. CASE u.sent = n
      <4>1. q2 = <<>>
        BY <1>1, <3>2
      <4>2. Chunk(<<>>, c, "open", n, "open", n)
        BY <1>1, ChunkNone DEF Places
      <4> QED BY <3>2, <4>1, <4>2
    <3> QED BY <3>1, <3>2
  <2> HIDE DEF q1, q2, s, m, n
  <2>4. Chunk(q1 \o q2, c, s, m, "open", u.sent)
    BY <2>2, <2>3, ChunkConcat
  <2> QED BY <1>3, <2>1, <2>4 DEF s, m
<1> QED BY <1>2, <1>3

LEMMA ChatCallRead ==
    ASSUME ReadInv, NEW c \in Calls, NEW tool \in MaybeTool, NEW piece \in BOOLEAN, ReadChatCall(c, tool, piece)
    PROVE  Gave
<1>1. PICK st : st = IF tool # None \/ call[c].state = "open" THEN "open" ELSE "waiting"
  OBVIOUS
<1>2. PICK name : name = IF tool # None THEN tool ELSE call[c].tool
  OBVIOUS
<1>3. PICK o : o = [call[c] EXCEPT !.state = st, !.tool = name]
  OBVIOUS
<1>4. PICK u \in IF piece THEN Longer(o) ELSE {o} :
        /\ Emit(Opening \o ChatEvents(c, u)) /\ Opened
        /\ call' = [call EXCEPT ![c] = IF st = "open" THEN [u EXCEPT !.held = 0] ELSE [u EXCEPT !.held = u.sent]]
  BY <1>1, <1>2, <1>3 DEF ReadChatCall
<1>5. PICK r : r = IF st = "open" THEN [u EXCEPT !.held = 0] ELSE [u EXCEPT !.held = u.sent]
  OBVIOUS
<1>6. Frame /\ from = "chat" /\ ~json /\ (tool # None => call[c].state # "open")
      /\ call[c] \in CallType /\ CallOK(call[c]) /\ call[c].state # "ended" /\ ~call[c].native
      /\ PlaceOf(call[c]) \in Places /\ GaveOf(call[c]) \in Nat
  BY CallStates DEF ReadChatCall, ReadInv, Frame
<1>7. st \in {"waiting", "open"} /\ name \in Tools /\ (call[c].state = "open" => st = "open" /\ name = call[c].tool)
  BY <1>1, <1>2, <1>6 DEF MaybeTool, CallType
<1>8. o \in CallType /\ o.state = st /\ o.sent = call[c].sent /\ o.native = call[c].native /\ o.tool = name
  <2>1. o = [call[c] EXCEPT !.state = st, !.tool = name] /\ call[c] \in CallType
    BY <1>3, <1>6
  <2> QED BY <1>7, <2>1 DEF CallType
<1>9. u \in CallType /\ u.state = st /\ u.native = FALSE /\ u.tool = name
      /\ (u.sent = call[c].sent \/ u.sent = call[c].sent + 1)
  <2>1. CASE piece
    <3>1. u \in Longer(o)
      BY <1>4, <2>1
    <3> QED BY <1>6, <1>8, <3>1, LongerCall
  <2>2. CASE ~piece
    BY <1>4, <1>6, <1>8, <2>2
  <2> QED BY <2>1, <2>2
<1>10. r \in CallType /\ r.state = st /\ r.native = FALSE /\ r.tool = name /\ r.sent = u.sent
       /\ r.held = IF st = "open" THEN 0 ELSE u.sent
  <2>1. u.sent \in Nat /\ 0 \in Nat
    BY <1>9 DEF CallType
  <2>2. CASE st = "open"
    <3>1. r = [u EXCEPT !.held = 0]
      BY <1>5, <2>2
    <3> QED BY <1>9, <2>1, <2>2, <3>1, HeldCall
  <2>3. CASE st # "open"
    <3>1. r = [u EXCEPT !.held = u.sent]
      BY <1>5, <2>3
    <3> QED BY <1>9, <2>1, <2>3, <3>1, HeldCall
  <2> QED BY <2>2, <2>3
<1>11. CallOK(r) /\ PlaceOf(r) = (IF st = "open" THEN "open" ELSE "none")
       /\ GaveOf(r) = (IF st = "open" THEN u.sent ELSE 0)
  BY <1>7, <1>10 DEF CallOK, PlaceOf, GaveOf, CallType
<1>12. Chunk(Opening, c, PlaceOf(call[c]), GaveOf(call[c]), PlaceOf(call[c]), GaveOf(call[c]))
  BY <1>6, OpeningCalm, ChunkCalm
<1>13. Chunk(ChatEvents(c, u), c, PlaceOf(call[c]), GaveOf(call[c]), PlaceOf(r), GaveOf(r))
  BY <1>6, <1>7, <1>9, <1>11, ChatChunk
<1>14. PlaceOf(call[c]) # "ended" /\ (PlaceOf(call[c]) # "none" => call[c].state = "open")
  BY <1>6 DEF PlaceOf, CallType
<1>15. Chunk(Opening \o ChatEvents(c, u), c, PlaceOf(call[c]), GaveOf(call[c]), PlaceOf(r), GaveOf(r))
  BY <1>7, <1>11, <1>12, <1>13, <1>14, ChunkConcat
<1>16. queue' = Opening \o ChatEvents(c, u) /\ call' = [call EXCEPT ![c] = r] /\ reader' = reader
       /\ UNCHANGED <<from, json, stop, blocks, said>> /\ started' \in BOOLEAN
       /\ order' = (IF call[c].state = "none" THEN Append(order, c) ELSE order)
  BY <1>4, <1>5 DEF Emit, Opened, ReadChatCall, ReadInv, ParserTypes
<1>17. texts' \in 0..MaxTexts
  BY StreamAssumption DEF ReadChatCall, Text, ReadInv, ParserTypes
<1>18. Chunk(queue', c, PlaceOf(call[c]), GaveOf(call[c]), PlaceOf(r), GaveOf(r))
  BY <1>15, <1>16
<1>19. PlaceOf(call[c]) # "none" => r.tool = call[c].tool /\ PlaceOf(r) # "none"
  BY <1>7, <1>10, <1>11, <1>14
<1> QED BY <1>6, <1>7, <1>10, <1>11, <1>16, <1>17, <1>18, <1>19, CallFrame DEF Gave

-----------------------------------------------------------------------------
LEMMA EndEvents ==
    /\ \A r \in AllReasons : End(r) \in Events /\ End(r).type = "end" /\ End(r).reason = r
    /\ Error \in Events /\ Error.type = "error"
    /\ <<>> \in Seq(Events) /\ Calm(<<>>) /\ NoEnd(<<>>)
    /\ \A e \in Events : <<>> \o <<e>> = <<e>>
<1>1. \A r \in AllReasons : End(r) \in Events /\ End(r).type = "end" /\ End(r).reason = r
  BY EventKinds DEF End
<1>2. Error \in Events /\ Error.type = "error"
  BY EventKinds DEF Error
<1>3. <<>> \in Seq(Events) /\ Calm(<<>>) /\ NoEnd(<<>>)
  BY <1>2, Singles
<1>4. \A e \in Events : <<>> \o <<e>> = <<e>>
  <2> SUFFICES ASSUME NEW e \in Events PROVE <<>> \o <<e>> = <<e>>
    OBVIOUS
  <2>1. <<e>> \in Seq(Events)
    BY Singles
  <2> QED BY <2>1, ConcatEmptySeq
<1> QED BY <1>1, <1>2, <1>3, <1>4

(* The message ends with the reason r. *)
LEMMA EndGiven ==
    ASSUME ReadInv, reader \in {"reading", "flushing"}, queue = <<>>, reader' \in {"ended", "returned"},
           UNCHANGED <<from, json, call, order, stop, blocks, texts>>, started' \in BOOLEAN,
           NEW a \in Seq(Events), Calm(a), NoEnd(a), NEW r \in AllReasons, queue' = a \o <<End(r)>>,
           Incomplete(r) \/ Told', said \subseteq said'
    PROVE  Gave
<1> DEFINE e == End(r)
<1>1. e \in Events /\ e.type = "end" /\ e.reason = r
  BY EndEvents
<1>2. queue' = a \o <<e>>
  OBVIOUS
<1> HIDE DEF e
<1> QED BY <1>1, <1>2, EndFrame DEF Gave

LEMMA BareEnd ==
    ASSUME ReadInv, reader \in {"reading", "flushing"}, queue = <<>>, reader' \in {"ended", "returned"},
           UNCHANGED <<from, json, call, order, stop, blocks, texts>>, started' \in BOOLEAN,
           NEW r \in AllReasons, queue' = <<End(r)>>, Incomplete(r) \/ Told', said \subseteq said'
    PROVE  Gave
<1>1. queue' = <<>> \o <<End(r)>> /\ <<>> \in Seq(Events) /\ Calm(<<>>) /\ NoEnd(<<>>)
  BY EndEvents
<1> QED BY <1>1, EndGiven

LEMMA DoneRead ==
    ASSUME ReadInv, ReadDone
    PROVE  Gave
<1>1. reader = "reading" /\ queue = <<>> /\ ~json /\ said' = said \union {"done"} /\ "error" \notin said'
      /\ UNCHANGED <<from, json, started, stop, blocks, call, order, texts>> /\ OpenCalls' = OpenCalls
      /\ started' \in BOOLEAN /\ stop \in AllReasons \union {None} /\ said \subseteq said'
      /\ (stop # None => "stop" \in said) /\ (from = "gemini" => OpenCalls = {}) /\ from \in Protocols
  BY DEF ReadDone, ReadInv, ParserTypes, OpenCalls, Open
<1>2. CASE from = "chat" /\ started
  <2>1. reader' = "flushing" /\ queue' = <<>>
    BY <1>2 DEF ReadDone
  <2>2. EndSaid'
    BY <1>1, <1>2 DEF EndSaid
  <2> QED BY <1>1, <1>2, <2>1, <2>2, LastFrame DEF Gave
<1>3. CASE from = "anthropic" /\ started /\ stop # None /\ ~blocks /\ OpenCalls = {}
  <2>1. queue' = <<End(stop)>> /\ reader' = "returned"
    BY <1>3 DEF ReadDone, Return
  <2>2. Told'
    BY <1>1, <1>3 DEF Told, EndSaid
  <2> QED BY <1>1, <1>3, <2>1, <2>2, BareEnd
<1>4. CASE from = "gemini" /\ started /\ stop # None
  <2>1. queue' = <<End(stop)>> /\ reader' = "returned"
    BY <1>4 DEF ReadDone, Return
  <2>2. Told'
    BY <1>1, <1>4 DEF Told, EndSaid
  <2> QED BY <1>1, <1>4, <2>1, <2>2, BareEnd
<1>5. CASE ~(from = "chat" /\ started) /\ ~(from = "anthropic" /\ started /\ stop # None /\ ~blocks /\ OpenCalls = {})
           /\ ~(from = "gemini" /\ started /\ stop # None)
  <2>1. queue' = <<>> /\ reader' = "thrown"
    BY <1>5, Zenon DEF ReadDone, Throw
  <2> QED BY <1>1, <2>1, LastFrame DEF Gave
<1> QED BY <1>2, <1>3, <1>4, <1>5

LEMMA EofRead ==
    ASSUME ReadInv, ReadEof
    PROVE  Gave
<1>1. reader = "reading" /\ queue = <<>> /\ ~json /\ said' = said \union {"eof"} /\ "error" \notin said'
      /\ UNCHANGED <<from, json, started, stop, blocks, call, order, texts>> /\ OpenCalls' = OpenCalls
      /\ started' \in BOOLEAN /\ stop \in AllReasons \union {None} /\ said \subseteq said'
      /\ (stop # None => "stop" \in said) /\ (from = "gemini" => OpenCalls = {}) /\ from \in Protocols
  BY DEF ReadEof, ReadInv, ParserTypes, OpenCalls, Open
<1>2. CASE from = "chat" /\ started /\ stop # None
  <2>1. reader' = "flushing" /\ queue' = <<>>
    BY <1>2 DEF ReadEof
  <2>2. EndSaid'
    BY <1>1, <1>2 DEF EndSaid
  <2> QED BY <1>1, <1>2, <2>1, <2>2, LastFrame DEF Gave
<1>3. CASE from = "gemini" /\ started /\ stop # None
  <2>1. queue' = <<End(stop)>> /\ reader' = "returned"
    BY <1>3 DEF ReadEof, Return
  <2>2. Told'
    BY <1>1, <1>3 DEF Told, EndSaid
  <2> QED BY <1>1, <1>3, <2>1, <2>2, BareEnd
<1>4. CASE ~(from = "chat" /\ started /\ stop # None) /\ ~(from = "gemini" /\ started /\ stop # None)
  <2>1. queue' = <<>> /\ reader' = "thrown"
    BY <1>4, Zenon DEF ReadEof, Throw
  <2> QED BY <1>1, <2>1, LastFrame DEF Gave
<1> QED BY <1>2, <1>3, <1>4

LEMMA MessageStopRead ==
    ASSUME ReadInv, ReadMessageStop
    PROVE  Gave
<1>1. reader = "reading" /\ queue = <<>> /\ ~json /\ said' = said \union {"message stop"} /\ "error" \notin said'
      /\ UNCHANGED <<from, json, started, stop, blocks, call, order, texts>> /\ OpenCalls' = OpenCalls
      /\ started' \in BOOLEAN /\ stop \in AllReasons \union {None} /\ said \subseteq said'
      /\ (stop # None => "stop" \in said) /\ from = "anthropic"
  BY DEF ReadMessageStop, ReadInv, ParserTypes, OpenCalls, Open
<1>2. CASE started /\ stop # None /\ ~blocks /\ OpenCalls = {}
  <2>1. queue' = <<End(stop)>> /\ reader' = "returned"
    BY <1>2 DEF ReadMessageStop, Return
  <2>2. Told'
    BY <1>1, <1>2 DEF Told, EndSaid
  <2> QED BY <1>1, <1>2, <2>1, <2>2, BareEnd
<1>3. CASE ~(started /\ stop # None /\ ~blocks /\ OpenCalls = {})
  <2>1. queue' = <<>> /\ reader' = "thrown"
    BY <1>3 DEF ReadMessageStop, Throw
  <2> QED BY <1>1, <2>1, LastFrame DEF Gave
<1> QED BY <1>2, <1>3

LEMMA BlockedRead ==
    ASSUME ReadInv, ReadBlocked
    PROVE  Gave
<1>1. reader = "reading" /\ queue = <<>> /\ said \subseteq said' /\ reader' = "returned"
      /\ UNCHANGED <<from, json, stop, blocks, call, order, texts>> /\ started' \in BOOLEAN
      /\ queue' = Opening \o <<End("content_filter")>>
  BY DEF ReadBlocked, Return, Opened, ReadInv, ParserTypes
<1>2. "content_filter" \in AllReasons /\ Incomplete("content_filter")
  BY DEF AllReasons, Incomplete
<1> QED BY <1>1, <1>2, OpeningCalm, EndGiven

LEMMA TerminalRead ==
    ASSUME ReadInv, NEW st \in {"completed", "incomplete"}, NEW reason \in Reasons \union {"stop"}, ReadTerminal(st, reason)
    PROVE  Gave
<1>1. reader = "reading" /\ queue = <<>> /\ said' = said \union {st} /\ "error" \notin said' /\ from = "responses" /\ ~json
      /\ UNCHANGED <<from, json, stop, blocks, call, order, texts>> /\ OpenCalls' = OpenCalls
      /\ started \in BOOLEAN /\ said \subseteq said' /\ reason \in AllReasons
      /\ (st = "incomplete" => Incomplete(reason))
  BY StreamAssumption DEF ReadTerminal, ReadInv, ParserTypes, OpenCalls, Open, AllReasons, Incomplete
<1>2. CASE \/ st = "completed" /\ started /\ OpenCalls = {}
           \/ st = "incomplete" /\ \A c \in OpenCalls : call[c].native
  <2> DEFINE a == IF started THEN <<>> ELSE <<Start>>
  <2>1. queue' = a \o <<End(reason)>> /\ reader' = "ended" /\ started' = TRUE
    BY <1>2 DEF ReadTerminal
  <2>2. a \in Seq(Events) /\ Calm(a) /\ NoEnd(a)
    <3>1. Start \in Events /\ ~OfCall(Start) /\ Start.type = "start"
      BY EventKinds DEF Start, OfCall
    <3>2. a = <<>> \/ a = <<Start>>
      OBVIOUS
    <3> HIDE DEF a
    <3> QED BY <3>1, <3>2, Singles
  <2> HIDE DEF a
  <2>3. Incomplete(reason) \/ Told'
    BY <1>1, <1>2 DEF Told, EndSaid
  <2> QED BY <1>1, <2>1, <2>2, <2>3, EndGiven
<1>3. CASE ~(\/ st = "completed" /\ started /\ OpenCalls = {}
             \/ st = "incomplete" /\ \A c \in OpenCalls : call[c].native)
  <2>1. queue' = <<>> /\ reader' = "thrown" /\ started' = started
    BY <1>3 DEF ReadTerminal, Throw
  <2> QED BY <1>1, <2>1, LastFrame DEF Gave
<1> QED BY <1>2, <1>3

LEMMA AfterTerminalRead ==
    ASSUME ReadInv, ReadAfterTerminal
    PROVE  Gave
<1>1. reader = "ended" /\ queue = <<>> /\ queue' = <<>> /\ reader' \in {"returned", "thrown"}
      /\ UNCHANGED <<from, json, started, stop, blocks, call, order, texts>> /\ started' \in BOOLEAN /\ said \subseteq said'
  BY DEF ReadAfterTerminal, ReadInv, ParserTypes
<1> QED BY <1>1, LastFrame DEF Gave

LEMMA DocumentEndRead ==
    ASSUME ReadInv, NEW reason \in Reasons \union {"stop"}, ReadDocumentEnd(reason)
    PROVE  Gave
<1> DEFINE b == IF from = "responses" THEN <<Start>> ELSE <<>>
           a == Opening \o b
<1>1. reader = "reading" /\ queue = <<>> /\ said' = said \union {"document"} /\ "error" \notin said' /\ json
      /\ UNCHANGED <<from, json, stop, blocks, call, order, texts>> /\ OpenCalls' = OpenCalls /\ OpenCalls = {}
      /\ started' = TRUE /\ said \subseteq said' /\ reason \in AllReasons /\ reader' = "returned"
  BY StreamAssumption DEF ReadDocumentEnd, Return, ReadInv, ParserTypes, OpenCalls, Open, AllReasons
<1>2. b \in Seq(Events) /\ Calm(b) /\ NoEnd(b)
  <2>1. Start \in Events /\ ~OfCall(Start) /\ Start.type = "start"
    BY EventKinds DEF Start, OfCall
  <2>2. b = <<>> \/ b = <<Start>>
    OBVIOUS
  <2> HIDE DEF b
  <2> QED BY <2>1, <2>2, Singles
<1>3. queue' = (Opening \o b) \o <<End(reason)>>
  BY DEF ReadDocumentEnd, Return
<1> HIDE DEF b
<1>4. a \in Seq(Events) /\ Calm(a) /\ NoEnd(a)
  BY <1>2, OpeningCalm, Concats
<1>5. queue' = a \o <<End(reason)>>
  BY <1>3
<1> HIDE DEF a
<1>6. Told'
  BY <1>1 DEF Told, EndSaid
<1> QED BY <1>1, <1>4, <1>5, <1>6, EndGiven

LEMMA ErrorRead ==
    ASSUME ReadInv, ReadError
    PROVE  Gave
<1> DEFINE a == IF from = "chat" /\ ~json THEN Opening ELSE <<>>
           e == Error
<1>1. reader = "reading" /\ queue = <<>> /\ said \subseteq said' /\ reader' = "returned"
      /\ UNCHANGED <<from, json, started, stop, blocks, call, order, texts>> /\ started' \in BOOLEAN
      /\ queue' = a \o <<e>>
  BY DEF ReadError, Return, ReadInv, ParserTypes
<1>2. a \in Seq(Events) /\ Calm(a) /\ NoEnd(a)
  BY OpeningCalm, EndEvents
<1>3. e \in Events /\ e.type = "error"
  BY EndEvents
<1> HIDE DEF a, e
<1> QED BY <1>1, <1>2, <1>3, EndFrame DEF Gave

LEMMA BrokenRead ==
    ASSUME ReadInv, ReadBroken
    PROVE  Gave
<1>1. reader = "reading" /\ queue = <<>> /\ queue' = <<>> /\ reader' = "thrown"
      /\ UNCHANGED <<from, json, started, stop, blocks, call, order, texts>> /\ started' \in BOOLEAN /\ said \subseteq said'
  BY DEF ReadBroken, Throw, ReadInv, ParserTypes
<1> QED BY <1>1, LastFrame DEF Gave

LEMMA TailList ==
    ASSUME NEW S, NEW s \in Seq(S), s # <<>>
    PROVE  /\ Tail(s) \in Seq(S) /\ Len(s) \in Nat /\ Len(s) >= 1 /\ Len(Tail(s)) = Len(s) - 1 /\ Head(s) = s[1]
           /\ DOMAIN s = 1..Len(s) /\ DOMAIN Tail(s) = 1..(Len(s) - 1)
           /\ \A j \in 1..(Len(s) - 1) : Tail(s)[j] = s[j + 1]
OBVIOUS

LEMMA FlushList ==
    ASSUME call \in [Calls -> CallType], order \in Seq(Calls), order # <<>>, Listed(call, order), NEW r \in CallType,
           r.state = "ended", call' = [call EXCEPT ![Head(order)] = r], order' = Tail(order)
    PROVE  order' \in Seq(Calls) /\ Listed(call', order')
<1> DEFINE n == Len(order)
           c == Head(order)
<1>1. order \in Seq(Calls) /\ order # <<>>
  OBVIOUS
<1>2. /\ Tail(order) \in Seq(Calls) /\ Len(order) \in Nat /\ Len(order) >= 1
      /\ Len(Tail(order)) = Len(order) - 1 /\ Head(order) = order[1]
      /\ DOMAIN order = 1..Len(order) /\ DOMAIN Tail(order) = 1..(Len(order) - 1)
      /\ \A j \in 1..(Len(order) - 1) : Tail(order)[j] = order[j + 1]
  BY ONLY <1>1, TailList
<1>3. /\ order' \in Seq(Calls) /\ n \in Nat /\ n >= 1 /\ c = order[1] /\ DOMAIN order = 1..n
      /\ DOMAIN order' = 1..(n - 1) /\ \A j \in 1..(n - 1) : order'[j] = order[j + 1]
      /\ \A j \in 1..n : order[j] \in Calls
  BY <1>2
<1>4. /\ \A d \in Calls : call[d].state \in {"waiting", "open"} => \E j \in 1..n : order[j] = d
      /\ \A j \in 1..n : call[order[j]].state \in {"waiting", "open"}
      /\ \A j, k \in 1..n : order[j] = order[k] => j = k
  BY <1>3 DEF Listed
<1> HIDE DEF n
<1>5. c \in Calls /\ call'[c] = r /\ \A d \in Calls : d # c => call'[d] = call[d]
  BY <1>3
<1> HIDE DEF c
<1>6. ASSUME NEW d \in Calls, call'[d].state \in {"waiting", "open"} PROVE \E j \in 1..(n - 1) : order'[j] = d
  <2>1. d # c /\ call[d].state \in {"waiting", "open"}
    BY <1>5, <1>6
  <2>2. PICK j \in 1..n : order[j] = d
    BY <1>4, <2>1
  <2>3. j # 1
    BY <1>3, <2>1, <2>2
  <2>4. j - 1 \in 1..(n - 1) /\ (j - 1) + 1 = j
    BY <1>3, <2>3
  <2>5. order'[j - 1] = order[(j - 1) + 1]
    BY <1>3, <2>4
  <2> QED BY <2>2, <2>4, <2>5
<1>7. ASSUME NEW j \in 1..(n - 1) PROVE call'[order'[j]].state \in {"waiting", "open"}
  <2>1. j + 1 \in 1..n /\ 1 \in 1..n /\ j + 1 # 1
    BY <1>3
  <2>2. order[j + 1] # c /\ order[j + 1] \in Calls /\ order'[j] = order[j + 1]
    BY <1>3, <1>4, <2>1
  <2>3. call[order[j + 1]].state \in {"waiting", "open"}
    BY <1>4, <2>1
  <2>4. call'[order[j + 1]] = call[order[j + 1]]
    BY <1>5, <2>2
  <2> QED BY <2>2, <2>3, <2>4
<1>8. ASSUME NEW j \in 1..(n - 1), NEW k \in 1..(n - 1), order'[j] = order'[k] PROVE j = k
  <2>1. j + 1 \in 1..n /\ k + 1 \in 1..n /\ order[j + 1] = order[k + 1]
    BY <1>3, <1>8
  <2>2. j + 1 = k + 1
    BY <1>4, <2>1
  <2> QED BY <2>2
<1> QED BY <1>3, <1>6, <1>7, <1>8 DEF Listed

LEMMA FlushRead ==
    ASSUME ReadInv, Flush
    PROVE  Gave
<1>1. /\ reader = "flushing" /\ queue = <<>> /\ from = "chat" /\ ~json /\ EndSaid /\ "error" \notin said
      /\ UNCHANGED <<from, json, started, stop, blocks, texts, said>> /\ Listed(call, order)
      /\ call \in [Calls -> CallType] /\ order \in Seq(Calls) /\ stop \in AllReasons \union {None}
      /\ started' \in BOOLEAN
  BY DEF Flush, ReadInv, ParserTypes
<1>2. CASE order = <<>>
  <2> DEFINE r == IF stop = None THEN "stop" ELSE stop
  <2>1. r \in AllReasons
    BY <1>1 DEF AllReasons
  <2>2. queue' = <<End(r)>> /\ reader' = "returned" /\ UNCHANGED <<call, order>>
    BY <1>2 DEF Flush, Return
  <2> HIDE DEF r
  <2>3. Told'
    <3>1. OpenCalls = {}
      BY <1>1, <1>2 DEF Listed, OpenCalls, Open
    <3> QED BY <1>1, <2>2, <3>1 DEF Told, EndSaid, OpenCalls, Open
  <2> QED BY <1>1, <2>1, <2>2, <2>3, BareEnd
<1>3. CASE order # <<>>
  <2>1. PICK c : c = Head(order)
    OBVIOUS
  <2>2. PICK r : r = [call[c] EXCEPT !.state = "ended", !.held = 0]
    OBVIOUS
  <2> DEFINE q1 == IF call[c].state = "open" THEN <<>>
                   ELSE <<CallStart(c)>> \o [k \in 1..call[c].held |-> Args(c, <<k>>)]
             n  == call[c].sent
  <2>3. c \in Calls /\ call[c].state \in {"waiting", "open"}
    <3>1. order \in Seq(Calls) /\ order # <<>>
      BY <1>1, <1>3
    <3>2. Len(order) >= 1 /\ Head(order) = order[1] /\ DOMAIN order = 1..Len(order) /\ Len(order) \in Nat
      BY ONLY <3>1, TailList
    <3>3. 1 \in DOMAIN order /\ order[1] \in Calls
      BY <3>1, <3>2
    <3> QED BY <1>1, <2>1, <3>2, <3>3 DEF Listed
  <2>4. call[c] \in CallType /\ CallOK(call[c]) /\ ~call[c].native /\ n \in Nat /\ call[c].held \in Nat
    BY <1>1, <2>3, CallStates DEF CallType
  <2>5. r \in CallType /\ r.state = "ended" /\ r.sent = n /\ r.held = 0 /\ r.native = FALSE /\ r.tool = call[c].tool
    BY <2>2, <2>4 DEF CallType
  <2>6. /\ call' = [call EXCEPT ![c] = r] /\ order' = Tail(order) /\ reader' = reader
        /\ queue' = q1 \o <<CallEnd(c)>>
    BY <1>1, <1>3, <2>1, <2>2, <2>3 DEF Flush, Emit
  <2>7. order' \in Seq(Calls) /\ Listed(call', order')
    BY <1>1, <1>3, <2>1, <2>5, <2>6, FlushList
  <2>8. call'[c] = r /\ call' \in [Calls -> CallType] /\ \A d \in Calls : d # c => call'[d] = call[d]
    BY <1>1, <2>3, <2>5, <2>6
  <2>9. CallOK(r) /\ PlaceOf(r) = "ended" /\ GaveOf(r) = n
    BY <2>4, <2>5 DEF CallOK, PlaceOf, GaveOf
  <2>10. Chunk(q1, c, PlaceOf(call[c]), GaveOf(call[c]), "open", n)
    <3>1. CASE call[c].state = "open"
      <4>1. PlaceOf(call[c]) = "open" /\ GaveOf(call[c]) = n /\ q1 = <<>>
        BY <2>3, <2>4, <3>1, CallStates
      <4> HIDE DEF n
      <4>2. Chunk(<<>>, c, "open", n, "open", n)
        BY <2>4, ChunkNone DEF Places
      <4> QED BY <4>1, <4>2
    <3>2. CASE call[c].state # "open"
      <4>1. PlaceOf(call[c]) = "none" /\ GaveOf(call[c]) = 0 /\ call[c].held = n
        BY <2>3, <2>4, <3>2, CallStates DEF CallOK
      <4>2. Chunk(<<CallStart(c)>>, c, "none", 0, "open", 0)
        BY <2>3, ChunkStart
      <4>3. Chunk([k \in 1..call[c].held |-> Args(c, <<k>>)], c, "open", 0, "open", n)
        BY <2>3, <2>4, <4>1, ChunkPieces
      <4>4. Chunk(<<CallStart(c)>> \o [k \in 1..call[c].held |-> Args(c, <<k>>)], c, "none", 0, "open", n)
        BY <4>2, <4>3, ChunkConcat
      <4> QED BY <3>2, <4>1, <4>4
    <3> QED BY <3>1, <3>2
  <2> HIDE DEF q1, n
  <2>11. Chunk(<<CallEnd(c)>>, c, "open", n, "ended", n)
    BY <2>3, <2>4, ChunkEnd
  <2>12. Chunk(queue', c, PlaceOf(call[c]), GaveOf(call[c]), PlaceOf(r), GaveOf(r))
    BY <2>6, <2>9, <2>10, <2>11, ChunkConcat
  <2>13. ParserTypes'
    BY <1>1, <2>6, <2>7, <2>8, <2>12 DEF ReadInv, ParserTypes, Chunk
  <2>14. Ends(queue', reader') /\ \A j \in DOMAIN queue' : queue'[j].type # "end"
    BY <1>1, <2>6, <2>12 DEF Ends, NoEnd, Chunk
  <2>15. OfCalls(queue', call')
    BY <2>5, <2>8, <2>9, <2>12 DEF OfCalls, Only, OfCall, Chunk
  <2>16. \A d \in Calls : Gives(queue', d, call[d], call'[d])
    <3>1. Gives(queue', c, call[c], call'[c])
      BY <2>3, <2>5, <2>8, <2>9, <2>12 DEF Gives, Chunk
    <3>2. ASSUME NEW d \in Calls \ {c} PROVE Gives(queue', d, call[d], call'[d])
      <4>1. PlaceOf(call[d]) \in Places /\ GaveOf(call[d]) \in Nat
        BY CallStates
      <4>2. queue' \in Seq(Events) /\ Only(queue', c)
        BY <2>12 DEF Chunk
      <4>3. call'[d] = call[d] /\ d # c
        BY <2>8
      <4>4. Run(queue', d, PlaceOf(call[d]), GaveOf(call[d]), PlaceOf(call[d]), GaveOf(call[d]))
        BY <4>1, <4>2, <4>3, CalmRuns
      <4> QED BY <4>3, <4>4 DEF Gives
    <3> QED BY <3>1, <3>2
  <2>17. EndSaid'
    BY <1>1 DEF EndSaid
  <2>18. \A d \in Calls : CallOK(call'[d]) /\ (call'[d].native => from' = "responses")
    BY <1>1, <2>5, <2>8, <2>9 DEF ReadInv
  <2> QED BY <1>1, <2>6, <2>7, <2>13, <2>14, <2>15, <2>16, <2>17, <2>18 DEF Gave, ReadInv
<1> QED BY <1>2, <1>3

(* A step of the parser keeps its invariant, and what it gives is what it  *)
(* tells of the calls.                                                     *)
LEMMA ReadGives ==
    ASSUME ReadInv, Read
    PROVE  Gave
<1>1. ASSUME NEW what \in Contents, ReadContent(what) PROVE Gave
  BY <1>1, ContentRead
<1>2. ASSUME NEW reason \in Reasons, ReadStop(reason) PROVE Gave
  BY <1>2, StopRead
<1>3. ASSUME NEW reason \in Reasons \union {"stop"}, ReadDocumentEnd(reason) PROVE Gave
  BY <1>3, DocumentEndRead
<1>4. ASSUME NEW c \in Calls, NEW tool \in MaybeTool, NEW piece \in BOOLEAN, ReadChatCall(c, tool, piece) PROVE Gave
  BY <1>4, ChatCallRead
<1>5. ASSUME NEW c \in Calls, NEW tool \in Tools, NEW b \in BOOLEAN,
             ReadCallStart(c, tool, b) \/ ReadWholeCall(c, tool, b) PROVE Gave
  BY <1>5, CallStartRead, WholeCallRead
<1>6. ASSUME NEW c \in Calls, ReadPiece(c) \/ ReadCallEnd(c) PROVE Gave
  BY <1>6, PieceRead, CallEndRead
<1>7. ASSUME NEW st \in {"completed", "incomplete"}, NEW reason \in Reasons \union {"stop"}, ReadTerminal(st, reason) PROVE Gave
  BY <1>7, TerminalRead
<1>8. CASE ReadStart \/ ReadBlock \/ ReadDone \/ ReadEof \/ ReadMessageStop \/ ReadBlocked \/ Flush
           \/ ReadAfterTerminal \/ ReadError \/ ReadBroken
  BY <1>8, StartRead, BlockRead, DoneRead, EofRead, MessageStopRead, BlockedRead, FlushRead,
     AfterTerminalRead, ErrorRead, BrokenRead
<1> QED BY <1>1, <1>2, <1>3, <1>4, <1>5, <1>6, <1>7, <1>8, Zenon DEF Read

(* Taking an event keeps it too. *)
LEMMA TakenKeeps ==
    ASSUME ReadInv, queue # <<>>, Taken
    PROVE  ReadInv'
<1>1. queue \in Seq(Events) /\ queue # <<>>
  BY DEF ReadInv, ParserTypes
<1>2. /\ Tail(queue) \in Seq(Events) /\ Len(queue) \in Nat /\ Len(queue) >= 1
      /\ Len(Tail(queue)) = Len(queue) - 1 /\ DOMAIN queue = 1..Len(queue) /\ DOMAIN Tail(queue) = 1..(Len(queue) - 1)
      /\ \A j \in 1..(Len(queue) - 1) : Tail(queue)[j] = queue[j + 1]
  BY ONLY <1>1, TailList
<1>3. queue' = Tail(queue) /\ UNCHANGED <<from, json, reader, started, stop, blocks, call, order, texts, said>>
  BY DEF Taken
<1> DEFINE n == Len(queue)
<1>4. /\ queue' \in Seq(Events) /\ n \in Nat /\ n >= 1 /\ Len(queue') = n - 1 /\ DOMAIN queue' = 1..(n - 1)
      /\ DOMAIN queue = 1..n /\ \A j \in 1..(n - 1) : queue'[j] = queue[j + 1] /\ j + 1 \in 1..n
  BY <1>2, <1>3
<1> HIDE DEF n
<1>5. Ends(queue, reader) /\ OfCalls(queue, call) /\ n = Len(queue)
  BY DEF ReadInv, n
<1>6. Ends(queue', reader')
  <2>1. \A j \in 1..n : queue[j].type \in {"end", "error"} => j = n /\ reader \in {"ended", "returned"}
    BY <1>4, <1>5 DEF Ends
  <2>2. ASSUME NEW j \in 1..(n - 1), queue'[j].type \in {"end", "error"} PROVE j = n - 1 /\ reader \in {"ended", "returned"}
    <3>1. j + 1 \in 1..n /\ queue[j + 1].type \in {"end", "error"}
      BY <1>4, <2>2
    <3>2. j + 1 = n /\ reader \in {"ended", "returned"}
      BY <2>1, <3>1
    <3> QED BY <1>4, <3>2
  <2>3. ASSUME reader \in {"ended", "returned"}, queue' # <<>> PROVE queue'[n - 1].type \in {"end", "error"}
    <3>1. n - 1 >= 1
      BY <1>4, <2>3
    <3>2. n - 1 \in 1..(n - 1) /\ (n - 1) + 1 = n
      BY <1>4, <3>1
    <3>3. queue'[n - 1] = queue[(n - 1) + 1]
      BY <1>4, <3>2
    <3>4. queue[n].type \in {"end", "error"}
      BY <1>1, <1>5, <2>3 DEF Ends
    <3> QED BY <3>2, <3>3, <3>4
  <2>4. reader # "thrown"
    BY <1>1, <1>5 DEF Ends
  <2> QED BY <1>3, <1>4, <2>2, <2>3, <2>4 DEF Ends
<1>7. OfCalls(queue', call')
  <2>1. \A j \in 1..n : /\ OfCall(queue[j]) => PlaceOf(call[queue[j].call]) # "none"
                        /\ queue[j].type = "call end" => call[queue[j].call].state = "ended"
    BY <1>4, <1>5 DEF OfCalls
  <2> QED BY <1>3, <1>4, <2>1, ZenonT(40) DEF OfCalls
<1>8. \A j \in DOMAIN queue' : queue'[j].type = "end" => EndOf(queue'[j].reason)
  <2>1. \A j \in 1..n : queue[j].type = "end" => EndOf(queue[j].reason)
    BY <1>4 DEF ReadInv
  <2> QED BY <1>4, <2>1
<1>9. /\ Told' <=> Told
      /\ EndSaid' <=> EndSaid
      /\ OpenCalls' = OpenCalls
  BY <1>3 DEF Told, EndSaid, OpenCalls, Open
<1>10. ParserTypes'
  BY <1>3, <1>4 DEF ReadInv, ParserTypes
<1>11. \A j \in DOMAIN queue' : queue'[j].type = "end" => Incomplete(queue'[j].reason) \/ Told'
  BY <1>8, <1>9 DEF EndOf
<1> QED BY <1>3, <1>6, <1>7, <1>9, <1>10, <1>11 DEF ReadInv, EndOf
=============================================================================
