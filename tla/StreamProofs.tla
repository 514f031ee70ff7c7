---------------------------- MODULE StreamProofs ----------------------------
(***************************************************************************)
(* Theorems about ClientOutput, for any calls and contents and any length  *)
(* of the stream.                                                          *)
(*                                                                         *)
(* The invariant, Safe, has five parts.                                    *)
(*   Out      what the parser gives (ReadInv of UpstreamProofs), and the   *)
(*            frames: the terminal is the last, once, and agrees with the  *)
(*            result the final promise has or will get                     *)
(*   FlowInv  while events are taken, the items, the input kept and the    *)
(*            calls suppressed are where the events taken brought each     *)
(*            call, and the events still queued bring it where the parser  *)
(*            is                                                           *)
(*   EndInv   what is known when a message_end was taken                   *)
(*   ItemInv  the items of the output, and what of them the client was     *)
(*            shown or is about to be                                      *)
(*   GotInv   the arguments the client has, and the piece on its way       *)
(***************************************************************************)
EXTENDS UpstreamProofs

-----------------------------------------------------------------------------
(* The frames.                                                             *)

(* The frames a client is given. *)
Items  == [key : ItemKeys, open : BOOLEAN]
Frames == {Created, Delta} \union {Added(k) : k \in ItemKeys} \union {Done(k) : k \in ItemKeys}
          \union {Input(p[1], p[2]) : p \in Calls \X Pieces}
          \union {Terminal(st) : st \in {"completed", "incomplete", "failed"}}

Phases == {"new", "first", "looping", "tail", "over"}

(* The types of the output.                                                *)
FrameTypes ==
    /\ to \in Clients /\ phase \in Phases /\ pending \in Seq(Frames) /\ late \in BOOLEAN /\ result \in Statuses
    /\ canceled \in BOOLEAN /\ final \in Statuses \union {"pending"} /\ body \in {"open", "closed", "canceled"}
    /\ created \in BOOLEAN /\ status \in Statuses /\ orderly \in BOOLEAN
    /\ added \subseteq ItemKeys /\ done \subseteq ItemKeys

DataTypes ==
    /\ suppressed \subseteq Calls /\ passed \in BOOLEAN /\ items \in Seq(Items)
    /\ input \in [Calls -> Pieces] /\ ended \subseteq Calls /\ ending \in AllReasons \union {None}
    /\ woken \in BOOLEAN /\ got \in [Calls -> Pieces]

(* Terminal frames among the frames to come.                               *)
HasEnd(q)    == \E j \in DOMAIN q : q[j].type = "terminal"
Fails(q)     == \A j \in DOMAIN q : q[j].type = "terminal" => q[j].status = "failed"
EndIsLast(q) == \A j \in DOMAIN q : q[j].type = "terminal" => j = Len(q)
Good         == {"completed", "incomplete"}

(* An orderly output shows nothing before its beginning.                   *)
StartsFirst ==
    orderly /\ to # "gemini" =>
        \/ created
        \/ /\ added = {} /\ status = "none"
           /\ \/ pending # <<>> /\ Head(pending) = Created
              \/ phase \in {"new", "first"} /\ pending = <<>>
              \/ body # "open"

(* A terminal comes when the generator is through, last and once; the      *)
(* responses shell may give one early, but not in an orderly output.       *)
EndsOnce ==
    orderly \/ to # "responses" =>
        /\ HasEnd(pending) \/ status # "none" => phase \in {"tail", "over"}
        /\ EndIsLast(pending)
        /\ status # "none" => pending = <<>>

(* What is not yet, or no longer, so in a phase.                           *)
Phased ==
    /\ phase = "first" => to = "responses"
    /\ phase \in {"new", "first"} => pending = <<>> /\ ~created /\ status = "none" /\ added = {} /\ done = {}
    /\ body = "canceled" => phase = "over"
    /\ body # "open" /\ to # "gemini" => phase = "over"
    /\ phase = "over" => body # "open"

(* What settled the final promise.                                         *)
FinalInv ==
    /\ late => canceled /\ to = "responses" /\ result = "failed"
    /\ canceled => final # "pending"
    /\ to = "responses" => /\ final = (IF result = "none" THEN "pending" ELSE result)
                           /\ phase = "tail" \/ canceled => result # "none"
    /\ to # "responses" /\ final # "pending" =>
          \/ canceled /\ final = "none"
          \/ phase = "over" /\ body = "closed" /\ final = (IF result = "failed" THEN "none" ELSE result)
    /\ body = "canceled" => final # "pending"
    /\ body = "closed" => \/ phase = "over" /\ final # "pending" /\ pending = <<>>
                          \/ to = "gemini" /\ status = "failed"

(* The terminal, given or to come, is the result that was decided.         *)
EndKnown ==
    /\ status # "none" \/ HasEnd(pending) => result # "none"
    /\ status \in Good => result = status
    /\ \A j \in DOMAIN pending : pending[j].type = "terminal" /\ pending[j].status # "failed" => pending[j].status = result
    /\ result \in Good => /\ phase \in {"tail", "over"}
                          /\ \/ status = result /\ pending = <<>>
                             \/ status = "none" /\ pending # <<>> /\ pending[Len(pending)] = Terminal(result) /\ EndIsLast(pending)

FrameInv == FrameTypes /\ Phased /\ StartsFirst /\ EndsOnce /\ FinalInv /\ EndKnown

-----------------------------------------------------------------------------
LEMMA FrameKinds ==
    /\ Created \in Frames /\ Delta \in Frames /\ Failed \in Frames
    /\ \A k \in ItemKeys : Added(k) \in Frames /\ Done(k) \in Frames
    /\ \A c \in Calls, ps \in Pieces : Input(c, ps) \in Frames
    /\ \A st \in {"completed", "incomplete", "failed"} : Terminal(st) \in Frames
<1>1. \A c \in Calls, ps \in Pieces : Input(c, ps) \in Frames
  <2> SUFFICES ASSUME NEW c \in Calls, NEW ps \in Pieces PROVE Input(c, ps) \in Frames
    OBVIOUS
  <2> DEFINE p == <<c, ps>>
  <2>1. p \in Calls \X Pieces /\ p[1] = c /\ p[2] = ps
    OBVIOUS
  <2> HIDE DEF p
  <2> QED BY <2>1 DEF Frames
<1> QED BY <1>1 DEF Frames, Failed

LEMMA FrameFields ==
    ASSUME NEW f \in Frames
    PROVE  /\ f.type \in {"created", "delta", "added", "input", "done", "terminal"}
           /\ f.type = "created" => f = Created
           /\ f.type \in {"added", "done"} => f.key \in ItemKeys
           /\ f.type = "input" => f.key \in Calls /\ f.pieces \in Pieces
           /\ f.type = "terminal" => f.status \in {"completed", "incomplete", "failed"} /\ f = Terminal(f.status)
<1>1. (f = Created => f.type = "created") /\ (f = Delta => f.type = "delta")
  BY DEF Created, Delta
<1>2. ASSUME NEW k \in ItemKeys, f = Added(k) PROVE f.type = "added" /\ f.key = k
  BY <1>2 DEF Added
<1>3. ASSUME NEW k \in ItemKeys, f = Done(k) PROVE f.type = "done" /\ f.key = k
  BY <1>3 DEF Done
<1>4. ASSUME NEW p \in Calls \X Pieces, f = Input(p[1], p[2])
      PROVE  f.type = "input" /\ f.key = p[1] /\ f.pieces = p[2] /\ p[1] \in Calls /\ p[2] \in Pieces
  BY <1>4 DEF Input
<1>5. ASSUME NEW st \in {"completed", "incomplete", "failed"}, f = Terminal(st) PROVE f.type = "terminal" /\ f.status = st
  BY <1>5 DEF Terminal
<1>6. \/ f = Created
      \/ f = Delta
      \/ \E k \in ItemKeys : f = Added(k)
      \/ \E k \in ItemKeys : f = Done(k)
      \/ \E p \in Calls \X Pieces : f = Input(p[1], p[2])
      \/ \E st \in {"completed", "incomplete", "failed"} : f = Terminal(st)
  BY DEF Frames
<1>7. CASE f = Created \/ f = Delta
  BY <1>1, <1>7
<1>8. CASE \E k \in ItemKeys : f = Added(k)
  BY <1>2, <1>8
<1>9. CASE \E k \in ItemKeys : f = Done(k)
  BY <1>3, <1>9
<1>10. CASE \E p \in Calls \X Pieces : f = Input(p[1], p[2])
  BY <1>4, <1>10
<1>11. CASE \E st \in {"completed", "incomplete", "failed"} : f = Terminal(st)
  BY <1>5, <1>11
<1> QED BY <1>6, <1>7, <1>8, <1>9, <1>10, <1>11

LEMMA Joined ==
    ASSUME NEW S, NEW a \in Seq(S), NEW b \in Seq(S)
    PROVE  /\ a \o b \in Seq(S) /\ Len(a \o b) = Len(a) + Len(b) /\ Len(a) \in Nat /\ Len(b) \in Nat
           /\ DOMAIN a = 1..Len(a) /\ DOMAIN b = 1..Len(b) /\ DOMAIN (a \o b) = 1..(Len(a) + Len(b))
           /\ \A j \in 1..Len(a) : (a \o b)[j] = a[j]
           /\ \A j \in 1..Len(b) : (a \o b)[Len(a) + j] = b[j]
           /\ \A j \in DOMAIN (a \o b) : (\E k \in DOMAIN a : (a \o b)[j] = a[k]) \/ (\E k \in DOMAIN b : (a \o b)[j] = b[k])
<1>1. /\ a \o b \in Seq(S) /\ Len(a \o b) = Len(a) + Len(b) /\ Len(a) \in Nat /\ Len(b) \in Nat
      /\ DOMAIN a = 1..Len(a) /\ DOMAIN b = 1..Len(b) /\ DOMAIN (a \o b) = 1..(Len(a) + Len(b))
      /\ \A j \in 1..Len(a) : (a \o b)[j] = a[j]
      /\ \A j \in 1..Len(b) : (a \o b)[Len(a) + j] = b[j]
  OBVIOUS
<1>2. \A j \in DOMAIN (a \o b) : (\E k \in DOMAIN a : (a \o b)[j] = a[k]) \/ (\E k \in DOMAIN b : (a \o b)[j] = b[k])
  <2> SUFFICES ASSUME NEW j \in DOMAIN (a \o b)
               PROVE (\E k \in DOMAIN a : (a \o b)[j] = a[k]) \/ (\E k \in DOMAIN b : (a \o b)[j] = b[k])
    OBVIOUS
  <2>1. CASE j <= Len(a)
    <3>1. j \in DOMAIN a /\ (a \o b)[j] = a[j]
      BY <2>1
    <3> QED BY <3>1
  <2>2. CASE ~(j <= Len(a))
    <3>1. j - Len(a) \in DOMAIN b /\ (a \o b)[j] = b[j - Len(a)]
      BY <2>2
    <3> QED BY <3>1
  <2> QED BY <2>1, <2>2
<1> QED BY <1>1, <1>2

LEMMA JoinedFrames ==
    ASSUME NEW a \in Seq(Frames), NEW b \in Seq(Frames), NEW q, q = a \o b
    PROVE  /\ q \in Seq(Frames) /\ Len(q) = Len(a) + Len(b) /\ Len(a) \in Nat /\ Len(b) \in Nat
           /\ \A j \in DOMAIN q : (\E k \in DOMAIN a : q[j] = a[k]) \/ (\E k \in DOMAIN b : q[j] = b[k])
<1>1. /\ a \o b \in Seq(Frames) /\ Len(a \o b) = Len(a) + Len(b) /\ Len(a) \in Nat /\ Len(b) \in Nat
      /\ \A j \in DOMAIN (a \o b) : (\E k \in DOMAIN a : (a \o b)[j] = a[k]) \/ (\E k \in DOMAIN b : (a \o b)[j] = b[k])
  BY Joined
<1> QED BY <1>1, Zenon

LEMMA OneFrame ==
    ASSUME NEW S, NEW x \in S
    PROVE  /\ <<x>> \in Seq(S) /\ <<>> \in Seq(S) /\ Len(<<x>>) = 1 /\ Len(<<>>) = 0 /\ DOMAIN <<x>> = {1} /\ <<x>>[1] = x
           /\ DOMAIN <<>> = {} /\ <<x>> # <<>> /\ Head(<<x>>) = x
OBVIOUS

FrameState == <<to, phase, pending, late, result, canceled, final, body, created, status, orderly, added, done>>

(* Nothing of the output changes. *)
LEMMA FrameSame ==
    ASSUME FrameInv, UNCHANGED FrameState
    PROVE  FrameInv'
<1>1. /\ to' = to /\ phase' = phase /\ pending' = pending /\ late' = late /\ result' = result
      /\ canceled' = canceled /\ final' = final /\ orderly' = orderly /\ body' = body
      /\ created' = created /\ status' = status /\ added' = added /\ done' = done
  BY DEF FrameState
<1>2. FrameTypes'
  BY <1>1 DEF FrameInv, FrameTypes
<1>3. Phased' /\ StartsFirst' /\ EndsOnce'
  BY <1>1 DEF FrameInv, Phased, StartsFirst, EndsOnce, HasEnd, EndIsLast
<1>4. FinalInv' /\ EndKnown'
  BY <1>1 DEF FrameInv, FinalInv, EndKnown, HasEnd, EndIsLast
<1> QED BY <1>2, <1>3, <1>4 DEF FrameInv

(* The frames that are given. *)
LEMMA GivenForm ==
    ASSUME NEW fs \in Seq(Frames), NEW b \in BOOLEAN,
           NEW q, q = (IF b THEN <<Failed>> ELSE <<>>) \o fs \o <<Created>>
    PROVE  /\ q \in Seq(Frames) /\ q # <<>>
           /\ Fails(fs) => Fails(q)
           /\ HasEnd(q) => b \/ HasEnd(fs)
           /\ ~b /\ fs = <<>> => q = <<Created>> /\ Head(q) = Created
<1> DEFINE a == IF b THEN <<Failed>> ELSE <<>>
           d == <<Created>>
           g == a \o fs
<1>1. /\ a \in Seq(Frames) /\ \A j \in DOMAIN a : b /\ a[j] = Failed
      /\ ~b => a = <<>>
  BY FrameKinds, OneFrame
<1>2. d \in Seq(Frames) /\ d # <<>> /\ Len(d) = 1 /\ d[1] = Created /\ DOMAIN d = {1} /\ Head(d) = Created
  BY FrameKinds, OneFrame
<1>3. q = g \o d /\ (fs = <<>> => g = a \o <<>>)
  OBVIOUS
<1>4. Failed.type = "terminal" /\ Failed.status = "failed" /\ Created.type = "created"
  BY DEF Failed, Created, Terminal
<1> HIDE DEF a, d
<1>5. g \in Seq(Frames) /\ \A j \in DOMAIN g : (\E k \in DOMAIN a : g[j] = a[k]) \/ (\E k \in DOMAIN fs : g[j] = fs[k])
  <2>1. a \in Seq(Frames) /\ fs \in Seq(Frames) /\ g = a \o fs
    BY <1>1
  <2> HIDE DEF g
  <2> QED BY <2>1, JoinedFrames
<1>6. a \o <<>> = a
  BY <1>1, ConcatEmptySeq
<1> HIDE DEF g
<1>7. /\ q \in Seq(Frames) /\ Len(q) = Len(g) + Len(d) /\ Len(g) \in Nat
      /\ \A j \in DOMAIN q : (\E k \in DOMAIN g : q[j] = g[k]) \/ (\E k \in DOMAIN d : q[j] = d[k])
  <2>1. g \in Seq(Frames) /\ d \in Seq(Frames) /\ q = g \o d
    BY <1>2, <1>3, <1>5
  <2> QED BY ONLY <2>1, JoinedFrames, SMTT(40)
<1>8. q # <<>>
  BY <1>2, <1>7
<1>9. \A j \in DOMAIN q : (b /\ q[j] = Failed) \/ (\E k \in DOMAIN fs : q[j] = fs[k]) \/ q[j] = Created
  BY <1>1, <1>2, <1>5, <1>7
<1>10. (Fails(fs) => Fails(q)) /\ (HasEnd(q) => b \/ HasEnd(fs))
  BY <1>4, <1>9 DEF Fails, HasEnd
<1>11. ASSUME ~b, fs = <<>> PROVE q = <<Created>> /\ Head(q) = Created
  <2>1. g = <<>> /\ q = <<>> \o d
    BY <1>1, <1>3, <1>6, <1>11
  <2>2. q = d
    BY <1>2, <2>1, ConcatEmptySeq
  <2> QED BY <1>2, <2>2 DEF d
<1> QED BY <1>7, <1>8, <1>10, <1>11

(* Frames without a terminal are given. *)
LEMMA GivenFrames ==
    ASSUME FrameInv, Asking, queue # <<>>, Live, NEW fs \in Seq(Frames), ~HasEnd(fs),
           Head(queue).type = "start" => fs = <<>>, Give(fs),
           UNCHANGED <<to, result, canceled, final, body, created, status, added, done>>
    PROVE  FrameInv'
<1>1. pending = <<>> /\ phase \in {"first", "looping"} /\ phase' = "looping" /\ late' = (IF phase = "first" THEN FALSE ELSE late)
  BY DEF Asking, Give
<1>2. Fails(fs)
  BY DEF Fails, HasEnd
<1>3. CASE phase = "first"
  <2>1. pending' = (IF late THEN <<Failed>> ELSE <<>>) \o fs \o <<Created>> /\ late \in BOOLEAN
    BY <1>3 DEF Give, FrameInv, FrameTypes
  <2>2. /\ pending' \in Seq(Frames) /\ pending' # <<>> /\ Fails(pending') /\ (HasEnd(pending') => late)
        /\ ~late /\ fs = <<>> => Head(pending') = Created /\ pending' = <<Created>>
    BY <1>2, <2>1, GivenForm
  <2>3. orderly' => orderly /\ ~canceled /\ fs = <<>> /\ ~late
    BY <1>3 DEF Give, FrameInv, FinalInv
  <2>4. to = "responses" /\ ~created /\ status = "none" /\ added = {} /\ body = "open"
    BY <1>3 DEF FrameInv, Phased, FrameTypes
  <2>5. FrameTypes'
    BY <1>1, <2>2 DEF FrameInv, FrameTypes, Give, Phases
  <2>6. Phased'
    BY <1>1, <2>4 DEF Phased
  <2>7. StartsFirst' /\ EndsOnce'
    BY <2>2, <2>3, <2>4 DEF StartsFirst, EndsOnce, HasEnd, EndIsLast
  <2>8. FinalInv'
    BY <1>1, <1>3, <2>4 DEF FrameInv, FinalInv
  <2>9. result \notin Good
    BY <1>3 DEF FrameInv, EndKnown
  <2>10. EndKnown'
    BY <1>1, <2>2, <2>4, <2>9 DEF FrameInv, EndKnown, FinalInv, Fails, HasEnd, Good
  <2> QED BY <2>5, <2>6, <2>7, <2>8, <2>10 DEF FrameInv
<1>4. CASE phase = "looping"
  <2>1. pending' = fs /\ late' = late /\ orderly' = orderly
    BY <1>4 DEF Give, FrameInv, FrameTypes
  <2>2. to # "gemini" => body = "open"
    BY <1>4 DEF FrameInv, Phased
  <2>3. body = "closed" => to = "gemini" /\ status = "failed"
    BY <1>4 DEF FrameInv, FinalInv
  <2>4. FrameTypes'
    BY <1>1, <2>1 DEF FrameInv, FrameTypes, Phases
  <2>5. Phased'
    BY <1>1, <1>4, <2>2 DEF FrameInv, Phased
  <2>6. StartsFirst' /\ EndsOnce'
    BY <1>1, <1>4, <2>1, <2>2 DEF FrameInv, StartsFirst, EndsOnce, HasEnd, EndIsLast
  <2>7. FinalInv'
    BY <1>1, <1>4, <2>1, <2>2, <2>3 DEF FrameInv, FinalInv
  <2>8. EndKnown'
    BY <1>1, <1>2, <1>4, <2>1 DEF FrameInv, EndKnown, Fails, HasEnd, Good
  <2> QED BY <2>4, <2>5, <2>6, <2>7, <2>8 DEF FrameInv
<1> QED BY <1>1, <1>3, <1>4

(* One terminal, or nothing. *)
LEMMA FailedForm ==
    ASSUME NEW q, q = <<Failed>> \/ q = <<>>
    PROVE  q \in Seq(Frames) /\ Fails(q) /\ EndIsLast(q) /\ (q = <<>> => ~HasEnd(q))
<1>1. Failed.type = "terminal" /\ Failed.status = "failed" /\ Failed \in Frames
  BY FrameKinds DEF Failed, Terminal
<1>2. q \in Seq(Frames) /\ (\A j \in DOMAIN q : q[j] = Failed /\ j = 1 /\ Len(q) = 1) /\ (q = <<>> => DOMAIN q = {})
  <2>1. CASE q = <<>>
    BY <1>1, <2>1, OneFrame
  <2>2. CASE q = <<Failed>>
    BY <1>1, <2>2, OneFrame
  <2> QED BY <2>1, <2>2
<1> QED BY <1>1, <1>2 DEF Fails, EndIsLast, HasEnd

(* While the generator asks, nothing is decided but a failure. *)
LEMMA AskingState ==
    ASSUME FrameInv, Asking
    PROVE  /\ pending = <<>> /\ phase \in {"first", "looping"} /\ result \in {"none", "failed"} /\ status \notin Good
           /\ to # "gemini" => body = "open"
           /\ body # "open" => body = "closed" /\ to = "gemini" /\ status = "failed"
           /\ phase = "first" => to = "responses" /\ ~created /\ status = "none" /\ added = {} /\ body = "open"
           /\ phase = "looping" /\ orderly /\ to # "gemini" => created
           /\ phase = "looping" /\ (orderly \/ to # "responses") => status = "none"
           /\ phase = "looping" /\ to # "responses" => body = "open"
           /\ to # "responses" => (final = "pending" \/ (canceled /\ final = "none"))
<1>1. pending = <<>> /\ phase \in {"first", "looping"}
  BY DEF Asking
<1>2. result \in {"none", "failed"} /\ status \notin Good
  BY <1>1 DEF FrameInv, FrameTypes, EndKnown, Statuses, Good
<1>3. (to # "gemini" => body = "open") /\ (body # "open" => body = "closed" /\ to = "gemini" /\ status = "failed")
  BY <1>1 DEF FrameInv, FrameTypes, Phased, FinalInv
<1>4. phase = "first" => to = "responses" /\ ~created /\ status = "none" /\ added = {} /\ body = "open"
  BY <1>3 DEF FrameInv, Phased
<1>5. phase = "looping" /\ orderly /\ to # "gemini" => created
  BY <1>1, <1>3 DEF FrameInv, StartsFirst
<1>6. phase = "looping" /\ (orderly \/ to # "responses") => status = "none"
  BY DEF FrameInv, EndsOnce
<1>7. to # "responses" => (final = "pending" \/ (canceled /\ final = "none"))
  BY <1>1 DEF FrameInv, FinalInv
<1> QED BY <1>1, <1>2, <1>3, <1>4, <1>5, <1>6, <1>7

LEMMA FailFrames ==
    ASSUME FrameInv, Asking, Fail, UNCHANGED <<to, canceled, body, created, status, added, done>>
    PROVE  FrameInv'
<1>1. phase' = "tail" /\ late' = late /\ orderly' = (orderly /\ phase # "first") /\ result' = "failed"
      /\ pending' = (IF result = "none" /\ ~canceled THEN <<Failed>> ELSE <<>>)
  BY AskingState DEF Fail, Decide
<1>2. pending' \in Seq(Frames) /\ Fails(pending') /\ EndIsLast(pending') /\ (HasEnd(pending') => pending' = <<Failed>>)
      /\ (pending' = <<Failed>> => result = "none" /\ ~canceled)
  <2>1. pending' = <<Failed>> \/ pending' = <<>>
    BY <1>1
  <2>2. <<Failed>> # <<>>
    OBVIOUS
  <2> QED BY <1>1, <2>1, <2>2, FailedForm
<1>3. IF to = "responses" THEN final' = "failed" ELSE final' = final
  BY AskingState DEF Fail, Decide, Settle, FrameInv, FinalInv
<1>4. FrameTypes'
  BY <1>1, <1>2, <1>3 DEF FrameInv, FrameTypes, Phases, Statuses
<1>5. Phased'
  BY <1>1, AskingState DEF Phased
<1>6. StartsFirst'
  BY <1>1, AskingState DEF StartsFirst
<1>7. EndsOnce'
  <2>1. orderly' \/ to # "responses" => status = "none"
    BY <1>1, AskingState
  <2> QED BY <1>1, <1>2, <2>1 DEF EndsOnce, EndIsLast
<1>8. FinalInv'
  BY <1>1, <1>3, AskingState DEF FrameInv, FinalInv
<1>9. EndKnown'
  BY <1>1, <1>2, AskingState DEF EndKnown, Fails, Good
<1> QED BY <1>4, <1>5, <1>6, <1>7, <1>8, <1>9 DEF FrameInv

LEMMA TailFrames ==
    ASSUME FrameInv, Asking, phase = "looping", canceled \/ result # "none", phase' = "tail",
           UNCHANGED <<to, pending, late, result, canceled, final, body, created, status, orderly, added, done>>
    PROVE  FrameInv'
<1>1. to = "responses" => result # "none"
  BY DEF FrameInv, FinalInv
<1>2. FrameTypes'
  BY DEF FrameInv, FrameTypes, Phases
<1>3. Phased'
  BY AskingState DEF Phased
<1>4. StartsFirst' /\ EndsOnce'
  BY AskingState DEF StartsFirst, EndsOnce, FrameInv, HasEnd, EndIsLast
<1>5. FinalInv'
  BY <1>1, AskingState DEF FrameInv, FinalInv
<1>6. EndKnown'
  BY AskingState DEF FrameInv, EndKnown, HasEnd, Good
<1> QED BY <1>2, <1>3, <1>4, <1>5, <1>6 DEF FrameInv

(* The provider's error as the first event. *)
LEMMA ErrorFrames ==
    ASSUME FrameInv, Asking, phase = "first", Head(queue).type # "start",
           Give(IF result = "none" THEN <<Failed>> ELSE <<>>), Decide("failed"),
           UNCHANGED <<to, canceled, body, created, status, added, done>>
    PROVE  FrameInv'
<1> DEFINE fs == IF result = "none" THEN <<Failed>> ELSE <<>>
<1>1. phase' = "looping" /\ late' = FALSE /\ orderly' = FALSE /\ late \in BOOLEAN
      /\ pending' = (IF late THEN <<Failed>> ELSE <<>>) \o fs \o <<Created>>
  BY DEF Give, FrameInv, FrameTypes
<1>2. fs \in Seq(Frames) /\ Fails(fs)
  BY FailedForm
<1> HIDE DEF fs
<1>3. pending' \in Seq(Frames) /\ Fails(pending')
  BY <1>1, <1>2, GivenForm
<1>4. to = "responses" /\ result' = "failed" /\ final' = "failed"
  BY AskingState DEF Decide, Settle, FrameInv, FinalInv
<1>5. FrameTypes'
  BY <1>1, <1>3, <1>4 DEF FrameInv, FrameTypes, Phases, Statuses
<1>6. Phased' /\ StartsFirst' /\ EndsOnce'
  BY <1>1, <1>4, AskingState DEF Phased, StartsFirst, EndsOnce
<1>7. FinalInv'
  BY <1>1, <1>4, AskingState DEF FinalInv
<1>8. EndKnown'
  BY <1>3, <1>4, AskingState DEF EndKnown, Fails, Good
<1> QED BY <1>5, <1>6, <1>7, <1>8 DEF FrameInv

LEMMA AppendedFrame ==
    ASSUME NEW a \in Seq(Frames), NEW x \in Frames, NEW q, q = Append(a, x)
    PROVE  /\ q \in Seq(Frames) /\ Len(q) = Len(a) + 1 /\ Len(a) \in Nat /\ q # <<>>
           /\ DOMAIN q = 1..(Len(a) + 1) /\ DOMAIN a = 1..Len(a)
           /\ \A j \in 1..Len(a) : q[j] = a[j]
           /\ q[Len(a) + 1] = x
OBVIOUS

(* The output is concluded. *)
LEMMA ClosedFrames ==
    ASSUME FrameInv, Asking, phase = "looping", result = "none", ~canceled, NEW ds \in Seq(Frames), ~HasEnd(ds),
           NEW st \in {"completed", "incomplete", "failed"}, pending' = Append(ds, Terminal(st)), Decide(st),
           phase' = "tail", UNCHANGED <<late, orderly, to, canceled, body, created, status, added, done>>
    PROVE  FrameInv'
<1> DEFINE x == Terminal(st)
           q == Append(ds, x)
           n == Len(ds)
<1>1. x \in Frames /\ x.type = "terminal" /\ x.status = st
  BY FrameKinds DEF Terminal
<1>2. pending' = q
  OBVIOUS
<1> HIDE DEF x
<1>3. /\ q \in Seq(Frames) /\ Len(q) = n + 1 /\ n \in Nat /\ q # <<>> /\ DOMAIN q = 1..(n + 1) /\ DOMAIN ds = 1..n
      /\ \A j \in 1..n : q[j] = ds[j]
      /\ q[n + 1] = x
  BY <1>1, AppendedFrame
<1> HIDE DEF q, n
<1>4. EndIsLast(q) /\ (\A j \in DOMAIN q : q[j].type = "terminal" => q[j].status = st) /\ q[Len(q)] = x
  <2>1. \A j \in 1..n : ds[j].type # "terminal"
    BY <1>3 DEF HasEnd
  <2>2. \A j \in DOMAIN q : j = n + 1 \/ j \in 1..n
    BY <1>3
  <2> QED BY <1>1, <1>3, <2>1, <2>2 DEF EndIsLast
<1>5. result' = st /\ (IF to = "responses" THEN final' = st ELSE final' = final)
  BY DEF Decide, Settle, FrameInv, FinalInv
<1>6. status = "none" /\ late = FALSE
  BY AskingState DEF FrameInv, EndKnown, FinalInv, FrameTypes
<1>7. FrameTypes'
  BY <1>2, <1>3, <1>5 DEF FrameInv, FrameTypes, Phases, Statuses
<1>8. Phased' /\ StartsFirst'
  BY AskingState DEF Phased, StartsFirst
<1>9. EndsOnce'
  BY <1>2, <1>4, <1>6 DEF EndsOnce, EndIsLast
<1>10. FinalInv'
  BY <1>5, <1>6, AskingState DEF FrameInv, FinalInv
<1>11. EndKnown'
  BY <1>1, <1>2, <1>3, <1>4, <1>5, <1>6 DEF EndKnown, Good, EndIsLast, x
<1> QED BY <1>7, <1>8, <1>9, <1>10, <1>11 DEF FrameInv

-----------------------------------------------------------------------------
LEMMA BeginFrames ==
    ASSUME FrameInv, Begin
    PROVE  FrameInv'
<1>1. phase = "new" /\ phase' = (IF canceled THEN "tail" ELSE IF to = "responses" THEN "first" ELSE "looping")
      /\ orderly' = (orderly /\ ~canceled)
      /\ pending' = (IF ~canceled /\ to \in {"chat", "anthropic"} THEN <<Created>> ELSE <<>>)
      /\ UNCHANGED <<to, late, result, canceled, final, body, created, status, added, done>>
  BY DEF Begin, client
<1>2. pending = <<>> /\ ~created /\ status = "none" /\ added = {} /\ done = {} /\ result \notin Good
      /\ (to # "gemini" => body = "open") /\ body # "canceled"
  BY <1>1 DEF FrameInv, Phased, EndKnown
<1>3. body = "open"
  BY <1>1, <1>2 DEF FrameInv, FrameTypes, FinalInv
<1>4. Created.type = "created" /\ Created \in Frames /\ <<Created>> # <<>> /\ Head(<<Created>>) = Created
      /\ DOMAIN <<Created>> = {1} /\ <<Created>>[1] = Created /\ <<>> \in Seq(Frames) /\ <<Created>> \in Seq(Frames)
  BY FrameKinds, OneFrame DEF Created
<1>5. pending' \in Seq(Frames) /\ \A j \in DOMAIN pending' : pending'[j].type # "terminal"
  <2>1. CASE pending' = <<>>
    BY <1>4, <2>1
  <2>2. CASE pending' = <<Created>>
    BY <1>4, <2>2
  <2> QED BY <1>1, <2>1, <2>2
<1>6. FrameTypes'
  BY <1>1, <1>5 DEF FrameInv, FrameTypes, Phases
<1>7. Phased'
  BY <1>1, <1>2, <1>3 DEF Phased
<1>8. to \in {"chat", "anthropic", "gemini", "responses"}
  BY DEF FrameInv, FrameTypes, Clients
<1>9. StartsFirst'
  BY <1>1, <1>2, <1>4, <1>8 DEF StartsFirst
<1>10. EndsOnce'
  BY <1>1, <1>2, <1>5 DEF EndsOnce, HasEnd, EndIsLast
<1>11. FinalInv'
  BY <1>1, <1>3 DEF FrameInv, FinalInv
<1>12. EndKnown'
  BY <1>1, <1>2, <1>5 DEF EndKnown, HasEnd, Good
<1> QED BY <1>6, <1>7, <1>9, <1>10, <1>11, <1>12 DEF FrameInv

LEMMA FinishFrames ==
    ASSUME FrameInv, Finish
    PROVE  FrameInv'
<1>1. phase = "tail" /\ pending = <<>> /\ body = "open" /\ phase' = "over" /\ body' = "closed" /\ late' = FALSE
      /\ status' = (IF late /\ status = "none" THEN "failed" ELSE status)
      /\ final' = (IF final = "pending" THEN IF to = "responses" \/ result # "failed" THEN result ELSE "none" ELSE final)
      /\ UNCHANGED <<to, pending, result, canceled, orderly, created, added, done>>
  BY DEF Finish, Settle
<1>2. result \in Good => status = result
  BY <1>1 DEF FrameInv, EndKnown
<1>3. FrameTypes'
  BY <1>1 DEF FrameInv, FrameTypes, Phases, Statuses
<1>4. Phased'
  BY <1>1 DEF Phased
<1>5. StartsFirst'
  BY <1>1 DEF FrameInv, StartsFirst
<1>6. EndsOnce'
  BY <1>1 DEF FrameInv, EndsOnce, HasEnd, EndIsLast
<1>7. FinalInv'
  BY <1>1 DEF FrameInv, FrameTypes, FinalInv, Statuses
<1>8. EndKnown'
  BY <1>1, <1>2 DEF FrameInv, EndKnown, FinalInv, HasEnd, Good
<1> QED BY <1>3, <1>4, <1>5, <1>6, <1>7, <1>8 DEF FrameInv

LEMMA AbortFrames ==
    ASSUME FrameInv, HandleAbort,
           \/ UNCHANGED <<phase, body>>
           \/ body = "open" /\ body' = "canceled" /\ phase' = "over",
           UNCHANGED <<to, pending, created, status, orderly, added, done>>
    PROVE  FrameInv'
<1>1. to = "responses" => final = (IF result = "none" THEN "pending" ELSE result)
  BY DEF FrameInv, FinalInv
<1>2. CASE Listening
  <2>1. canceled' = TRUE /\ late' = (to = "responses") /\ result' = (IF to = "responses" THEN "failed" ELSE result)
        /\ final' = (IF to = "responses" THEN "failed" ELSE "none") /\ (to = "responses" => result = "none")
        /\ (to # "responses" => final = "pending") /\ ~canceled
    BY <1>1, <1>2 DEF HandleAbort, Listening, Decide, Settle
  <2>2. FrameTypes'
    BY <2>1 DEF FrameInv, FrameTypes, Phases, Statuses
  <2>3. Phased' /\ StartsFirst' /\ EndsOnce'
    BY <2>1 DEF FrameInv, Phased, StartsFirst, EndsOnce, HasEnd, EndIsLast
  <2>4. FinalInv'
    BY <2>1 DEF FrameInv, FinalInv
  <2>5. EndKnown'
    BY <2>1 DEF FrameInv, EndKnown, HasEnd, EndIsLast, Good
  <2> QED BY <2>2, <2>3, <2>4, <2>5 DEF FrameInv
<1>3. CASE ~Listening
  <2>1. UNCHANGED <<canceled, late, result, final>> /\ (canceled \/ IF to = "responses" THEN result # "none" ELSE final # "pending")
    BY <1>3 DEF HandleAbort, Listening
  <2>2. FrameTypes'
    BY <2>1 DEF FrameInv, FrameTypes, Phases
  <2>3. Phased' /\ StartsFirst' /\ EndsOnce'
    BY <2>1 DEF FrameInv, Phased, StartsFirst, EndsOnce, HasEnd, EndIsLast
  <2>4. FinalInv'
    BY <1>1, <2>1 DEF FrameInv, FrameTypes, FinalInv, Statuses
  <2>5. EndKnown'
    BY <2>1 DEF FrameInv, EndKnown, HasEnd, EndIsLast, Good
  <2> QED BY <2>2, <2>3, <2>4, <2>5 DEF FrameInv
<1> QED BY <1>2, <1>3

(* What is pulled. *)
LEMMA PulledFrame ==
    ASSUME FrameInv, Pull
    PROVE  /\ pending # <<>> /\ body = "open" /\ Head(pending) \in Frames /\ Len(pending) \in Nat /\ Len(pending) >= 1
           /\ Head(pending) = pending[1] /\ pending' \in Seq(Frames) /\ Len(pending') = Len(pending) - 1
           /\ DOMAIN pending = 1..Len(pending) /\ DOMAIN pending' = 1..(Len(pending) - 1)
           /\ \A j \in 1..(Len(pending) - 1) : pending'[j] = pending[j + 1] /\ j + 1 \in 1..Len(pending)
           /\ (Len(pending) = 1 => pending' = <<>>) /\ (Len(pending) > 1 => pending' # <<>>)
<1>1. pending \in Seq(Frames) /\ pending # <<>> /\ pending' = Tail(pending) /\ body = "open"
  BY DEF Pull, FrameInv, FrameTypes
<1>2. /\ Tail(pending) \in Seq(Frames) /\ Len(pending) \in Nat /\ Len(pending) >= 1
      /\ Len(Tail(pending)) = Len(pending) - 1 /\ Head(pending) = pending[1]
      /\ DOMAIN pending = 1..Len(pending) /\ DOMAIN Tail(pending) = 1..(Len(pending) - 1)
      /\ \A j \in 1..(Len(pending) - 1) : Tail(pending)[j] = pending[j + 1]
  BY ONLY <1>1, TailList
<1>3. pending[1] \in Frames
  BY <1>1, <1>2
<1>4. \A s \in Seq(Frames) : (Len(s) = 0 => s = <<>>) /\ (Len(s) > 0 => s # <<>>)
  OBVIOUS
<1>5. /\ pending' \in Seq(Frames) /\ Len(pending') = Len(pending) - 1 /\ DOMAIN pending' = 1..(Len(pending) - 1)
      /\ \A j \in 1..(Len(pending) - 1) : pending'[j] = pending[j + 1]
  BY <1>1, <1>2
<1>6. \A j \in 1..(Len(pending) - 1) : j + 1 \in 1..Len(pending)
  BY <1>2
<1>7. (Len(pending) = 1 => pending' = <<>>) /\ (Len(pending) > 1 => pending' # <<>>)
  <2>1. Len(pending') \in Int
    BY <1>2, <1>5
  <2> QED BY <1>2, <1>4, <1>5
<1> QED BY <1>1, <1>2, <1>3, <1>5, <1>6, <1>7

LEMMA PullFrames ==
    ASSUME FrameInv, Pull
    PROVE  FrameInv'
<1> DEFINE f == Head(pending)
           n == Len(pending)
<1>1. /\ pending # <<>> /\ body = "open" /\ f \in Frames /\ n \in Nat /\ n >= 1 /\ f = pending[1]
      /\ pending' \in Seq(Frames) /\ Len(pending') = n - 1 /\ DOMAIN pending = 1..n /\ DOMAIN pending' = 1..(n - 1)
      /\ \A j \in 1..(n - 1) : pending'[j] = pending[j + 1] /\ j + 1 \in 1..n
      /\ (n = 1 => pending' = <<>>) /\ (n > 1 => pending' # <<>>) /\ 1 \in DOMAIN pending /\ n \in DOMAIN pending
  BY PulledFrame
<1>2. PICK calls \in SUBSET Calls :
        /\ created' = (created \/ f.type = "created")
        /\ status' = (IF f.type = "terminal" /\ status = "none" THEN f.status ELSE status)
        /\ added' = (IF f.type = "added" THEN added \union {f.key} ELSE added \union calls)
        /\ done' = (IF f.type = "done" THEN done \union {f.key} ELSE done \union calls)
        /\ body' = (IF to = "gemini" /\ f.type = "terminal" /\ f.status = "failed" THEN "closed" ELSE body)
  <2> DEFINE cs == IF to = "gemini" /\ f.type = "terminal" /\ f.status # "failed"
                   THEN {c \in Calls : \E i \in DOMAIN items : items[i] = [key |-> c, open |-> FALSE]} ELSE {}
  <2>1. cs \in SUBSET Calls
    OBVIOUS
  <2>2. /\ created' = (created \/ f.type = "created")
        /\ status' = (IF f.type = "terminal" /\ status = "none" THEN f.status ELSE status)
        /\ added' = (IF f.type = "added" THEN added \union {f.key} ELSE added \union cs)
        /\ done' = (IF f.type = "done" THEN done \union {f.key} ELSE done \union cs)
        /\ body' = (IF to = "gemini" /\ f.type = "terminal" /\ f.status = "failed" THEN "closed" ELSE body)
    BY DEF Pull
  <2> HIDE DEF cs, f
  <2> QED BY <2>1, <2>2
<1>3. UNCHANGED <<to, phase, late, result, canceled, final, orderly>>
  BY DEF Pull
<1> HIDE DEF n, f
<1>4. /\ f.type \in {"created", "delta", "added", "input", "done", "terminal"}
      /\ f.type \in {"added", "done"} => f.key \in ItemKeys
      /\ f.type = "terminal" => f.status \in {"completed", "incomplete", "failed"} /\ f = Terminal(f.status)
      /\ f = Created => f.type = "created"
  BY <1>1, FrameFields DEF Created
<1>5. phase \notin {"new", "first"} /\ phase # "over"
  BY <1>1 DEF FrameInv, Phased
<1>6. f.type = "terminal" => HasEnd(pending)
  BY <1>1 DEF HasEnd
<1>7. HasEnd(pending') => HasEnd(pending)
  BY <1>1 DEF HasEnd
<1>8. EndIsLast(pending) => EndIsLast(pending') /\ (f.type = "terminal" => n = 1 /\ pending' = <<>> /\ ~HasEnd(pending'))
  <2> SUFFICES ASSUME EndIsLast(pending) PROVE EndIsLast(pending') /\ (f.type = "terminal" => n = 1 /\ pending' = <<>> /\ ~HasEnd(pending'))
    OBVIOUS
  <2>1. \A j \in 1..n : pending[j].type = "terminal" => j = n
    BY <1>1 DEF EndIsLast, n
  <2>2. ASSUME NEW j \in 1..(n - 1), pending'[j].type = "terminal" PROVE j = n - 1
    <3>1. pending[j + 1].type = "terminal" /\ j + 1 \in 1..n
      BY <1>1, <2>2
    <3>2. j + 1 = n
      BY <2>1, <3>1
    <3> QED BY <1>1, <3>2
  <2>3. f.type = "terminal" => n = 1
    BY <1>1, <2>1
  <2> QED BY <1>1, <2>2, <2>3 DEF EndIsLast, HasEnd
<1>9. FrameTypes'
  BY <1>1, <1>2, <1>3, <1>4 DEF FrameInv, FrameTypes, ItemKeys, Statuses
<1>10. Phased'
  BY <1>1, <1>2, <1>3, <1>5 DEF Phased
<1>11. StartsFirst'
  BY <1>1, <1>2, <1>3, <1>4, <1>5 DEF FrameInv, StartsFirst, f
<1>12. EndsOnce'
  BY <1>1, <1>2, <1>3, <1>6, <1>7, <1>8 DEF FrameInv, EndsOnce
<1>13. FinalInv'
  <2>1. to = "gemini" => status = "none"
    BY <1>1 DEF FrameInv, EndsOnce
  <2> QED BY <1>1, <1>2, <1>3, <2>1 DEF FrameInv, FinalInv
<1>14. EndKnown'
  <2>1. result \in Good => status = "none" /\ pending[n] = Terminal(result) /\ EndIsLast(pending)
    BY <1>1 DEF FrameInv, EndKnown, n
  <2>2. status' # "none" \/ HasEnd(pending') => result # "none"
    BY <1>2, <1>6, <1>7 DEF FrameInv, EndKnown
  <2>3. \A j \in DOMAIN pending : pending[j].type = "terminal" /\ pending[j].status # "failed" => pending[j].status = result
    BY DEF FrameInv, EndKnown
  <2>4. \A j \in DOMAIN pending' : pending'[j].type = "terminal" /\ pending'[j].status # "failed" => pending'[j].status = result
    BY <1>1, <2>3
  <2>5. status' \in Good => result = status'
    <3>1. CASE f.type = "terminal" /\ status = "none"
      BY <1>1, <1>2, <2>3, <3>1 DEF Good
    <3>2. CASE ~(f.type = "terminal" /\ status = "none")
      BY <1>2, <3>2 DEF FrameInv, EndKnown
    <3> QED BY <3>1, <3>2
  <2>6. ASSUME result \in Good
        PROVE  /\ phase \in {"tail", "over"}
               /\ \/ status' = result /\ pending' = <<>>
                  \/ status' = "none" /\ pending' # <<>> /\ pending'[Len(pending')] = Terminal(result) /\ EndIsLast(pending')
    <3>1. phase \in {"tail", "over"}
      BY <2>6 DEF FrameInv, EndKnown
    <3>2. CASE n = 1
      <4>1. f = Terminal(result)
        BY <1>1, <2>1, <2>6, <3>2
      <4>2. f.type = "terminal" /\ f.status = result
        BY <4>1 DEF Terminal
      <4> QED BY <1>1, <1>2, <2>1, <2>6, <3>1, <3>2, <4>2
    <3>3. CASE n # 1
      <4>1. f.type # "terminal" /\ EndIsLast(pending')
        BY <1>8, <2>1, <2>6, <3>3
      <4>2. n > 1 /\ n - 1 \in 1..(n - 1) /\ (n - 1) + 1 = n
        BY <1>1, <3>3
      <4>3. pending'[n - 1] = pending[(n - 1) + 1]
        BY <1>1, <4>2
      <4>4. pending'[Len(pending')] = Terminal(result)
        BY <1>1, <2>1, <2>6, <4>2, <4>3
      <4> QED BY <1>1, <1>2, <2>1, <2>6, <3>1, <4>1, <4>2, <4>4
    <3> QED BY <3>2, <3>3
  <2> QED BY <1>3, <2>2, <2>4, <2>5, <2>6 DEF EndKnown
<1> QED BY <1>9, <1>10, <1>11, <1>12, <1>13, <1>14 DEF FrameInv

-----------------------------------------------------------------------------
(* The parser and the frames, step by step.                                *)

(* The list of the items to be closed holds them all, and no other. *)
LEMMA ClosingList ==
    ASSUME items \in Seq(Items)
    PROVE  /\ Closing \in Seq(Items) /\ Len(Closing) \in Nat /\ DOMAIN Closing = 1..Len(Closing)
           /\ \A n \in DOMAIN Closing : \E i \in DOMAIN items : Closing[n] = items[i] /\ Closable(items[i])
           /\ \A i \in DOMAIN items : Closable(items[i]) => \E n \in DOMAIN Closing : Closing[n] = items[i]
<1> DEFINE C == ToClose
           N == Cardinality(C)
           p == [i \in C |-> Place(i)]
<1>1. Len(items) \in Nat /\ DOMAIN items = 1..Len(items) /\ \A i \in DOMAIN items : items[i] \in Items
  OBVIOUS
<1>2. C \subseteq 1..Len(items) /\ C \subseteq DOMAIN items /\ \A i \in C : i \in Nat
  BY <1>1 DEF ToClose
<1>3. IsFiniteSet(C)
  <2>1. IsFiniteSet(1..Len(items))
    BY <1>1, FS_Interval
  <2> QED BY <1>2, <2>1, FS_Subset
<1>4. N \in Nat
  BY <1>3, FS_CardinalityType
<1>5. \A i \in C : Place(i) = Cardinality({j \in C : j <= i})
  BY DEF Place
<1> HIDE DEF C
<1>6. ASSUME NEW i \in C
      PROVE  IsFiniteSet({j \in C : j <= i}) /\ Place(i) \in 1..N
  <2> DEFINE S == {j \in C : j <= i}
  <2>1. S \subseteq C /\ S # {}
    BY <1>2
  <2>2. IsFiniteSet(S) /\ Cardinality(S) <= N
    BY <1>3, <2>1, FS_Subset
  <2>3. Cardinality(S) \in Nat
    BY <2>2, FS_CardinalityType
  <2>4. Cardinality(S) # 0
    BY <2>1, <2>2, FS_EmptySet
  <2>5. Place(i) = Cardinality(S)
    BY <1>5
  <2> HIDE DEF S, N
  <2>6. Place(i) \in 1..N
    BY <1>4, <2>2, <2>3, <2>4, <2>5
  <2> QED BY <2>2, <2>6 DEF S
<1>7. ASSUME NEW i \in C, NEW k \in C, i < k PROVE Place(i) # Place(k)
  <2> DEFINE S == {j \in C : j <= i}
             T == {j \in C : j <= k}
  <2>1. S \subseteq T /\ k \in T /\ k \notin S
    BY <1>2, <1>7
  <2>2. IsFiniteSet(T)
    BY <1>6
  <2>3. Place(i) = Cardinality(S) /\ Place(k) = Cardinality(T)
    BY <1>5
  <2> HIDE DEF S, T
  <2>4. Cardinality(T) = Cardinality(S) => T = S
    BY <2>1, <2>2, FS_Subset
  <2> QED BY <2>1, <2>3, <2>4
<1>8. p \in Injection(C, 1..N)
  <2>1. p \in [C -> 1..N]
    BY <1>6
  <2>2. \A i, k \in C : p[i] = p[k] => i = k
    <3> SUFFICES ASSUME NEW i \in C, NEW k \in C, p[i] = p[k] PROVE i = k
      OBVIOUS
    <3>1. i \in Nat /\ k \in Nat
      BY <1>2
    <3>2. p[i] = Place(i) /\ p[k] = Place(k)
      OBVIOUS
    <3>3. CASE i < k
      BY <1>7, <3>2, <3>3
    <3>4. CASE k < i
      BY <1>7, <3>2, <3>4
    <3> QED BY <3>1, <3>3, <3>4
  <2> HIDE DEF p, N
  <2> QED BY <2>1, <2>2 DEF Injection, IsInjective
<1>9. \A n \in 1..N : \E i \in C : Place(i) = n
  <2>1. IsFiniteSet(1..N) /\ Cardinality(1..N) = N
    BY <1>4, FS_Interval
  <2> DEFINE T == 1..N
  <2>2. T = 1..N
    OBVIOUS
  <2> HIDE DEF T, p
  <2>3. p \in Injection(C, T) /\ IsFiniteSet(T) /\ Cardinality(C) = Cardinality(T)
    BY <1>8, <2>1, <2>2
  <2>4. p \in Surjection(C, T)
    BY <2>3, FS_Injection
  <2>5. \A n \in T : \E i \in C : p[i] = n
    BY <2>4 DEF Surjection
  <2>6. \A i \in C : p[i] = Place(i)
    BY DEF p
  <2> QED BY <2>2, <2>5, <2>6
<1>10. Closing = [n \in 1..N |-> items[CHOOSE i \in C : Place(i) = n]]
  BY DEF Closing, C
<1> HIDE DEF N, p
<1>11. \A n \in 1..N : (CHOOSE i \in C : Place(i) = n) \in C /\ Place(CHOOSE i \in C : Place(i) = n) = n
  BY <1>9
<1>12. ASSUME NEW n \in 1..N PROVE \E i \in C : Closing[n] = items[i]
  BY <1>10, <1>11
<1>13. ASSUME NEW i \in C PROVE \E n \in 1..N : Closing[n] = items[i]
  <2> DEFINE n == Place(i)
             k == CHOOSE j \in C : Place(j) = n
  <2>1. n \in 1..N
    BY <1>6
  <2>2. k \in C /\ Place(k) = n
    BY <1>11, <2>1
  <2>3. Closing[n] = items[k]
    BY <1>10, <2>1
  <2> HIDE DEF k
  <2>4. k = i
    <3>1. k \in Nat /\ i \in Nat
      BY <1>2, <2>2
    <3>2. CASE k < i
      BY <1>7, <2>2, <3>2
    <3>3. CASE i < k
      BY <1>7, <2>2, <3>3
    <3> QED BY <3>1, <3>2, <3>3
  <2> QED BY <2>1, <2>3, <2>4
<1>14. DOMAIN Closing = 1..N /\ \A n \in 1..N : Closing[n] \in Items
  BY <1>1, <1>2, <1>10, <1>12
<1>15. Closing \in Seq(Items) /\ Len(Closing) = N
  BY <1>4, <1>10, <1>14
<1>16. \A i \in DOMAIN items : i \in C <=> Closable(items[i])
  BY DEF C, ToClose
<1> QED BY <1>2, <1>4, <1>12, <1>13, <1>14, <1>15, <1>16

-----------------------------------------------------------------------------
(* The parser and the frames.                                              *)
Out == ReadInv /\ FrameInv /\ DataTypes

LEMMA ReadSame ==
    ASSUME ReadInv, UNCHANGED parser
    PROVE  ReadInv'
<1>1. UNCHANGED <<from, json, reader, started, stop, blocks, call, order, queue, texts, said>>
  BY DEF parser
<1>2. ParserTypes'
  BY <1>1 DEF ReadInv, ParserTypes
<1>3. (Told' <=> Told) /\ (EndSaid' <=> EndSaid) /\ OpenCalls' = OpenCalls
  BY <1>1 DEF Told, EndSaid, OpenCalls, Open
<1>4. \A j \in DOMAIN queue' : queue'[j].type = "end" => Incomplete(queue'[j].reason) \/ Told'
  BY <1>1, <1>3 DEF ReadInv, EndOf
<1> QED BY <1>1, <1>2, <1>3, <1>4 DEF ReadInv, EndOf

LEMMA ShortFrames ==
    ASSUME NEW x \in Frames, x.type # "terminal", NEW y \in Frames, y.type # "terminal"
    PROVE  /\ <<>> \in Seq(Frames) /\ <<x>> \in Seq(Frames) /\ <<x, y>> \in Seq(Frames)
           /\ ~HasEnd(<<>>) /\ ~HasEnd(<<x>>) /\ ~HasEnd(<<x, y>>)
BY DEF HasEnd

LEMMA PlainFrames ==
    /\ Delta \in Frames /\ Delta.type = "delta"
    /\ \A k \in ItemKeys : Added(k) \in Frames /\ Added(k).type = "added" /\ Added(k).key = k
    /\ \A k \in ItemKeys : Done(k) \in Frames /\ Done(k).type = "done" /\ Done(k).key = k
    /\ \A c \in Calls, ps \in Pieces : Input(c, ps) \in Frames /\ Input(c, ps).type = "input"
                                      /\ Input(c, ps).key = c /\ Input(c, ps).pieces = ps
BY FrameKinds DEF Delta, Added, Done, Input

(* The event that is taken. *)
LEMMA HeadEvent ==
    ASSUME ReadInv, queue # <<>>
    PROVE  /\ Head(queue) \in Events /\ Head(queue) = queue[1] /\ 1 \in DOMAIN queue
           /\ queue' = Tail(queue) => queue' \in Seq(Events)
<1>1. queue \in Seq(Events) /\ queue # <<>>
  BY DEF ReadInv, ParserTypes
<1>2. /\ Tail(queue) \in Seq(Events) /\ Len(queue) \in Nat /\ Len(queue) >= 1 /\ Head(queue) = queue[1]
      /\ DOMAIN queue = 1..Len(queue)
  BY ONLY <1>1, TailList
<1>3. 1 \in DOMAIN queue
  BY <1>2
<1>4. queue[1] \in Events
  BY <1>1, <1>3
<1> QED BY <1>2, <1>3, <1>4

LEMMA EventTypes ==
    /\ Start.type = "start" /\ Error.type = "error" /\ \A r : End(r).type = "end" /\ End(r).reason = r
    /\ \A w : Content(w).type = "content"
    /\ \A c : CallStart(c).type = "call" /\ CallEnd(c).type = "call end"
             /\ CallStart(c).call = c /\ CallEnd(c).call = c
    /\ \A c, ps : Args(c, ps).type = "args" /\ Args(c, ps).call = c /\ Args(c, ps).pieces = ps
BY DEF Start, Error, End, Content, CallStart, CallEnd, Args

LEMMA SkipOut ==
    ASSUME Out, Skip
    PROVE  Out'
<1>1. queue # <<>> /\ Taken /\ UNCHANGED <<to, phase, shell, suppressed, passed, canceled, final, woken, orderly, client>>
  BY DEF Skip, Skipped
<1>2. ReadInv'
  BY <1>1, TakenKeeps DEF Out
<1>3. FrameInv'
  BY <1>1, FrameSame DEF Out, FrameState, shell, client
<1>4. DataTypes'
  BY <1>1 DEF Out, DataTypes, shell, client
<1> QED BY <1>2, <1>3, <1>4 DEF Out

LEMMA TakeCanceledOut ==
    ASSUME Out, TakeCanceled
    PROVE  Out'
<1>1. /\ Asking /\ queue # <<>> /\ Taken /\ ~Live /\ phase' = "tail"
      /\ UNCHANGED <<to, shell, suppressed, passed, canceled, final, woken, orderly, client>>
  BY DEF TakeCanceled
<1>2. canceled /\ phase = "looping"
  BY <1>1, AskingState DEF Live, Out
<1>3. ReadInv'
  BY <1>1, TakenKeeps DEF Out
<1>4. FrameInv'
  BY <1>1, <1>2, TailFrames DEF Out, shell, client
<1>5. DataTypes'
  BY <1>1 DEF Out, DataTypes, shell, client
<1> QED BY <1>3, <1>4, <1>5 DEF Out

LEMMA TakeStartOut ==
    ASSUME Out, TakeStart
    PROVE  Out'
<1>1. /\ Asking /\ queue # <<>> /\ Taken /\ Live /\ Give(<<>>)
      /\ UNCHANGED <<to, items, input, ended, ending, result, suppressed, passed, canceled, final, woken, client>>
  BY DEF TakeStart, NextIs
<1>2. <<>> \in Seq(Frames) /\ ~HasEnd(<<>>)
  BY DEF HasEnd
<1>3. ReadInv'
  BY <1>1, TakenKeeps DEF Out
<1>4. FrameInv'
  BY <1>1, <1>2, GivenFrames DEF Out, client
<1>5. DataTypes'
  BY <1>1 DEF Out, DataTypes, client
<1> QED BY <1>3, <1>4, <1>5 DEF Out

LEMMA AddItemTyped ==
    ASSUME items \in Seq(Items), NEW k \in ItemKeys, AddItem(k)
    PROVE  items' \in Seq(Items)
<1>1. [key |-> k, open |-> TRUE] \in Items
  BY DEF Items
<1> QED BY <1>1 DEF AddItem

LEMMA CloseTyped ==
    ASSUME items \in Seq(Items), NEW ks, Close(ks)
    PROVE  items' \in Seq(Items)
<1>1. Len(items) \in Nat /\ DOMAIN items = 1..Len(items) /\ \A i \in 1..Len(items) : items[i] \in Items
  OBVIOUS
<1>2. \A i \in Items : [i EXCEPT !.open = FALSE] \in Items
  BY DEF Items
<1>3. DOMAIN items' = 1..Len(items) /\ \A i \in 1..Len(items) :
        items'[i] = IF items[i].key \in ks THEN [items[i] EXCEPT !.open = FALSE] ELSE items[i]
  BY <1>1 DEF Close
<1>4. items' = [i \in 1..Len(items) |-> IF items[i].key \in ks THEN [items[i] EXCEPT !.open = FALSE] ELSE items[i]]
  BY <1>1 DEF Close
<1>5. \A i \in 1..Len(items) : (IF items[i].key \in ks THEN [items[i] EXCEPT !.open = FALSE] ELSE items[i]) \in Items
  BY <1>1, <1>2
<1> QED BY <1>1, <1>4, <1>5

LEMMA TakeContentOut ==
    ASSUME Out, NEW event, NEW what, TakeContent(event, what),
           (event = Content(what) /\ what \in Contents) \/ \E c \in Calls : event = CallStart(c)
    PROVE  Out'
<1> DEFINE key == IF what = "thinking" THEN "thinking" ELSE "text"
           fs == IF Fresh(key) THEN <<Added(key), Delta>> ELSE IF to = "gemini" /\ what = "refusal" THEN <<>> ELSE <<Delta>>
<1>1. /\ Asking /\ queue # <<>> /\ event = Head(queue) /\ Taken /\ Live /\ Suppress(event)
      /\ UNCHANGED <<to, input, ended, ending, result, passed, canceled, final, woken, client>>
      /\ IF Fresh(key) THEN AddItem(key) /\ Give(fs) ELSE Give(fs) /\ UNCHANGED items
  BY DEF TakeContent, NextIs
<1>2. key \in ItemKeys
  BY DEF ItemKeys
<1>3. fs \in Seq(Frames) /\ ~HasEnd(fs)
  <2>1. Added(key) \in Frames /\ Added(key).type # "terminal" /\ Delta \in Frames /\ Delta.type # "terminal"
    BY <1>2, PlainFrames
  <2> QED BY <2>1, ShortFrames
<1> HIDE DEF fs, key
<1>4. Head(queue).type # "start" /\ Give(fs)
  BY <1>1, EventTypes
<1>5. ReadInv'
  BY <1>1, TakenKeeps DEF Out
<1>6. FrameInv'
  BY <1>1, <1>3, <1>4, GivenFrames DEF Out, client
<1>7. items' \in Seq(Items)
  BY <1>1, <1>2, AddItemTyped DEF Out, DataTypes
<1>8. suppressed' \subseteq Calls
  <2>1. Unknown(event) => event.call \in Calls
    BY <1>1, HeadEvent, EventFields DEF Unknown, Out
  <2> QED BY <1>1, <2>1 DEF Suppress, Out, DataTypes
<1>9. DataTypes'
  BY <1>1, <1>7, <1>8 DEF Out, DataTypes, client
<1> QED BY <1>5, <1>6, <1>9 DEF Out

LEMMA TakeCallOut ==
    ASSUME Out, NEW c \in Calls, TakeCall(c)
    PROVE  Out'
<1> DEFINE fs == IF to = "gemini" THEN <<>> ELSE <<Added(c)>>
<1>1. /\ Asking /\ queue # <<>> /\ CallStart(c) = Head(queue) /\ Taken /\ Live /\ Give(fs) /\ AddItem(c) /\ passed' = TRUE
      /\ UNCHANGED <<to, input, ended, ending, result, suppressed, canceled, final, woken, client>>
  BY DEF TakeCall, NextIs
<1>2. c \in ItemKeys
  BY DEF ItemKeys
<1>3. fs \in Seq(Frames) /\ ~HasEnd(fs)
  <2>1. Added(c) \in Frames /\ Added(c).type # "terminal"
    BY <1>2, PlainFrames
  <2> QED BY <2>1, ShortFrames
<1> HIDE DEF fs
<1>4. Head(queue).type # "start"
  BY <1>1, EventTypes
<1>5. ReadInv'
  BY <1>1, TakenKeeps DEF Out
<1>6. FrameInv'
  BY <1>1, <1>3, <1>4, GivenFrames DEF Out, client
<1>7. items' \in Seq(Items)
  BY <1>1, <1>2, AddItemTyped DEF Out, DataTypes
<1>8. DataTypes'
  BY <1>1, <1>7 DEF Out, DataTypes, client
<1> QED BY <1>5, <1>6, <1>8 DEF Out

LEMMA TakeArgsOut ==
    ASSUME Out, NEW c \in Calls, NEW ps, TakeArgs(c, ps)
    PROVE  Out'
<1> DEFINE fs == IF to = "gemini" \/ Custom(c) \/ ps = <<>> THEN <<>> ELSE <<Input(c, ps)>>
<1>1. /\ Asking /\ queue # <<>> /\ Args(c, ps) = Head(queue) /\ Taken /\ Live /\ Give(fs)
      /\ input' = [input EXCEPT ![c] = @ \o ps]
      /\ UNCHANGED <<to, items, ended, ending, result, suppressed, passed, canceled, final, woken, client>>
  BY DEF TakeArgs, NextIs
<1>a. Args(c, ps).type = "args" /\ Args(c, ps).pieces = ps
  BY DEF Args
<1>2. ps \in Pieces
  <2>1. Head(queue) \in Events
    BY <1>1, HeadEvent DEF Out
  <2>2. Args(c, ps) \in Events
    BY <1>1, <2>1
  <2> QED BY <1>a, <2>2, EventFields
<1>3. fs \in Seq(Frames) /\ ~HasEnd(fs)
  <2>1. Input(c, ps) \in Frames /\ Input(c, ps).type # "terminal"
    BY <1>2, PlainFrames
  <2> QED BY <2>1, ShortFrames
<1> HIDE DEF fs
<1>4. Head(queue).type # "start"
  BY <1>1, <1>a
<1>5. ReadInv'
  BY <1>1, TakenKeeps DEF Out
<1>6. FrameInv'
  BY <1>1, <1>3, <1>4, GivenFrames DEF Out, client
<1>7. input' \in [Calls -> Pieces]
  <2>1. input \in [Calls -> Pieces]
    BY DEF Out, DataTypes
  <2>2. input[c] \o ps \in Pieces
    BY <1>2, <2>1 DEF Pieces
  <2> QED BY <1>1, <2>1, <2>2
<1>8. DataTypes'
  BY <1>1, <1>7 DEF Out, DataTypes, client
<1> QED BY <1>5, <1>6, <1>8 DEF Out

LEMMA TakeCallEndOut ==
    ASSUME Out, NEW c \in Calls, TakeCallEnd(c)
    PROVE  Out'
<1>1. /\ Asking /\ queue # <<>> /\ CallEnd(c) = Head(queue) /\ Taken /\ Live
      /\ ended' = IF Custom(c) THEN ended \union {c} ELSE ended
      /\ UNCHANGED <<to, input, ending, suppressed, passed, canceled, woken, client>>
      /\ \/ Give(<<>>) /\ Undecided /\ UNCHANGED items
         \/ Fail /\ UNCHANGED items
         \/ EndItem(c)
  BY DEF TakeCallEnd, NextIs
<1>2. Head(queue).type # "start" /\ c \in ItemKeys
  BY <1>1, EventTypes DEF ItemKeys
<1>3. ReadInv'
  BY <1>1, TakenKeeps DEF Out
<1>4. CASE Give(<<>>) /\ Undecided /\ UNCHANGED items
  <2>1. <<>> \in Seq(Frames) /\ ~HasEnd(<<>>)
    BY DEF HasEnd
  <2>2. FrameInv'
    BY <1>1, <1>2, <1>4, <2>1, GivenFrames DEF Out, client, Undecided
  <2>3. DataTypes'
    BY <1>1, <1>4 DEF Out, DataTypes, client
  <2> QED BY <1>3, <2>2, <2>3 DEF Out
<1>5. CASE Fail /\ UNCHANGED items
  <2>1. FrameInv'
    BY <1>1, <1>5, FailFrames DEF Out, client
  <2>2. DataTypes'
    BY <1>1, <1>5 DEF Out, DataTypes, client
  <2> QED BY <1>3, <2>1, <2>2 DEF Out
<1>6. CASE EndItem(c)
  <2> DEFINE fs == IF to = "gemini" THEN <<>> ELSE <<Done(c)>>
  <2>1. Give(fs) /\ Undecided /\ Close({c})
    BY <1>6 DEF EndItem
  <2>2. fs \in Seq(Frames) /\ ~HasEnd(fs)
    <3>1. Done(c) \in Frames /\ Done(c).type # "terminal"
      BY <1>2, PlainFrames
    <3> QED BY <3>1, ShortFrames
  <2> HIDE DEF fs
  <2>3. FrameInv'
    BY <1>1, <1>2, <2>1, <2>2, GivenFrames DEF Out, client, Undecided
  <2>4. items' \in Seq(Items)
    BY <2>1, CloseTyped DEF Out, DataTypes
  <2>5. DataTypes'
    BY <1>1, <2>4 DEF Out, DataTypes, client
  <2> QED BY <1>3, <2>3, <2>5 DEF Out
<1> QED BY <1>1, <1>4, <1>5, <1>6

LEMMA TakeEndOut ==
    ASSUME Out, NEW reason \in AllReasons, TakeEnd(reason)
    PROVE  Out'
<1>1. /\ Asking /\ queue # <<>> /\ End(reason) = Head(queue) /\ Taken /\ Live
      /\ UNCHANGED <<to, items, input, ended, suppressed, passed, canceled, woken, client>>
      /\ ending' \in AllReasons \union {None}
      /\ \/ Fail
         \/ Give(<<>>) /\ Undecided
  BY DEF TakeEnd, NextIs, Out, DataTypes, AllReasons
<1>2. Head(queue).type # "start"
  BY <1>1, EventTypes
<1>3. ReadInv'
  BY <1>1, TakenKeeps DEF Out
<1>4. DataTypes'
  BY <1>1 DEF Out, DataTypes, client
<1>5. CASE Fail
  BY <1>1, <1>3, <1>4, <1>5, FailFrames DEF Out, client
<1>6. CASE Give(<<>>) /\ Undecided
  <2>1. <<>> \in Seq(Frames) /\ ~HasEnd(<<>>)
    BY DEF HasEnd
  <2>2. FrameInv'
    BY <1>1, <1>2, <1>6, <2>1, GivenFrames DEF Out, client, Undecided
  <2> QED BY <1>3, <1>4, <2>2 DEF Out
<1> QED BY <1>1, <1>5, <1>6

LEMMA TakeErrorOut ==
    ASSUME Out, TakeError
    PROVE  Out'
<1>1. /\ Asking /\ queue # <<>> /\ Error = Head(queue) /\ Taken /\ Live
      /\ UNCHANGED <<to, items, input, ended, ending, suppressed, passed, canceled, woken, client>>
      /\ \/ phase = "first" /\ Give(IF result = "none" THEN <<Failed>> ELSE <<>>) /\ Decide("failed")
         \/ Fail
  BY DEF TakeError, NextIs
<1>2. Head(queue).type # "start"
  BY <1>1, EventTypes
<1>3. ReadInv'
  BY <1>1, TakenKeeps DEF Out
<1>4. DataTypes'
  BY <1>1 DEF Out, DataTypes, client
<1>5. FrameInv'
  BY <1>1, <1>2, FailFrames, ErrorFrames DEF Out, client
<1> QED BY <1>3, <1>4, <1>5 DEF Out

(* The frames that close items. *)
LEMMA DoneTyped ==
    ASSUME items \in Seq(Items), NEW b \in Nat, b <= Len(Closing)
    PROVE  /\ DoneFrames(b) \in Seq(Frames) /\ Len(DoneFrames(b)) = b /\ DOMAIN DoneFrames(b) = 1..b
           /\ \A i \in 1..b : DoneFrames(b)[i] = Done(Closing[i].key) /\ Closing[i].key \in ItemKeys
           /\ ~HasEnd(DoneFrames(b))
<1>1. Closing \in Seq(Items) /\ Len(Closing) \in Nat /\ DOMAIN Closing = 1..Len(Closing)
  BY ClosingList
<1>2. \A i \in 1..b : Closing[i].key \in ItemKeys
  <2> SUFFICES ASSUME NEW i \in 1..b PROVE Closing[i].key \in ItemKeys
    OBVIOUS
  <2>1. i \in 1..Len(Closing)
    BY <1>1
  <2>2. Closing[i] \in Items
    BY <1>1, <2>1
  <2> QED BY <2>2 DEF Items
<1>3. \A i \in 1..b : Done(Closing[i].key) \in Frames /\ Done(Closing[i].key).type = "done"
  BY <1>2, PlainFrames
<1> DEFINE d == DoneFrames(b)
<1>4. d = [i \in 1..b |-> Done(Closing[i].key)]
  BY DEF DoneFrames
<1> HIDE DEF d
<1>5. d \in Seq(Frames) /\ Len(d) = b /\ DOMAIN d = 1..b /\ \A i \in 1..b : d[i] = Done(Closing[i].key)
  BY <1>3, <1>4
<1>6. ~HasEnd(d)
  BY <1>3, <1>5 DEF HasEnd
<1> QED BY <1>2, <1>5, <1>6 DEF d

LEMMA ConcludeForm ==
    ASSUME Conclude, items \in Seq(Items), to \in Clients, canceled \in BOOLEAN
    PROVE  \/ (canceled \/ result # "none") /\ Undecided /\ UNCHANGED <<pending, items, late, orderly>> /\ phase' = "tail"
           \/ ~canceled /\ result = "none" /\ to = "responses" /\ Fail /\ UNCHANGED items
           \/ /\ ~canceled /\ result = "none" /\ to = "responses" /\ ending # None /\ (Incomplete(ending) \/ ~Unfinished)
              /\ EndResponses /\ phase' = "tail" /\ UNCHANGED <<late, orderly>>
           \/ ~canceled /\ result = "none" /\ to # "responses" /\ EndOthers /\ phase' = "tail" /\ UNCHANGED <<late, orderly>>
BY Zenon DEF Conclude

(* The three ways an output that is not over is concluded. *)
LEMMA EndForm ==
    ASSUME items \in Seq(Items),
           \/ to = "responses" /\ EndResponses
           \/ to # "responses" /\ EndOthers
    PROVE  \E ds \in Seq(Frames), st \in {"completed", "incomplete", "failed"} :
              ~HasEnd(ds) /\ pending' = Append(ds, Terminal(st)) /\ Decide(st) /\ items' \in Seq(Items)
<1>1. Len(Closing) \in Nat /\ DOMAIN Closing = 1..Len(Closing)
  BY ClosingList
<1>2. Outcome(ending) \in {"completed", "incomplete", "failed"}
  BY DEF Outcome
<1>3. CASE to = "responses"
  <2>1. CASE /\ pending' = Append(DoneFrames(Len(Closing)), Terminal(Outcome(ending)))
             /\ Close(Keys(Len(Closing))) /\ Decide(Outcome(ending))
    <3>1. DoneFrames(Len(Closing)) \in Seq(Frames) /\ ~HasEnd(DoneFrames(Len(Closing)))
      BY <1>1, DoneTyped
    <3>2. items' \in Seq(Items)
      BY <2>1, CloseTyped
    <3> QED BY <1>2, <2>1, <3>1, <3>2
  <2>2. ASSUME NEW b \in DOMAIN Closing, pending' = Append(DoneFrames(b - 1), Failed), Close(Keys(b - 1)), Decide("failed")
        PROVE  \E ds \in Seq(Frames), st \in {"completed", "incomplete", "failed"} :
                 ~HasEnd(ds) /\ pending' = Append(ds, Terminal(st)) /\ Decide(st) /\ items' \in Seq(Items)
    <3>1. b - 1 \in Nat /\ b - 1 <= Len(Closing)
      BY <1>1
    <3>2. DoneFrames(b - 1) \in Seq(Frames) /\ ~HasEnd(DoneFrames(b - 1))
      BY <3>1, DoneTyped
    <3>3. items' \in Seq(Items)
      BY <2>2, CloseTyped
    <3>4. pending' = Append(DoneFrames(b - 1), Terminal("failed"))
      BY <2>2 DEF Failed
    <3> QED BY <2>2, <3>2, <3>3, <3>4
  <2> QED BY <1>3, <2>1, <2>2 DEF EndResponses
<1>4. CASE to # "responses"
  <2>1. CASE to = "anthropic"
    <3>1. DoneFrames(Len(Closing)) \in Seq(Frames) /\ ~HasEnd(DoneFrames(Len(Closing)))
      BY <1>1, DoneTyped
    <3>2. items' \in Seq(Items) /\ pending' = Append(DoneFrames(Len(Closing)), Terminal(Outcome(ending))) /\ Decide(Outcome(ending))
      BY <1>4, <2>1, CloseTyped DEF EndOthers
    <3> QED BY <1>2, <3>1, <3>2
  <2>2. CASE to # "anthropic"
    <3>1. pending' = <<Terminal(Outcome(ending))>> /\ Decide(Outcome(ending)) /\ items' = items
      BY <1>4, <2>2 DEF EndOthers
    <3>2. <<>> \in Seq(Frames) /\ ~HasEnd(<<>>)
      BY DEF HasEnd
    <3>3. <<Terminal(Outcome(ending))>> = Append(<<>>, Terminal(Outcome(ending)))
      OBVIOUS
    <3> QED BY <1>2, <3>1, <3>2, <3>3
  <2> QED BY <2>1, <2>2
<1> QED BY <1>3, <1>4

LEMMA SourceEndsOut ==
    ASSUME Out, SourceEnds
    PROVE  Out'
<1>1. /\ Asking /\ phase = "looping" /\ Conclude
      /\ UNCHANGED <<parser, to, input, ended, ending, suppressed, passed, canceled, woken, client>>
  BY DEF SourceEnds
<1>2. ReadInv'
  BY <1>1, ReadSame DEF Out
<1>3. items \in Seq(Items) /\ to \in Clients /\ canceled \in BOOLEAN
  BY DEF Out, DataTypes, FrameInv, FrameTypes
<1>4. FrameInv' /\ items' \in Seq(Items)
  <2>1. CASE (canceled \/ result # "none") /\ Undecided /\ UNCHANGED <<pending, items, late, orderly>> /\ phase' = "tail"
    BY <1>1, <1>3, <2>1, TailFrames DEF Out, client, Undecided
  <2>2. CASE Fail /\ UNCHANGED items
    BY <1>1, <1>3, <2>2, FailFrames DEF Out, client
  <2>3. CASE /\ ~canceled /\ result = "none" /\ phase' = "tail" /\ UNCHANGED <<late, orderly>>
             /\ \/ to = "responses" /\ EndResponses
                \/ to # "responses" /\ EndOthers
    <3>1. PICK ds \in Seq(Frames), st \in {"completed", "incomplete", "failed"} :
              ~HasEnd(ds) /\ pending' = Append(ds, Terminal(st)) /\ Decide(st) /\ items' \in Seq(Items)
      BY <1>3, <2>3, EndForm
    <3> QED BY <1>1, <2>3, <3>1, ClosedFrames DEF Out, client
  <2> QED BY <1>1, <1>3, <2>1, <2>2, <2>3, ConcludeForm
<1>5. DataTypes'
  BY <1>1, <1>4 DEF Out, DataTypes, client
<1> QED BY <1>2, <1>4, <1>5 DEF Out

LEMMA SourceThrowsOut ==
    ASSUME Out, SourceThrows
    PROVE  Out'
<1>1. /\ Asking /\ Fail
      /\ UNCHANGED <<parser, to, items, input, ended, ending, suppressed, passed, canceled, woken, client>>
  BY DEF SourceThrows
<1>2. ReadInv' /\ FrameInv'
  BY <1>1, ReadSame, FailFrames DEF Out, client
<1>3. DataTypes'
  BY <1>1 DEF Out, DataTypes, client
<1> QED BY <1>2, <1>3 DEF Out

LEMMA BeginOut ==
    ASSUME Out, Begin
    PROVE  Out'
<1>1. UNCHANGED <<parser, to, late, items, input, ended, ending, result, suppressed, passed,
                   canceled, final, woken, client>>
  BY DEF Begin
<1>2. ReadInv' /\ FrameInv'
  BY <1>1, ReadSame, BeginFrames DEF Out
<1>3. DataTypes'
  BY <1>1 DEF Out, DataTypes, client
<1> QED BY <1>2, <1>3 DEF Out

LEMMA ParseOut ==
    ASSUME Out, Parse
    PROVE  Out'
<1>1. Read /\ UNCHANGED <<to, phase, shell, suppressed, passed, canceled, final, woken, orderly, client>>
  BY DEF Parse
<1>2. ReadInv'
  BY <1>1, ReadGives DEF Gave, Out
<1>3. FrameInv'
  BY <1>1, FrameSame DEF Out, FrameState, shell, client
<1>4. DataTypes'
  BY <1>1 DEF Out, DataTypes, shell, client
<1> QED BY <1>2, <1>3, <1>4 DEF Out

LEMMA FinishOut ==
    ASSUME Out, Finish
    PROVE  Out'
<1>1. UNCHANGED <<parser, to, pending, items, input, ended, ending, result, suppressed, passed,
                   canceled, orderly, created, added, done, got>> /\ woken' = TRUE
  BY DEF Finish
<1>2. ReadInv' /\ FrameInv'
  BY <1>1, ReadSame, FinishFrames DEF Out
<1>3. DataTypes'
  BY <1>1 DEF Out, DataTypes
<1> QED BY <1>2, <1>3 DEF Out

LEMMA StopOut ==
    ASSUME Out, Abort \/ Cancel
    PROVE  Out'
<1>1. /\ HandleAbort /\ woken' = TRUE
      /\ UNCHANGED <<parser, to, pending, items, input, ended, ending, suppressed, passed, orderly,
                     created, status, added, done, got>>
      /\ \/ UNCHANGED <<phase, body>>
         \/ body = "open" /\ body' = "canceled" /\ phase' = "over"
  BY DEF Abort, Cancel, client
<1>2. ReadInv' /\ FrameInv'
  BY <1>1, ReadSame, AbortFrames DEF Out
<1>3. DataTypes'
  BY <1>1 DEF Out, DataTypes
<1> QED BY <1>2, <1>3 DEF Out

LEMMA PullOut ==
    ASSUME Out, Pull
    PROVE  Out'
<1>1. UNCHANGED <<parser, to, phase, late, items, input, ended, ending, result, suppressed, passed,
                   canceled, final, woken, orderly>>
  BY DEF Pull
<1>2. ReadInv' /\ FrameInv'
  BY <1>1, ReadSame, PullFrames DEF Out
<1>3. got' \in [Calls -> Pieces]
  <2> DEFINE f == Head(pending)
             cs == IF to = "gemini" /\ f.type = "terminal" /\ f.status # "failed"
                   THEN {c \in Calls : \E i \in DOMAIN items : items[i] = [key |-> c, open |-> FALSE]} ELSE {}
  <2>1. got' = IF f.type = "input" THEN [got EXCEPT ![f.key] = @ \o f.pieces]
               ELSE [c \in Calls |-> IF c \in cs \/ (f.type = "done" /\ f.key = c) THEN input[c] ELSE got[c]]
    BY DEF Pull
  <2>2. f \in Frames
    BY PulledFrame DEF Out
  <2> HIDE DEF f, cs
  <2>3. got \in [Calls -> Pieces] /\ input \in [Calls -> Pieces]
    BY DEF Out, DataTypes
  <2>4. CASE f.type = "input"
    <3>1. f.key \in Calls /\ f.pieces \in Pieces
      BY <2>2, <2>4, FrameFields
    <3>2. got[f.key] \o f.pieces \in Pieces
      BY <2>3, <3>1 DEF Pieces
    <3> QED BY <2>1, <2>3, <2>4, <3>1, <3>2
  <2>5. CASE f.type # "input"
    BY <2>1, <2>3, <2>5
  <2> QED BY <2>4, <2>5
<1>4. DataTypes'
  BY <1>1, <1>3 DEF Out, DataTypes
<1> QED BY <1>2, <1>4 DEF Out

LEMMA InitOut == Init => Out
<1> SUFFICES ASSUME Init PROVE Out
  OBVIOUS
<1>1. /\ from \in Protocols /\ json \in BOOLEAN /\ reader = "reading" /\ started = FALSE /\ stop = None /\ blocks = FALSE
      /\ call = [c \in Calls |-> NoCall] /\ order = <<>> /\ queue = <<>> /\ texts = 0 /\ said = {}
  BY DEF Init, ParserInit
<1>2. NoCall \in CallType /\ NoCall.state = "none" /\ CallOK(NoCall) /\ NoCall.native = FALSE
  BY DEF NoCall, CallType, Tools, CallOK
<1>3. \A c \in Calls : call[c] = NoCall
  BY <1>1
<1>4. ParserTypes
  <2>1. call \in [Calls -> CallType]
    BY <1>1, <1>2
  <2>2. 0 \in 0..MaxTexts
    BY StreamAssumption DEF StreamAssumption
  <2>3. order \in Seq(Calls) /\ queue \in Seq(Events)
    BY <1>1
  <2> QED BY <1>1, <2>1, <2>2, <2>3 DEF ParserTypes, Readers
<1>5. DOMAIN queue = {} /\ DOMAIN order = {}
  BY <1>1
<1>6. ReadInv
  <2>1. Ends(queue, reader) /\ OfCalls(queue, call)
    BY <1>1, <1>5 DEF Ends, OfCalls
  <2>2. Listed(call, order)
    BY <1>2, <1>3, <1>5 DEF Listed
  <2>3. OpenCalls = {}
    BY <1>2, <1>3 DEF OpenCalls, Open
  <2> QED BY <1>1, <1>2, <1>3, <1>4, <1>5, <2>1, <2>2, <2>3 DEF ReadInv
<1>7. DataTypes
  <2>1. \A S : <<>> \in Seq(S)
    OBVIOUS
  <2>2. [c \in Calls |-> <<>>] \in [Calls -> Pieces]
    BY <2>1 DEF Pieces
  <2> QED BY <2>1, <2>2 DEF Init, DataTypes
<1>8. FrameInv
  <2>1. DOMAIN pending = {} /\ pending = <<>> /\ pending \in Seq(Frames)
    BY DEF Init
  <2>2. FrameTypes
    BY <2>1 DEF Init, FrameTypes, Phases, Statuses
  <2>3. Phased /\ StartsFirst /\ EndsOnce
    BY <2>1 DEF Init, Phased, StartsFirst, EndsOnce, HasEnd, EndIsLast
  <2>4. FinalInv /\ EndKnown
    BY <2>1 DEF Init, FinalInv, EndKnown, HasEnd, Good
  <2> QED BY <2>2, <2>3, <2>4 DEF FrameInv
<1> QED BY <1>6, <1>7, <1>8 DEF Out

LEMMA StutterOut ==
    ASSUME Out, UNCHANGED vars
    PROVE  Out'
<1>1. UNCHANGED parser /\ UNCHANGED FrameState /\ UNCHANGED <<suppressed, passed, items, input, ended, ending, woken, got>>
  BY DEF vars, shell, client, FrameState
<1>2. ReadInv' /\ FrameInv'
  BY <1>1, ReadSame, FrameSame DEF Out
<1>3. DataTypes'
  BY <1>1 DEF Out, DataTypes
<1> QED BY <1>2, <1>3 DEF Out

(* Every step keeps the parser and the frames in order.                    *)
LEMMA NextOut ==
    ASSUME Out, Next
    PROVE  Out'
<1>1. ASSUME NEW c \in Calls, TakeCall(c) \/ TakeCallEnd(c) \/ TakeContent(CallStart(c), "text")
                             \/ TakeArgs(c, Head(queue).pieces)
      PROVE  Out'
  <2>1. ASSUME TakeContent(CallStart(c), "text") PROVE Out'
    BY <2>1, TakeContentOut
  <2> QED BY <1>1, <2>1, TakeCallOut, TakeCallEndOut, TakeArgsOut
<1>2. ASSUME NEW what \in Contents, TakeContent(Content(what), what) PROVE Out'
  BY <1>2, TakeContentOut
<1>3. ASSUME NEW reason \in AllReasons, TakeEnd(reason) PROVE Out'
  BY <1>3, TakeEndOut
<1>4. ASSUME Take PROVE Out'
  BY <1>1, <1>2, <1>3, <1>4, SkipOut, TakeCanceledOut, TakeStartOut, TakeErrorOut DEF Take
<1>5. ASSUME Generate PROVE Out'
  BY <1>4, <1>5, BeginOut, SourceEndsOut, SourceThrowsOut, FinishOut DEF Generate
<1> QED BY <1>5, ParseOut, PullOut, StopOut DEF Next

(* Whatever the provider sends and whenever the client aborts or leaves,   *)
(* the parser gives its events in order and a terminal frame is the last   *)
(* and the result that was decided.                                        *)
THEOREM OutAlways == Spec => []Out
<1>1. Out /\ [Next]_vars => Out'
  BY NextOut, StutterOut
<1> QED BY <1>1, InitOut, PTL DEF Spec

(* The final promise agrees with what the client was told.                 *)
LEMMA FinalFollows == FrameInv => FinalAgrees
<1> SUFFICES ASSUME FrameInv PROVE FinalAgrees
  OBVIOUS
<1>1. FrameTypes /\ FinalInv /\ EndKnown
  BY DEF FrameInv
<1>2. body # "open" /\ to # "gemini" => final # "pending"
  BY <1>1 DEF FrameTypes, FinalInv
<1>3. ASSUME body = "closed", final \in {"completed", "incomplete"} PROVE status = final
  <2>1. final = result
    BY <1>1, <1>3 DEF FinalInv
  <2>2. status = result \/ (status = "none" /\ pending # <<>>)
    BY <1>1, <1>3, <2>1 DEF EndKnown, Good
  <2>3. pending = <<>> \/ status = "failed"
    BY <1>1, <1>3 DEF FinalInv
  <2> QED BY <1>3, <2>1, <2>2, <2>3
<1>4. ASSUME body = "closed", status = "completed", ~canceled PROVE final = "completed"
  <2>1. result = "completed"
    BY <1>1, <1>4 DEF EndKnown, Good
  <2>2. phase = "over" /\ final # "pending"
    BY <1>1, <1>4 DEF FinalInv
  <2> QED BY <1>1, <1>4, <2>1, <2>2 DEF FinalInv
<1> QED BY <1>2, <1>3, <1>4 DEF FinalAgrees

(* What the client saw changes only when it reads, or with the end. *)
LEMMA OrderlyStays ==
    ASSUME (\E fs : Give(fs)) \/ Fail \/ Conclude \/ orderly' = orderly
    PROVE  orderly' => orderly
<1>1. ASSUME NEW fs, Give(fs) PROVE orderly' => orderly
  BY <1>1 DEF Give
<1>2. Fail => (orderly' => orderly)
  BY DEF Fail
<1>3. Conclude => Fail \/ orderly' = orderly
  BY Zenon DEF Conclude
<1> QED BY <1>1, <1>2, <1>3

LEMMA OnlyPulled ==
    ASSUME Next
    PROVE  /\ to' = to
           /\ orderly' => orderly
           /\ UNCHANGED <<created, added, done, got>> \/ pending # <<>>
           /\ status # "none" => UNCHANGED <<status>> \/ pending # <<>>
<1> DEFINE G == /\ to' = to
                /\ orderly' => orderly
                /\ UNCHANGED <<created, added, done, got>> \/ pending # <<>>
                /\ status # "none" => UNCHANGED <<status>> \/ pending # <<>>
           H == (\E fs : Give(fs)) \/ Fail \/ Conclude \/ orderly' = orderly
<1>1. ASSUME Skip \/ TakeCanceled \/ TakeStart \/ TakeError PROVE G
  <2>1. H
    BY <1>1 DEF Skip, TakeCanceled, TakeStart, TakeError
  <2>2. orderly' => orderly
    BY <2>1, OrderlyStays
  <2> QED BY <1>1, <2>2 DEF Skip, TakeCanceled, TakeStart, TakeError, client
<1>2. ASSUME NEW c \in Calls, NEW ps, TakeCall(c) \/ TakeCallEnd(c) \/ TakeArgs(c, ps) PROVE G
  <2>1. H
    BY <1>2 DEF TakeCall, TakeCallEnd, TakeArgs, EndItem
  <2>2. orderly' => orderly
    BY <2>1, OrderlyStays
  <2> QED BY <1>2, <2>2 DEF TakeCall, TakeCallEnd, TakeArgs, client
<1>3. ASSUME NEW e, NEW w, TakeContent(e, w) PROVE G
  <2>1. H
    BY <1>3 DEF TakeContent
  <2>2. orderly' => orderly
    BY <2>1, OrderlyStays
  <2> QED BY <1>3, <2>2 DEF TakeContent, client
<1>4. ASSUME NEW r, TakeEnd(r) PROVE G
  <2>1. H
    BY <1>4 DEF TakeEnd
  <2>2. orderly' => orderly
    BY <2>1, OrderlyStays
  <2> QED BY <1>4, <2>2 DEF TakeEnd, client
<1>5. ASSUME Begin \/ SourceEnds \/ SourceThrows PROVE G
  <2>1. H \/ (orderly' => orderly)
    BY <1>5 DEF Begin, SourceEnds, SourceThrows
  <2>2. orderly' => orderly
    BY <2>1, OrderlyStays
  <2> QED BY <1>5, <2>2 DEF Begin, SourceEnds, SourceThrows, client
<1>6. ASSUME Finish \/ Parse \/ Pull \/ Abort \/ Cancel PROVE G
  <2>1. orderly' = orderly
    BY <1>6 DEF Finish, Parse, Pull, Abort, Cancel
  <2>2. orderly' => orderly
    BY <2>1
  <2> QED BY <1>6, <2>2 DEF Finish, Parse, Pull, Abort, Cancel, client
<1> HIDE DEF G
<1>7. ASSUME Take PROVE G
  BY <1>1, <1>2, <1>3, <1>4, <1>7 DEF Take
<1>8. G
  BY <1>5, <1>6, <1>7 DEF Next, Generate
<1> QED BY <1>8 DEF G

(* An orderly output starts, shows, ends; nothing follows.                 *)
LEMMA OrderStep ==
    ASSUME Out, Out', Next, orderly', to # "gemini"
    PROVE  /\ (added' # {} \/ status' # "none") => created'
           /\ status # "none" => UNCHANGED <<created, status, added, done, got>>
<1>1. to' = to
  BY OnlyPulled
<1>2. (added' # {} \/ status' # "none") => created'
  BY <1>1 DEF Out, FrameInv, StartsFirst
<1>3. ASSUME status # "none" PROVE UNCHANGED <<created, status, added, done, got>>
  <2>1. orderly
    BY OnlyPulled
  <2>2. pending = <<>>
    BY <1>3, <2>1 DEF Out, FrameInv, EndsOnce
  <2> QED BY <1>3, <2>2, OnlyPulled
<1> QED BY <1>2, <1>3

(* A stream that began with the start of the message is well formed for    *)
(* the client: nothing before its start, nothing after its terminal (the   *)
(* generators of output.ts).                                               *)
THEOREM StreamIsOrdered == Spec => StreamOrder
<1>1. Out /\ Out' /\ [Next]_vars =>
        [orderly' /\ to # "gemini" =>
           /\ (added' # {} \/ status' # "none") => created'
           /\ status # "none" => UNCHANGED <<created, status, added, done, got>>]_vars
  BY OrderStep
<1> QED BY <1>1, OutAlways, PTL DEF Spec, StreamOrder

-----------------------------------------------------------------------------
(* The items of an output.                                                 *)

(* The items of an output, by their keys. *)
Holds(its, k)   == \E i \in DOMAIN its : its[i].key = k
Shut(its, k)    == \A i \in DOMAIN its : its[i].key = k => ~its[i].open
AnyShut(its, k) == \E i \in DOMAIN its : its[i].key = k /\ ~its[i].open

(* The frames about a key. *)
Has(q, t, k) == \E j \in DOMAIN q : q[j].type = t /\ q[j].key = k
Lone(q)      == \A j, k \in DOMAIN q : q[j].type = "input" => q[k].type # "done" /\ (q[k].type = "input" => j = k)
OneInput(q, c, g, i) == \E j \in DOMAIN q : q[j].type = "input" /\ q[j].key = c /\ i = g \o q[j].pieces

Bare == {"created", "delta", "terminal"}
Plain(q) == \A j \in DOMAIN q : q[j].type \in Bare

(* q gives the frames fs, and beside them only what the shell adds. *)
GivenAs(q, fs) ==
    \E o \in {0, 1} :
       /\ \A j \in DOMAIN fs : o + j \in DOMAIN q /\ q[o + j] = fs[j]
       /\ \A j \in DOMAIN q : q[j].type \in Bare \/ (j - o \in DOMAIN fs /\ q[j] = fs[j - o])

(* An item more, and items closed.                                         *)
LEMMA ItemAdded ==
    ASSUME items \in Seq(Items), NEW k \in ItemKeys, AddItem(k)
    PROVE  \A x : /\ Holds(items', x) <=> Holds(items, x) \/ x = k
                  /\ Shut(items', x) <=> Shut(items, x) /\ x # k
                  /\ AnyShut(items', x) <=> AnyShut(items, x)
<1> DEFINE n == [key |-> k, open |-> TRUE]
<1>1. n \in Items /\ n.key = k /\ n.open = TRUE
  BY DEF Items
<1>2. items' = Append(items, n)
  BY DEF AddItem
<1> HIDE DEF n
<1>3. /\ Append(items, n) \in Seq(Items) /\ Len(Append(items, n)) = Len(items) + 1
      /\ DOMAIN items = 1..Len(items) /\ DOMAIN Append(items, n) = 1..(Len(items) + 1) /\ Len(items) \in Nat
      /\ \A j \in DOMAIN items : j \in DOMAIN Append(items, n) /\ Append(items, n)[j] = items[j]
      /\ Len(items) + 1 \in DOMAIN Append(items, n) /\ Append(items, n)[Len(items) + 1] = n
  BY <1>1, Appended
<1>4. /\ \A j \in DOMAIN items : j \in DOMAIN items' /\ items'[j] = items[j]
      /\ \E j \in DOMAIN items' : items'[j] = n
      /\ \A j \in DOMAIN items' : items'[j] = n \/ (j \in DOMAIN items /\ items'[j] = items[j])
  <2>1. \A j \in DOMAIN items' : j = Len(items) + 1 \/ j \in DOMAIN items
    BY <1>2, <1>3
  <2> QED BY <1>2, <1>3, <2>1
<1> SUFFICES ASSUME NEW x
             PROVE  /\ Holds(items', x) <=> Holds(items, x) \/ x = k
                    /\ Shut(items', x) <=> Shut(items, x) /\ x # k
                    /\ AnyShut(items', x) <=> AnyShut(items, x)
  OBVIOUS
<1>5. Holds(items', x) <=> Holds(items, x) \/ x = k
  BY <1>1, <1>4 DEF Holds
<1>6. Shut(items', x) <=> Shut(items, x) /\ x # k
  BY <1>1, <1>4 DEF Shut
<1>7. AnyShut(items', x) <=> AnyShut(items, x)
  BY <1>1, <1>4 DEF AnyShut
<1> QED BY <1>5, <1>6, <1>7

LEMMA ItemClosed ==
    ASSUME items \in Seq(Items), NEW ks, Close(ks)
    PROVE  \A x : /\ Holds(items', x) <=> Holds(items, x)
                  /\ Shut(items', x) <=> Shut(items, x) \/ x \in ks
                  /\ AnyShut(items', x) <=> AnyShut(items, x) \/ (x \in ks /\ Holds(items, x))
<1>1. DOMAIN items' = DOMAIN items /\ \A i \in DOMAIN items :
        items'[i] = IF items[i].key \in ks THEN [items[i] EXCEPT !.open = FALSE] ELSE items[i]
  BY DEF Close
<1>2. \A i \in DOMAIN items : items[i] \in Items
  OBVIOUS
<1>3. \A i \in Items : [i EXCEPT !.open = FALSE].key = i.key /\ [i EXCEPT !.open = FALSE].open = FALSE /\ i.open \in BOOLEAN
  BY DEF Items
<1>4. \A i \in DOMAIN items : items'[i].key = items[i].key /\ (~items'[i].open <=> ~items[i].open \/ items[i].key \in ks)
  <2> SUFFICES ASSUME NEW i \in DOMAIN items
               PROVE items'[i].key = items[i].key /\ (~items'[i].open <=> ~items[i].open \/ items[i].key \in ks)
    OBVIOUS
  <2>1. CASE items[i].key \in ks
    <3>1. items'[i] = [items[i] EXCEPT !.open = FALSE]
      BY <1>1, <2>1
    <3>2. items'[i].key = items[i].key /\ items'[i].open = FALSE
      BY <1>2, <1>3, <3>1
    <3> QED BY <2>1, <3>2
  <2>2. CASE items[i].key \notin ks
    BY <1>1, <2>2
  <2> QED BY <2>1, <2>2
<1> SUFFICES ASSUME NEW x
             PROVE  /\ Holds(items', x) <=> Holds(items, x)
                    /\ Shut(items', x) <=> Shut(items, x) \/ x \in ks
                    /\ AnyShut(items', x) <=> AnyShut(items, x) \/ (x \in ks /\ Holds(items, x))
  OBVIOUS
<1>5. Holds(items', x) <=> Holds(items, x)
  BY <1>1, <1>4 DEF Holds
<1>6. Shut(items', x) <=> Shut(items, x) \/ x \in ks
  BY <1>1, <1>4 DEF Shut
<1>7. AnyShut(items', x) <=> AnyShut(items, x) \/ (x \in ks /\ Holds(items, x))
  BY <1>1, <1>4 DEF AnyShut, Holds
<1> QED BY <1>5, <1>6, <1>7

LEMMA ShutThere ==
    ASSUME NEW its, NEW k
    PROVE  /\ Holds(its, k) /\ Shut(its, k) => AnyShut(its, k)
           /\ AnyShut(its, k) => Holds(its, k)
BY DEF Holds, Shut, AnyShut

-----------------------------------------------------------------------------
(* What Give makes of frames.                                              *)
LEMMA GiveAs ==
    ASSUME FrameInv, Asking, NEW fs \in Seq(Frames), Give(fs)
    PROVE  GivenAs(pending', fs)
<1>1. phase \in {"first", "looping"} /\ late \in BOOLEAN
  BY DEF Asking, FrameInv, FrameTypes
<1>2. CASE phase = "looping"
  <2>1. pending' = fs
    BY <1>2 DEF Give
  <2>2. \A j \in DOMAIN fs : 0 + j \in DOMAIN fs /\ fs[0 + j] = fs[j] /\ j - 0 \in DOMAIN fs /\ fs[j] = fs[j - 0]
    <3>1. DOMAIN fs = 1..Len(fs) /\ Len(fs) \in Nat
      OBVIOUS
    <3>2. \A j \in 1..Len(fs) : 0 + j = j /\ j - 0 = j
      BY <3>1
    <3> QED BY <3>1, <3>2
  <2> QED BY <2>1, <2>2 DEF GivenAs
<1>3. CASE phase = "first"
  <2> DEFINE a == IF late THEN <<Failed>> ELSE <<>>
             d == <<Created>>
             g == a \o fs
             q == g \o d
             o == Len(a)
  <2>1. pending' = q
    BY <1>3 DEF Give
  <2>2. a \in Seq(Frames) /\ o \in {0, 1} /\ (\A j \in DOMAIN a : a[j].type \in Bare)
        /\ d \in Seq(Frames) /\ (\A j \in DOMAIN d : d[j].type \in Bare)
    <3>1. Failed.type \in Bare /\ Created.type \in Bare
      BY DEF Failed, Created, Terminal, Bare
    <3>2. Failed \in Frames /\ Created \in Frames
      BY FrameKinds
    <3>3. d \in Seq(Frames) /\ (\A j \in DOMAIN d : d[j].type \in Bare)
      BY <3>1, <3>2, OneFrame
    <3>4. CASE late
      BY <3>1, <3>2, <3>3, <3>4, OneFrame
    <3>5. CASE ~late
      BY <3>1, <3>2, <3>3, <3>5, OneFrame
    <3> QED BY <3>3, <3>4, <3>5
  <2> HIDE DEF a, d
  <2>3. /\ a \o fs \in Seq(Frames) /\ Len(a \o fs) = Len(a) + Len(fs) /\ Len(a) \in Nat /\ Len(fs) \in Nat
        /\ DOMAIN a = 1..Len(a) /\ DOMAIN fs = 1..Len(fs) /\ DOMAIN (a \o fs) = 1..(Len(a) + Len(fs))
        /\ \A j \in 1..Len(a) : (a \o fs)[j] = a[j]
        /\ \A j \in 1..Len(fs) : (a \o fs)[Len(a) + j] = fs[j]
    BY <2>2, Joined
  <2>4. /\ g \in Seq(Frames) /\ Len(g) = o + Len(fs) /\ o \in Nat /\ Len(fs) \in Nat
        /\ DOMAIN a = 1..o /\ DOMAIN fs = 1..Len(fs)
        /\ \A j \in 1..o : g[j] = a[j]
        /\ \A j \in 1..Len(fs) : g[o + j] = fs[j]
    BY <2>3
  <2> HIDE DEF g
  <2>5. /\ g \o d \in Seq(Frames) /\ Len(g \o d) = Len(g) + Len(d) /\ Len(g) \in Nat /\ Len(d) \in Nat
        /\ DOMAIN g = 1..Len(g) /\ DOMAIN d = 1..Len(d) /\ DOMAIN (g \o d) = 1..(Len(g) + Len(d))
        /\ \A j \in 1..Len(g) : (g \o d)[j] = g[j]
        /\ \A j \in 1..Len(d) : (g \o d)[Len(g) + j] = d[j]
    <3>1. g \in Seq(Frames) /\ d \in Seq(Frames)
      BY <2>2, <2>4
    <3> QED BY ONLY <3>1, Joined
  <2>6. /\ DOMAIN q = 1..(Len(g) + Len(d)) /\ \A j \in 1..Len(g) : q[j] = g[j]
        /\ \A j \in 1..Len(d) : q[Len(g) + j] = d[j]
    BY <2>5
  <2> HIDE DEF q, o
  <2>7. \A j \in DOMAIN fs : o + j \in DOMAIN q /\ q[o + j] = fs[j]
    <3> SUFFICES ASSUME NEW j \in DOMAIN fs PROVE o + j \in DOMAIN q /\ q[o + j] = fs[j]
      OBVIOUS
    <3>1. j \in 1..Len(fs) /\ o + j \in 1..Len(g) /\ o + j \in 1..(Len(g) + Len(d))
      BY <2>4, <2>5
    <3>2. q[o + j] = g[o + j] /\ g[o + j] = fs[j]
      BY <2>4, <2>6, <3>1
    <3> QED BY <2>6, <3>1, <3>2
  <2>8. ASSUME NEW j \in DOMAIN q PROVE q[j].type \in Bare \/ (j - o \in DOMAIN fs /\ q[j] = fs[j - o])
    <3>1. j \in 1..(Len(g) + Len(d)) /\ j \in Int
      BY <2>6
    <3>2. CASE j <= o
      <4>1. j \in 1..o /\ j \in 1..Len(g) /\ j \in DOMAIN a
        BY <2>4, <3>1, <3>2
      <4>2. q[j] = a[j]
        BY <2>4, <2>6, <4>1
      <4> QED BY <2>2, <4>1, <4>2
    <3>3. CASE j > o /\ j <= Len(g)
      <4> DEFINE i == j - o
      <4>1. i \in 1..Len(fs) /\ o + i = j /\ j \in 1..Len(g)
        BY <2>4, <3>1, <3>3
      <4> HIDE DEF i
      <4>2. g[o + i] = fs[i] /\ q[j] = g[j]
        BY <2>4, <2>6, <4>1
      <4> QED BY <2>4, <4>1, <4>2 DEF i
    <3>4. CASE j > Len(g)
      <4> DEFINE i == j - Len(g)
      <4>1. i \in 1..Len(d) /\ Len(g) + i = j
        BY <2>5, <3>1, <3>4
      <4> HIDE DEF i
      <4>2. q[j] = d[i] /\ i \in DOMAIN d
        BY <2>5, <2>6, <4>1
      <4> QED BY <2>2, <4>2
    <3> QED BY <2>4, <3>1, <3>2, <3>3, <3>4
  <2>9. o \in {0, 1}
    BY <2>2 DEF o
  <2> QED BY <2>1, <2>7, <2>8, <2>9 DEF GivenAs
<1> QED BY <1>1, <1>2, <1>3

LEMMA HasAs ==
    ASSUME NEW q \in Seq(Frames), NEW fs \in Seq(Frames), GivenAs(q, fs)
    PROVE  /\ \A t \in {"added", "done", "input"} : \A k : Has(q, t, k) <=> Has(fs, t, k)
           /\ Lone(fs) => Lone(q)
           /\ \A c, g, i : OneInput(fs, c, g, i) => OneInput(q, c, g, i)
<1>1. PICK o \in {0, 1} :
       /\ \A j \in DOMAIN fs : o + j \in DOMAIN q /\ q[o + j] = fs[j]
       /\ \A j \in DOMAIN q : q[j].type \in Bare \/ (j - o \in DOMAIN fs /\ q[j] = fs[j - o])
  BY DEF GivenAs
<1>2. \A t \in {"added", "done", "input"} : t \notin Bare
  BY DEF Bare
<1>3. ASSUME NEW t \in {"added", "done", "input"}, NEW k PROVE Has(q, t, k) <=> Has(fs, t, k)
  <2>1. Has(fs, t, k) => Has(q, t, k)
    BY <1>1 DEF Has
  <2>2. ASSUME NEW j \in DOMAIN q, q[j].type = t, q[j].key = k PROVE Has(fs, t, k)
    <3>1. j - o \in DOMAIN fs /\ q[j] = fs[j - o]
      BY <1>1, <1>2, <2>2
    <3> QED BY <2>2, <3>1 DEF Has
  <2> QED BY <2>1, <2>2 DEF Has
<1>4. ASSUME Lone(fs) PROVE Lone(q)
  <2> SUFFICES ASSUME NEW j \in DOMAIN q, NEW k \in DOMAIN q, q[j].type = "input"
               PROVE  q[k].type # "done" /\ (q[k].type = "input" => j = k)
    BY DEF Lone
  <2>1. j - o \in DOMAIN fs /\ q[j] = fs[j - o] /\ j \in Int /\ k \in Int
    BY <1>1, <1>2
  <2>2. ASSUME q[k].type \in {"done", "input"}
        PROVE  k - o \in DOMAIN fs /\ q[k] = fs[k - o]
    BY <1>1, <1>2, <2>2
  <2>3. ASSUME q[k].type = "done" PROVE FALSE
    <3>1. fs[k - o].type = "done" /\ k - o \in DOMAIN fs /\ fs[j - o].type = "input"
      BY <2>1, <2>2, <2>3
    <3> QED BY <1>4, <2>1, <3>1 DEF Lone
  <2>4. ASSUME q[k].type = "input" PROVE j = k
    <3>1. fs[k - o].type = "input" /\ k - o \in DOMAIN fs /\ fs[j - o].type = "input"
      BY <2>1, <2>2, <2>4
    <3>2. j - o = k - o
      BY <1>4, <2>1, <3>1 DEF Lone
    <3> QED BY <2>1, <3>2
  <2> QED BY <2>3, <2>4
<1>5. ASSUME NEW c, NEW g, NEW i, OneInput(fs, c, g, i) PROVE OneInput(q, c, g, i)
  <2>1. PICK j \in DOMAIN fs : fs[j].type = "input" /\ fs[j].key = c /\ i = g \o fs[j].pieces
    BY <1>5 DEF OneInput
  <2>2. o + j \in DOMAIN q /\ q[o + j] = fs[j]
    BY <1>1
  <2> DEFINE x == o + j
  <2>3. x \in DOMAIN q /\ q[x].type = "input" /\ q[x].key = c /\ i = g \o q[x].pieces
    BY <2>1, <2>2
  <2> HIDE DEF x
  <2> QED BY <2>3 DEF OneInput
<1> QED BY <1>3, <1>4, <1>5

(* The frames of one event. *)
LEMMA FewFrames ==
    /\ \A t, k : ~Has(<<>>, t, k)
    /\ Lone(<<>>)
    /\ \A x \in Frames : x.type \in {"added", "done", "input"} => /\ \A t, k : Has(<<x>>, t, k) <=> x.type = t /\ x.key = k
                                                                /\ Lone(<<x>>)
    /\ \A x \in Frames : x.type \in Bare => \A t \in {"added", "done", "input"} : \A k : ~Has(<<x>>, t, k)
    /\ \A x \in Frames, y \in Frames : y.type \in Bare /\ x.type = "added" =>
          /\ \A t \in {"added", "done", "input"} : \A k : Has(<<x, y>>, t, k) <=> x.type = t /\ x.key = k
          /\ Lone(<<x, y>>)
    /\ \A x \in Frames : x.type \in Bare => Lone(<<x>>)
<1>1. (\A t, k : ~Has(<<>>, t, k)) /\ Lone(<<>>)
  BY DEF Has, Lone
<1>2. ASSUME NEW x \in Frames, x.type \in {"added", "done", "input"}
      PROVE  (\A t, k : Has(<<x>>, t, k) <=> x.type = t /\ x.key = k) /\ Lone(<<x>>)
  <2>1. DOMAIN <<x>> = {1} /\ <<x>>[1] = x
    BY OneFrame
  <2> QED BY <1>2, <2>1 DEF Has, Lone
<1>3. ASSUME NEW x \in Frames, x.type \in Bare
      PROVE  (\A t \in {"added", "done", "input"} : \A k : ~Has(<<x>>, t, k)) /\ Lone(<<x>>)
  <2>1. DOMAIN <<x>> = {1} /\ <<x>>[1] = x
    BY OneFrame
  <2> QED BY <1>3, <2>1 DEF Has, Lone, Bare
<1>4. ASSUME NEW x \in Frames, NEW y \in Frames, y.type \in Bare, x.type = "added"
      PROVE  (\A t \in {"added", "done", "input"} : \A k : Has(<<x, y>>, t, k) <=> x.type = t /\ x.key = k) /\ Lone(<<x, y>>)
  <2>1. DOMAIN <<x, y>> = {1, 2} /\ <<x, y>>[1] = x /\ <<x, y>>[2] = y
    OBVIOUS
  <2>2. y.type \notin {"added", "done", "input"}
    BY <1>4 DEF Bare
  <2> DEFINE q == <<x, y>>
  <2>3. DOMAIN q = {1, 2} /\ q[1] = x /\ q[2] = y
    BY <2>1
  <2> HIDE DEF q
  <2>4. (\A t \in {"added", "done", "input"} : \A k : Has(q, t, k) <=> x.type = t /\ x.key = k) /\ Lone(q)
    BY <1>4, <2>2, <2>3 DEF Has, Lone
  <2> QED BY <2>4 DEF q
<1> QED BY <1>1, <1>2, <1>3, <1>4

LEMMA PlainHas ==
    ASSUME NEW q, Plain(q)
    PROVE  Lone(q) /\ \A t \in {"added", "done", "input"} : \A k : ~Has(q, t, k)
BY DEF Plain, Has, Lone, Bare

-----------------------------------------------------------------------------
(* What was taken and what is still to come.                               *)

Flowing == phase \in {"new", "first", "looping"}

(* A custom call, by the record of the call.                               *)
Cust(t, r) == t = "responses" /\ r.tool = "custom"

(* What the output knows of call c when its events brought it to s. *)
Seen(c, s, its, sup, en, t, r) ==
    /\ s = "none" <=> ~Holds(its, c) /\ c \notin sup
    /\ Holds(its, c) => c \notin sup
    /\ Holds(its, c) /\ t # "chat" => (s = "ended" <=> IF Cust(t, r) THEN c \in en ELSE AnyShut(its, c))

(* The output holds what was taken, the queue the rest. *)
Tracks(q, r, c, its, sup, en, t, i) ==
    \E s \in Places, m \in Nat :
       /\ Run(q, c, s, m, PlaceOf(r), GaveOf(r))
       /\ Seen(c, s, its, sup, en, t, r)
       /\ c \notin sup => m = Len(i)

(* This holds of every call while events are taken.                        *)
FlowInv == Flowing => \A c \in Calls : Tracks(queue, call[c], c, items, suppressed, ended, to, input[c])

(* An end that was taken is the last event and tells the truth; a good     *)
(* result is its outcome; it ends for calls only if one was passed on.     *)
EndInv ==
    /\ ending # None => reader \in {"ended", "returned", "thrown"} /\ queue = <<>> /\ EndOf(ending) /\ ending # "other"
    /\ reader \in {"ended", "returned"} /\ queue = <<>> /\ Flowing => ending # None \/ result # "none" \/ canceled
    /\ result \in Good => reader = "returned" /\ ending # None /\ result = Outcome(ending) /\ queue = <<>>
    /\ ending = "tool_calls" => passed
    /\ passed => \E c \in Calls : Holds(items, c)
    /\ \A c \in Calls : Holds(items, c) => PlaceOf(call[c]) # "none"
    /\ \A c \in ended : call[c].state = "ended" /\ call[c].tool = "custom" /\ to = "responses" /\ Holds(items, c)

LEMMA CustomIs ==
    ASSUME NEW c \in Calls
    PROVE  (Custom(c) <=> Cust(to, call[c])) /\ (Custom(c)' <=> Cust(to', call'[c]))
BY DEF Custom, Cust

LEMMA FlowSame ==
    ASSUME FlowInv, UNCHANGED <<queue, call, items, suppressed, ended, to, input>>,
           phase' \in {"new", "first", "looping"} => Flowing
    PROVE  FlowInv'
BY DEF FlowInv, Flowing

(* An event is taken and the output moves with it.                         *)
LEMMA FlowTaken ==
    ASSUME ReadInv, FlowInv, Flowing, queue # <<>>, Taken, to' = to,
           \A c \in Calls : \A s \in Places, u \in Places, m \in Nat, k \in Nat :
              Step(Head(queue), c, s, m, u, k) /\ Seen(c, s, items, suppressed, ended, to, call[c])
              /\ (c \notin suppressed => m = Len(input[c]))
              => Seen(c, u, items', suppressed', ended', to, call[c]) /\ (c \notin suppressed' => k = Len(input'[c]))
    PROVE  FlowInv'
<1> SUFFICES ASSUME NEW c \in Calls
             PROVE Tracks(queue', call'[c], c, items', suppressed', ended', to', input'[c])
  BY DEF FlowInv
<1>1. Tracks(queue, call[c], c, items, suppressed, ended, to, input[c])
  BY DEF FlowInv
<1>2. PICK s \in Places, m \in Nat :
       /\ Run(queue, c, s, m, PlaceOf(call[c]), GaveOf(call[c]))
       /\ Seen(c, s, items, suppressed, ended, to, call[c])
       /\ c \notin suppressed => m = Len(input[c])
  BY <1>1 DEF Tracks
<1>3. queue \in Seq(Events)
  BY DEF ReadInv, ParserTypes
<1>4. PICK u \in Places, k \in Nat : Step(Head(queue), c, s, m, u, k) /\ Run(Tail(queue), c, u, k, PlaceOf(call[c]), GaveOf(call[c]))
  BY <1>2, <1>3, RunTail
<1>5. Seen(c, u, items', suppressed', ended', to, call[c]) /\ (c \notin suppressed' => k = Len(input'[c]))
  BY <1>2, <1>4
<1>6. call' = call /\ queue' = Tail(queue)
  BY DEF Taken
<1> QED BY <1>4, <1>5, <1>6 DEF Tracks

(* A frame is read.                                                        *)
LEMMA FlowRead ==
    ASSUME ReadInv, FlowInv, Flowing, queue = <<>>, Gave, UNCHANGED <<items, suppressed, ended, to, input>>
    PROVE  FlowInv'
<1> SUFFICES ASSUME NEW c \in Calls
             PROVE Tracks(queue', call'[c], c, items', suppressed', ended', to', input'[c])
  BY DEF FlowInv
<1>1. PICK s \in Places, m \in Nat :
       /\ Run(<<>>, c, s, m, PlaceOf(call[c]), GaveOf(call[c]))
       /\ Seen(c, s, items, suppressed, ended, to, call[c])
       /\ c \notin suppressed => m = Len(input[c])
  BY DEF FlowInv, Tracks
<1>2. PlaceOf(call[c]) = s /\ GaveOf(call[c]) = m
  BY <1>1, RunEmpty
<1>3. Run(queue', c, s, m, PlaceOf(call'[c]), GaveOf(call'[c]))
  BY <1>2 DEF Gave, Gives
<1>4. s # "none" => call'[c].tool = call[c].tool
  BY <1>2 DEF Gave, Gives
<1>5. Seen(c, s, items, suppressed, ended, to, call'[c])
  BY <1>1, <1>4 DEF Seen, Cust
<1> QED BY <1>1, <1>3, <1>5 DEF Tracks

(* The head of the queue is of no call: nothing moves. *)
LEMMA StepOther ==
    ASSUME NEW e, NEW c, ~About(e, c), NEW s, NEW m, NEW u, NEW k, Step(e, c, s, m, u, k)
    PROVE  u = s /\ k = m
BY DEF Step, About, OfCall

LEMMA FlowQuiet ==
    ASSUME ReadInv, FlowInv, Flowing, queue # <<>>, Taken, ~OfCall(Head(queue)), UNCHANGED <<to, suppressed, ended, input>>,
           \A c \in Calls : (Holds(items', c) <=> Holds(items, c)) /\ (AnyShut(items', c) <=> AnyShut(items, c))
    PROVE  FlowInv'
<1>1. \A c \in Calls : ~About(Head(queue), c)
  BY DEF About
<1>2. \A c \in Calls : \A s \in Places, u \in Places, m \in Nat, k \in Nat :
              Step(Head(queue), c, s, m, u, k) /\ Seen(c, s, items, suppressed, ended, to, call[c])
              /\ (c \notin suppressed => m = Len(input[c]))
              => Seen(c, u, items', suppressed', ended', to, call[c]) /\ (c \notin suppressed' => k = Len(input'[c]))
  <2> SUFFICES ASSUME NEW c \in Calls, NEW s \in Places, NEW u \in Places, NEW m \in Nat, NEW k \in Nat,
              Step(Head(queue), c, s, m, u, k), Seen(c, s, items, suppressed, ended, to, call[c]),
              c \notin suppressed => m = Len(input[c])
              PROVE Seen(c, u, items', suppressed', ended', to, call[c]) /\ (c \notin suppressed' => k = Len(input'[c]))
    OBVIOUS
  <2>1. u = s /\ k = m
    BY <1>1, StepOther
  <2>2. Seen(c, u, items', suppressed', ended', to, call[c])
    BY <2>1 DEF Seen
  <2> QED BY <2>1, <2>2
<1> QED BY <1>2, FlowTaken

(* An event of call x alone. *)
LEMMA FlowCallEvent ==
    ASSUME ReadInv, FlowInv, Flowing, queue # <<>>, Taken, to' = to, NEW x \in Calls,
           OfCall(Head(queue)), Head(queue).call = x,
           \A c \in Calls : c # x =>
               /\ Holds(items', c) <=> Holds(items, c)
               /\ AnyShut(items', c) <=> AnyShut(items, c)
               /\ c \in suppressed' <=> c \in suppressed
               /\ c \in ended' <=> c \in ended
               /\ input'[c] = input[c],
           \A s \in Places, u \in Places, m \in Nat, k \in Nat :
              Step(Head(queue), x, s, m, u, k) /\ Seen(x, s, items, suppressed, ended, to, call[x])
              /\ (x \notin suppressed => m = Len(input[x]))
              => Seen(x, u, items', suppressed', ended', to, call[x]) /\ (x \notin suppressed' => k = Len(input'[x]))
    PROVE  FlowInv'
<1>1. \A c \in Calls : \A s \in Places, u \in Places, m \in Nat, k \in Nat :
              Step(Head(queue), c, s, m, u, k) /\ Seen(c, s, items, suppressed, ended, to, call[c])
              /\ (c \notin suppressed => m = Len(input[c]))
              => Seen(c, u, items', suppressed', ended', to, call[c]) /\ (c \notin suppressed' => k = Len(input'[c]))
  <2> SUFFICES ASSUME NEW c \in Calls, NEW s \in Places, NEW u \in Places, NEW m \in Nat, NEW k \in Nat,
              Step(Head(queue), c, s, m, u, k), Seen(c, s, items, suppressed, ended, to, call[c]),
              c \notin suppressed => m = Len(input[c])
              PROVE Seen(c, u, items', suppressed', ended', to, call[c]) /\ (c \notin suppressed' => k = Len(input'[c]))
    OBVIOUS
  <2>1. CASE c = x
    BY <2>1
  <2>2. CASE c # x
    <3>1. ~About(Head(queue), c)
      BY <2>2 DEF About
    <3>2. u = s /\ k = m
      BY <3>1, StepOther
    <3>3. Seen(c, u, items', suppressed', ended', to, call[c])
      BY <2>2, <3>2 DEF Seen
    <3> QED BY <2>2, <3>2, <3>3
  <2> QED BY <2>1, <2>2
<1> QED BY <1>1, FlowTaken

-----------------------------------------------------------------------------
LEMMA FlowSkip ==
    ASSUME Out, FlowInv, Skip
    PROVE  FlowInv'
<1> DEFINE x == Head(queue).call
<1>1. /\ Asking /\ queue # <<>> /\ Head(queue).type \in {"args", "call end"} /\ x \in suppressed /\ Taken
      /\ UNCHANGED <<to, phase, items, input, ended, suppressed>>
  BY DEF Skip, Skipped, shell
<1>2. x \in Calls /\ Flowing
  BY <1>1 DEF Out, DataTypes, Asking, Flowing
<1>3. OfCall(Head(queue))
  BY <1>1 DEF OfCall
<1>4. \A s \in Places, u \in Places, m \in Nat, k \in Nat :
              Step(Head(queue), x, s, m, u, k) /\ Seen(x, s, items, suppressed, ended, to, call[x])
              /\ (x \notin suppressed => m = Len(input[x]))
              => Seen(x, u, items', suppressed', ended', to, call[x]) /\ (x \notin suppressed' => k = Len(input'[x]))
  <2> SUFFICES ASSUME NEW s \in Places, NEW u \in Places, NEW m \in Nat, NEW k \in Nat,
              Step(Head(queue), x, s, m, u, k), Seen(x, s, items, suppressed, ended, to, call[x])
              PROVE Seen(x, u, items, suppressed, ended, to, call[x])
    BY <1>1
  <2>1. s = "open" /\ u # "none"
    BY <1>1, <1>3 DEF Step, About
  <2> QED BY <1>1, <2>1 DEF Seen
<1> HIDE DEF x
<1>5. Head(queue).call = x
  BY DEF x
<1> QED BY <1>1, <1>2, <1>3, <1>4, <1>5, FlowCallEvent DEF Out

LEMMA FlowContent ==
    ASSUME Out, FlowInv, NEW event, NEW what, TakeContent(event, what),
           (event = Content(what) /\ what \in Contents) \/ \E c \in Calls : event = CallStart(c)
    PROVE  FlowInv'
<1> DEFINE key == IF what = "thinking" THEN "thinking" ELSE "text"
<1>1. /\ Asking /\ queue # <<>> /\ event = Head(queue) /\ Taken /\ Suppress(event)
      /\ UNCHANGED <<to, input, ended>>
      /\ AddItem(key) \/ UNCHANGED items
  BY DEF TakeContent, NextIs
<1>2. key \in ItemKeys /\ key \notin Calls
  BY StreamAssumption DEF ItemKeys, StreamAssumption
<1> HIDE DEF key
<1>3. \A c \in Calls : (Holds(items', c) <=> Holds(items, c)) /\ (AnyShut(items', c) <=> AnyShut(items, c))
  <2>1. CASE AddItem(key)
    BY <1>2, <2>1, ItemAdded DEF Out, DataTypes
  <2>2. CASE UNCHANGED items
    BY <2>2
  <2> QED BY <1>1, <2>1, <2>2
<1>4. Flowing
  BY <1>1 DEF Asking, Flowing
<1>5. CASE event = Content(what)
  <2>1. ~OfCall(Head(queue)) /\ ~Unknown(event)
    <3>1. Content(what).type = "content"
      BY DEF Content
    <3> QED BY <1>1, <1>5, <3>1 DEF OfCall, Unknown
  <2>2. suppressed' = suppressed
    BY <1>1, <2>1 DEF Suppress
  <2> QED BY <1>1, <1>3, <1>4, <2>1, <2>2, FlowQuiet DEF Out
<1>6. ASSUME NEW x \in Calls, event = CallStart(x), ~(event = Content(what)) PROVE FlowInv'
  <2>1. OfCall(Head(queue)) /\ Head(queue).call = x /\ Head(queue).type = "call"
    <3>1. CallStart(x).type = "call" /\ CallStart(x).call = x
      BY DEF CallStart
    <3> QED BY <1>1, <1>6, <3>1 DEF OfCall
  <2>2. Unknown(event)
    BY <1>6 DEF TakeContent
  <2>3. suppressed' = suppressed \union {x}
    BY <1>1, <2>1, <2>2 DEF Suppress
  <2>4. \A s \in Places, u \in Places, m \in Nat, k \in Nat :
              Step(Head(queue), x, s, m, u, k) /\ Seen(x, s, items, suppressed, ended, to, call[x])
              /\ (x \notin suppressed => m = Len(input[x]))
              => Seen(x, u, items', suppressed', ended', to, call[x]) /\ (x \notin suppressed' => k = Len(input'[x]))
    <3> SUFFICES ASSUME NEW s \in Places, NEW u \in Places, NEW m \in Nat, NEW k \in Nat,
                Step(Head(queue), x, s, m, u, k), Seen(x, s, items, suppressed, ended, to, call[x])
                PROVE Seen(x, u, items', suppressed', ended', to, call[x])
      BY <2>3
    <3>1. s = "none" /\ u = "open"
      BY <2>1 DEF Step, About
    <3>2. ~Holds(items', x)
      BY <1>3, <3>1 DEF Seen
    <3> QED BY <2>3, <3>1, <3>2 DEF Seen
  <2> QED BY <1>1, <1>3, <1>4, <2>1, <2>3, <2>4, FlowCallEvent DEF Out
<1> QED BY <1>5, <1>6

LEMMA FlowCall ==
    ASSUME Out, FlowInv, EndInv, NEW x \in Calls, TakeCall(x)
    PROVE  FlowInv'
<1>1. /\ Asking /\ queue # <<>> /\ CallStart(x) = Head(queue) /\ Taken /\ AddItem(x)
      /\ UNCHANGED <<to, input, ended, suppressed>>
  BY DEF TakeCall, NextIs
<1>2. x \in ItemKeys
  BY DEF ItemKeys
<1>3. \A c : /\ Holds(items', c) <=> Holds(items, c) \/ c = x
             /\ AnyShut(items', c) <=> AnyShut(items, c)
  BY <1>1, <1>2, ItemAdded DEF Out, DataTypes
<1>4. Flowing
  BY <1>1 DEF Asking, Flowing
<1>5. OfCall(Head(queue)) /\ Head(queue).call = x /\ Head(queue).type = "call"
  <2>1. CallStart(x).type = "call" /\ CallStart(x).call = x
    BY DEF CallStart
  <2> QED BY <1>1, <2>1 DEF OfCall
<1>6. \A s \in Places, u \in Places, m \in Nat, k \in Nat :
              Step(Head(queue), x, s, m, u, k) /\ Seen(x, s, items, suppressed, ended, to, call[x])
              /\ (x \notin suppressed => m = Len(input[x]))
              => Seen(x, u, items', suppressed', ended', to, call[x]) /\ (x \notin suppressed' => k = Len(input'[x]))
  <2> SUFFICES ASSUME NEW s \in Places, NEW u \in Places, NEW m \in Nat, NEW k \in Nat,
                Step(Head(queue), x, s, m, u, k), Seen(x, s, items, suppressed, ended, to, call[x]),
                x \notin suppressed => m = Len(input[x])
                PROVE Seen(x, u, items', suppressed, ended, to, call[x]) /\ (x \notin suppressed => k = Len(input[x]))
    BY <1>1
  <2>1. s = "none" /\ u = "open" /\ k = m
    BY <1>5 DEF Step, About
  <2>2. ~Holds(items, x) /\ x \notin suppressed
    BY <2>1 DEF Seen
  <2>3. x \notin ended
    BY <2>2 DEF EndInv
  <2> QED BY <1>3, <2>1, <2>2, <2>3, ShutThere DEF Seen
<1> QED BY <1>1, <1>3, <1>4, <1>5, <1>6, FlowCallEvent DEF Out

LEMMA FlowArgs ==
    ASSUME Out, FlowInv, NEW x \in Calls, NEW ps, TakeArgs(x, ps)
    PROVE  FlowInv'
<1>1. /\ Asking /\ queue # <<>> /\ Args(x, ps) = Head(queue) /\ Taken /\ x \notin suppressed
      /\ input' = [input EXCEPT ![x] = @ \o ps]
      /\ UNCHANGED <<to, items, ended, suppressed>>
  BY DEF TakeArgs, NextIs
<1>2. Args(x, ps).type = "args" /\ Args(x, ps).pieces = ps /\ Args(x, ps).call = x
  BY DEF Args
<1>3. ps \in Pieces
  <2>1. Head(queue) \in Events
    BY <1>1, HeadEvent DEF Out
  <2>2. Args(x, ps) \in Events
    BY <1>1, <2>1
  <2> QED BY <1>2, <2>2, EventFields
<1>4. Flowing
  BY <1>1 DEF Asking, Flowing
<1>5. OfCall(Head(queue)) /\ Head(queue).call = x /\ Head(queue).type = "args" /\ Head(queue).pieces = ps
  BY <1>1, <1>2 DEF OfCall
<1>6. input \in [Calls -> Pieces]
  BY DEF Out, DataTypes
<1>7. input'[x] = input[x] \o ps /\ \A c \in Calls : c # x => input'[c] = input[c]
  BY <1>1, <1>6
<1>8. Len(input'[x]) = Len(input[x]) + Len(ps)
  BY <1>3, <1>6, <1>7 DEF Pieces
<1>9. \A s \in Places, u \in Places, m \in Nat, k \in Nat :
              Step(Head(queue), x, s, m, u, k) /\ Seen(x, s, items, suppressed, ended, to, call[x])
              /\ (x \notin suppressed => m = Len(input[x]))
              => Seen(x, u, items', suppressed', ended', to, call[x]) /\ (x \notin suppressed' => k = Len(input'[x]))
  <2> SUFFICES ASSUME NEW s \in Places, NEW u \in Places, NEW m \in Nat, NEW k \in Nat,
                Step(Head(queue), x, s, m, u, k), Seen(x, s, items, suppressed, ended, to, call[x]),
                m = Len(input[x])
                PROVE Seen(x, u, items, suppressed, ended, to, call[x]) /\ k = Len(input'[x])
    BY <1>1
  <2>1. s = "open" /\ u = "open" /\ k = m + Len(ps)
    BY <1>5 DEF Step, About
  <2> QED BY <1>8, <2>1
<1> QED BY <1>1, <1>4, <1>5, <1>7, <1>9, FlowCallEvent DEF Out

LEMMA FlowCallEnd ==
    ASSUME Out, FlowInv, NEW x \in Calls, TakeCallEnd(x), phase' \in {"new", "first", "looping"}
    PROVE  FlowInv'
<1>1. /\ Asking /\ queue # <<>> /\ CallEnd(x) = Head(queue) /\ Taken /\ x \notin suppressed
      /\ ended' = IF Custom(x) THEN ended \union {x} ELSE ended
      /\ UNCHANGED <<to, input, suppressed>>
      /\ \/ (to = "chat" \/ Custom(x)) /\ UNCHANGED items
         \/ to # "chat" /\ ~Custom(x) /\ Close({x})
  BY DEF TakeCallEnd, NextIs, EndItem, Fail
<1>2. Flowing
  BY <1>1 DEF Asking, Flowing
<1>3. OfCall(Head(queue)) /\ Head(queue).call = x /\ Head(queue).type = "call end"
  <2>1. CallEnd(x).type = "call end" /\ CallEnd(x).call = x
    BY DEF CallEnd
  <2> QED BY <1>1, <2>1 DEF OfCall
<1>4. /\ \A c : Holds(items', c) <=> Holds(items, c)
      /\ \A c : c # x => (AnyShut(items', c) <=> AnyShut(items, c))
      /\ Close({x}) => (Holds(items, x) => AnyShut(items', x))
  <2>1. CASE Close({x})
    BY <2>1, ItemClosed DEF Out, DataTypes
  <2>2. CASE ~Close({x})
    BY <1>1, <2>2
  <2> QED BY <2>1, <2>2
<1>5. Custom(x) <=> Cust(to, call[x])
  BY CustomIs
<1>6. \A s \in Places, u \in Places, m \in Nat, k \in Nat :
              Step(Head(queue), x, s, m, u, k) /\ Seen(x, s, items, suppressed, ended, to, call[x])
              /\ (x \notin suppressed => m = Len(input[x]))
              => Seen(x, u, items', suppressed', ended', to, call[x]) /\ (x \notin suppressed' => k = Len(input'[x]))
  <2> SUFFICES ASSUME NEW s \in Places, NEW u \in Places, NEW m \in Nat, NEW k \in Nat,
                Step(Head(queue), x, s, m, u, k), Seen(x, s, items, suppressed, ended, to, call[x]),
                m = Len(input[x])
                PROVE Seen(x, u, items', suppressed, ended', to, call[x]) /\ k = Len(input[x])
    BY <1>1
  <2>1. s = "open" /\ u = "ended" /\ k = m
    BY <1>3 DEF Step, About
  <2> QED BY <1>1, <1>4, <1>5, <2>1 DEF Seen
<1>7. \A c \in Calls : c # x => (c \in ended' <=> c \in ended)
  BY <1>1
<1> QED BY <1>1, <1>2, <1>3, <1>4, <1>6, <1>7, FlowCallEvent DEF Out

-----------------------------------------------------------------------------
(* The end of the message.                                                 *)

(* What the parser does at its end. *)
LEMMA ReadOver ==
    ASSUME Read
    PROVE  /\ queue = <<>>
           /\ \/ /\ reader \in {"reading", "flushing"}
                 /\ reader' \in {"ended", "returned"} => queue' # <<>>
              \/ /\ reader = "ended" /\ reader' \in {"returned", "thrown"}
                 /\ UNCHANGED <<from, json, started, stop, blocks, call, order, queue, texts, said>>
<1> DEFINE G == /\ queue = <<>>
                /\ \/ /\ reader \in {"reading", "flushing"}
                      /\ reader' \in {"ended", "returned"} => queue' # <<>>
                   \/ /\ reader = "ended" /\ reader' \in {"returned", "thrown"}
                      /\ UNCHANGED <<from, json, started, stop, blocks, call, order, queue, texts, said>>
<1>1. \A x : <<x>> # <<>> /\ <<>> \o <<x>> # <<>>
  OBVIOUS
<1>2. \A x, y : <<x>> \o <<y>> # <<>> /\ <<x>> \o <<Start>> \o <<y>> # <<>> /\ <<>> \o <<Start>> \o <<y>> # <<>>
                /\ <<>> \o <<>> \o <<y>> # <<>> /\ <<x>> \o <<>> \o <<y>> # <<>>
  OBVIOUS
<1>3. Opening = <<>> \/ Opening = <<Start>>
  BY DEF Opening
<1>4. /\ \A y : Opening \o <<y>> # <<>>
      /\ \A y : Opening \o <<Start>> \o <<y>> # <<>> /\ Opening \o <<>> \o <<y>> # <<>>
  BY <1>1, <1>2, <1>3
<1>5. ASSUME NEW what, ReadContent(what) PROVE G
  BY <1>5 DEF ReadContent, Frame, Emit
<1>6. ASSUME ReadStart \/ ReadBlock PROVE G
  BY <1>6 DEF ReadStart, ReadBlock, Frame, Emit
<1>7. ASSUME NEW reason, ReadStop(reason) PROVE G
  BY <1>7 DEF ReadStop, Frame, Emit
<1>8. ASSUME NEW reason, ReadDocumentEnd(reason) PROVE G
  <2>1. queue = <<>> /\ reader = "reading"
        /\ queue' = Opening \o (IF from = "responses" THEN <<Start>> ELSE <<>>) \o <<End(reason)>>
    BY <1>8 DEF ReadDocumentEnd, Return
  <2>2. queue' # <<>>
    BY <1>4, <2>1
  <2> QED BY <2>1, <2>2
<1>9. ASSUME NEW c, NEW tool, NEW b, ReadChatCall(c, tool, b) \/ ReadCallStart(c, tool, b) \/ ReadWholeCall(c, tool, b) PROVE G
  BY <1>9 DEF ReadChatCall, ReadCallStart, ReadWholeCall, Frame, Emit
<1>10. ASSUME NEW c, ReadPiece(c) \/ ReadCallEnd(c) PROVE G
  BY <1>10 DEF ReadPiece, ReadCallEnd, Frame, Emit
<1>11. ASSUME ReadDone PROVE G
  <2>1. queue = <<>> /\ reader = "reading" /\ (reader' = "flushing" \/ reader' = "thrown" \/ queue' = <<End(stop)>>)
    BY <1>11 DEF ReadDone, Return, Throw
  <2> QED BY <1>1, <2>1
<1>12. ASSUME ReadEof PROVE G
  <2>1. queue = <<>> /\ reader = "reading" /\ (reader' = "flushing" \/ reader' = "thrown" \/ queue' = <<End(stop)>>)
    BY <1>12 DEF ReadEof, Return, Throw
  <2> QED BY <1>1, <2>1
<1>13. ASSUME ReadMessageStop PROVE G
  BY <1>1, <1>13 DEF ReadMessageStop, Return, Throw
<1>14. ASSUME ReadBlocked PROVE G
  <2>1. queue = <<>> /\ reader = "reading" /\ queue' = Opening \o <<End("content_filter")>>
    BY <1>14 DEF ReadBlocked, Return
  <2> QED BY <1>4, <2>1
<1>15. ASSUME Flush PROVE G
  <2>1. queue = <<>> /\ reader = "flushing"
    BY <1>15 DEF Flush
  <2>2. CASE order = <<>>
    <3>1. queue' = <<End(IF stop = None THEN "stop" ELSE stop)>>
      BY <1>15, <2>2 DEF Flush, Return
    <3> QED BY <1>1, <2>1, <3>1
  <2>3. CASE order # <<>>
    <3>1. reader' = reader
      BY <1>15, <2>3 DEF Flush, Emit
    <3> QED BY <2>1, <3>1
  <2> QED BY <2>2, <2>3
<1>16. ASSUME NEW st, NEW reason, ReadTerminal(st, reason) PROVE G
  <2>1. queue = <<>> /\ reader = "reading"
        /\ (reader' = "thrown" \/ queue' = (IF started THEN <<>> ELSE <<Start>>) \o <<End(reason)>>)
    BY <1>16 DEF ReadTerminal, Throw
  <2> QED BY <1>1, <1>2, <2>1
<1>17. ASSUME ReadAfterTerminal PROVE G
  BY <1>17 DEF ReadAfterTerminal
<1>18. ASSUME ReadError PROVE G
  <2>1. queue = <<>> /\ reader = "reading" /\ queue' = (IF from = "chat" /\ ~json THEN Opening ELSE <<>>) \o <<Error>>
    BY <1>18 DEF ReadError, Return
  <2> QED BY <1>1, <1>4, <2>1
<1>19. ASSUME ReadBroken PROVE G
  BY <1>19 DEF ReadBroken, Throw
<1> HIDE DEF G
<1>20. G
  BY <1>5, <1>6, <1>7, <1>8, <1>9, <1>10, <1>11, <1>12, <1>13, <1>14, <1>15, <1>16, <1>17, <1>18, <1>19 DEF Read
<1> QED BY <1>20 DEF G

(* The last event of a reader that is over is an end or an error. *)
LEMMA LastTaken ==
    ASSUME ReadInv, queue # <<>>
    PROVE  /\ Head(queue).type \in {"end", "error"} => Tail(queue) = <<>> /\ reader \in {"ended", "returned"}
           /\ Tail(queue) = <<>> /\ reader \in {"ended", "returned"} => Head(queue).type \in {"end", "error"}
           /\ Head(queue).type = "end" => EndOf(Head(queue).reason)
           /\ OfCall(Head(queue)) => PlaceOf(call[Head(queue).call]) # "none"
           /\ Head(queue).type = "call end" => call[Head(queue).call].state = "ended"
<1>1. queue \in Seq(Events) /\ queue # <<>>
  BY DEF ReadInv, ParserTypes
<1>2. /\ Tail(queue) \in Seq(Events) /\ Len(queue) \in Nat /\ Len(queue) >= 1 /\ Head(queue) = queue[1]
      /\ DOMAIN queue = 1..Len(queue) /\ Len(Tail(queue)) = Len(queue) - 1
  BY ONLY <1>1, TailList
<1>3. 1 \in DOMAIN queue
  BY <1>2
<1>4. (Tail(queue) = <<>>) <=> Len(queue) = 1
  <2>1. \A s \in Seq(Events) : (s = <<>>) <=> (Len(s) = 0)
    OBVIOUS
  <2> QED BY <1>2, <2>1
<1>5. Ends(queue, reader) /\ OfCalls(queue, call)
  BY DEF ReadInv
<1>6. Head(queue).type \in {"end", "error"} => Tail(queue) = <<>> /\ reader \in {"ended", "returned"}
  BY <1>2, <1>3, <1>4, <1>5 DEF Ends
<1>7. Tail(queue) = <<>> /\ reader \in {"ended", "returned"} => Head(queue).type \in {"end", "error"}
  BY <1>2, <1>4, <1>5 DEF Ends
<1>8. Head(queue).type = "end" => EndOf(Head(queue).reason)
  BY <1>2, <1>3 DEF ReadInv
<1>9. /\ OfCall(Head(queue)) => PlaceOf(call[Head(queue).call]) # "none"
      /\ Head(queue).type = "call end" => call[Head(queue).call].state = "ended"
  BY <1>2, <1>3, <1>5 DEF OfCalls
<1> QED BY <1>6, <1>7, <1>8, <1>9

(* The event of a call that the output holds. *)
LEMMA HeadSeen ==
    ASSUME ReadInv, FlowInv, Flowing, queue # <<>>, NEW x \in Calls, Head(queue).type \in {"args", "call end"},
           Head(queue).call = x, x \notin suppressed
    PROVE  /\ Holds(items, x)
           /\ to # "chat" => ~(IF Custom(x) THEN x \in ended ELSE AnyShut(items, x))
           /\ Head(queue).type = "args" => Head(queue).pieces = [k \in 1..Len(Head(queue).pieces) |-> Len(input[x]) + k]
           /\ Head(queue).type = "call end" => GaveOf(call[x]) = Len(input[x])
<1>1. PICK s \in Places, m \in Nat :
       /\ Run(queue, x, s, m, PlaceOf(call[x]), GaveOf(call[x]))
       /\ Seen(x, s, items, suppressed, ended, to, call[x])
       /\ m = Len(input[x])
  BY DEF FlowInv, Tracks
<1>2. queue \in Seq(Events)
  BY DEF ReadInv, ParserTypes
<1>3. PICK u \in Places, k \in Nat : Step(Head(queue), x, s, m, u, k) /\ Run(Tail(queue), x, u, k, PlaceOf(call[x]), GaveOf(call[x]))
  BY <1>1, <1>2, RunTail
<1>4. About(Head(queue), x)
  BY DEF About, OfCall
<1>5. s = "open" /\ (Head(queue).type = "args" => Head(queue).pieces = [i \in 1..Len(Head(queue).pieces) |-> m + i])
      /\ (Head(queue).type = "call end" => u = "ended" /\ k = m)
  BY <1>3, <1>4 DEF Step
<1>6. Holds(items, x) /\ (to # "chat" => ~(IF Cust(to, call[x]) THEN x \in ended ELSE AnyShut(items, x)))
  BY <1>1, <1>5 DEF Seen
<1>7. Head(queue).type = "call end" => GaveOf(call[x]) = m
  <2> SUFFICES ASSUME Head(queue).type = "call end" PROVE GaveOf(call[x]) = m
    OBVIOUS
  <2>1. Tail(queue) \in Seq(Events)
    <3>1. queue \in Seq(Events) /\ queue # <<>>
      BY <1>2
    <3> QED BY ONLY <3>1, TailList
  <2>2. Run(Tail(queue), x, "ended", m, PlaceOf(call[x]), GaveOf(call[x]))
    BY <1>3, <1>5
  <2> DEFINE q == Tail(queue)
             p == PlaceOf(call[x])
             g == GaveOf(call[x])
  <2>3. q \in Seq(Events) /\ Run(q, x, "ended", m, p, g)
    BY <2>1, <2>2
  <2> HIDE DEF q, p, g
  <2>4. g = m
    BY ONLY <2>3, RunOver
  <2> QED BY <2>4 DEF g
<1> QED BY <1>1, <1>5, <1>6, <1>7, CustomIs

LEMMA HeadNew ==
    ASSUME ReadInv, FlowInv, Flowing, queue # <<>>, NEW x \in Calls, Head(queue) = CallStart(x)
    PROVE  ~Holds(items, x) /\ x \notin suppressed
<1>1. PICK s \in Places, m \in Nat :
       /\ Run(queue, x, s, m, PlaceOf(call[x]), GaveOf(call[x]))
       /\ Seen(x, s, items, suppressed, ended, to, call[x])
  BY DEF FlowInv, Tracks
<1>2. queue \in Seq(Events)
  BY DEF ReadInv, ParserTypes
<1>3. PICK u \in Places, k \in Nat : Step(Head(queue), x, s, m, u, k)
  BY <1>1, <1>2, RunTail
<1>4. Head(queue).type = "call" /\ Head(queue).call = x
  BY DEF CallStart
<1>5. s = "none"
  BY <1>3, <1>4 DEF Step, About, OfCall
<1> QED BY <1>1, <1>5 DEF Seen

-----------------------------------------------------------------------------
LEMMA ToldSame ==
    ASSUME UNCHANGED <<from, json, call, said>>
    PROVE  (Told' <=> Told) /\ (EndSaid' <=> EndSaid) /\ OpenCalls' = OpenCalls
BY DEF Told, EndSaid, OpenCalls, Open

LEMMA EndKeep ==
    ASSUME EndInv, UNCHANGED <<from, json, call, said, reader, queue, ending, to, ended, passed>>,
           phase' \in {"new", "first", "looping"} => Flowing, canceled => canceled', result # "none" => result' # "none",
           result' \in Good => result' = result \/ (reader = "returned" /\ ending # None /\ result' = Outcome(ending) /\ queue = <<>>),
           \A c : Holds(items', c) <=> Holds(items, c)
    PROVE  EndInv'
<1>1. EndOf(ending)' <=> EndOf(ending)
  BY ToldSame DEF EndOf
<1>2. (Outcome(ending))' = Outcome(ending)
  BY DEF Outcome
<1>3. ending' # None => reader' \in {"ended", "returned", "thrown"} /\ queue' = <<>> /\ EndOf(ending)' /\ ending' # "other"
  BY <1>1 DEF EndInv
<1>4. reader' \in {"ended", "returned"} /\ queue' = <<>> /\ Flowing' => ending' # None \/ result' # "none" \/ canceled'
  BY DEF EndInv, Flowing
<1>5. result' \in Good => reader' = "returned" /\ ending' # None /\ result' = (Outcome(ending))' /\ queue' = <<>>
  BY <1>2 DEF EndInv
<1>6. (ending' = "tool_calls" => passed') /\ (passed' => \E c \in Calls : Holds(items', c))
  BY DEF EndInv
<1>7. \A c \in Calls : Holds(items', c) => PlaceOf(call'[c]) # "none"
  BY DEF EndInv
<1>8. \A c \in ended' : call'[c].state = "ended" /\ call'[c].tool = "custom" /\ to' = "responses" /\ Holds(items', c)
  BY DEF EndInv
<1> QED BY <1>3, <1>4, <1>5, <1>6, <1>7, <1>8 DEF EndInv

LEMMA EndTaken ==
    ASSUME Out, EndInv, Asking, queue # <<>>, Taken, to' = to, passed => passed', result' \notin Good,
           Head(queue).type \in {"end", "error"} /\ phase' \in {"new", "first", "looping"}
              => ending' # None \/ result' # "none" \/ canceled',
           ending' # None => ending' = None \/ ending' = ending
              \/ (Head(queue).type = "end" /\ EndOf(ending') /\ ending' # "other" /\ (ending' = "tool_calls" => passed')),
           \A c \in Calls : Holds(items, c) => Holds(items', c),
           \A c \in Calls : Holds(items', c) => Holds(items, c) \/ PlaceOf(call[c]) # "none",
           passed' => passed \/ \E c \in Calls : Holds(items', c),
           \A c \in ended' : c \in ended \/ (c \in Calls /\ call[c].state = "ended" /\ call[c].tool = "custom" /\ to = "responses" /\ Holds(items, c))
    PROVE  EndInv'
<1>1. queue' = Tail(queue) /\ UNCHANGED <<from, json, reader, call, said>>
  BY DEF Taken
<1>2. ending = None
  BY DEF EndInv
<1>3. EndOf(ending)' <=> (~Incomplete(ending') => Told)
  BY <1>1, ToldSame DEF EndOf, Incomplete
<1>4. ending' # None => reader' \in {"ended", "returned", "thrown"} /\ queue' = <<>> /\ EndOf(ending)' /\ ending' # "other"
                        /\ (ending' = "tool_calls" => passed')
  BY <1>1, <1>2, <1>3, LastTaken DEF Out, EndOf
<1>5. reader' \in {"ended", "returned"} /\ queue' = <<>> /\ Flowing' => ending' # None \/ result' # "none" \/ canceled'
  BY <1>1, LastTaken DEF Out, Flowing
<1>6. ending' = "tool_calls" => passed'
  BY <1>4, StreamAssumption DEF StreamAssumption, AllReasons
<1>7. passed' => \E c \in Calls : Holds(items', c)
  BY DEF EndInv
<1>8. \A c \in Calls : Holds(items', c) => PlaceOf(call'[c]) # "none"
  BY <1>1 DEF EndInv
<1>9. \A c \in ended' : call'[c].state = "ended" /\ call'[c].tool = "custom" /\ to' = "responses" /\ Holds(items', c)
  <2>1. ended \subseteq Calls
    BY DEF Out, DataTypes
  <2> QED BY <1>1, <2>1 DEF EndInv
<1> QED BY <1>4, <1>5, <1>6, <1>7, <1>8, <1>9 DEF EndInv

LEMMA EndRead ==
    ASSUME ReadInv, EndInv, Read, Gave, UNCHANGED <<to, phase, items, ended, ending, result, passed, canceled>>, ended \subseteq Calls
    PROVE  EndInv'
<1>1. queue = <<>>
  BY ReadOver
<1>2. CASE reader \in {"reading", "flushing"} /\ (reader' \in {"ended", "returned"} => queue' # <<>>)
  <2>1. ending' = None /\ result' \notin Good /\ ending' # "tool_calls"
    BY <1>2, StreamAssumption DEF EndInv, StreamAssumption, AllReasons
  <2>2. \A c \in Calls : Holds(items', c) => PlaceOf(call'[c]) # "none"
    BY DEF EndInv, Gave, Gives
  <2>3. \A c \in ended' : call'[c].state = "ended" /\ call'[c].tool = "custom" /\ to' = "responses" /\ Holds(items', c)
    BY DEF EndInv, Gave, Gives
  <2>4. passed' => \E c \in Calls : Holds(items', c)
    BY DEF EndInv
  <2> QED BY <1>2, <2>1, <2>2, <2>3, <2>4 DEF EndInv, Flowing
<1>3. CASE /\ reader = "ended" /\ reader' \in {"returned", "thrown"}
           /\ UNCHANGED <<from, json, started, stop, blocks, call, order, queue, texts, said>>
  <2>1. EndOf(ending)' <=> EndOf(ending)
    BY <1>3, ToldSame DEF EndOf
  <2>2. result' \notin Good
    BY <1>3 DEF EndInv
  <2>3. ending' # None => reader' \in {"ended", "returned", "thrown"} /\ queue' = <<>> /\ EndOf(ending)' /\ ending' # "other"
    BY <1>3, <2>1 DEF EndInv
  <2>4. reader' \in {"ended", "returned"} /\ queue' = <<>> /\ Flowing' => ending' # None \/ result' # "none" \/ canceled'
    BY <1>3 DEF EndInv, Flowing
  <2>5. (ending' = "tool_calls" => passed') /\ (passed' => \E c \in Calls : Holds(items', c))
    BY DEF EndInv
  <2>6. \A c \in Calls : Holds(items', c) => PlaceOf(call'[c]) # "none"
    BY <1>3 DEF EndInv
  <2>7. \A c \in ended' : call'[c].state = "ended" /\ call'[c].tool = "custom" /\ to' = "responses" /\ Holds(items', c)
    BY <1>3 DEF EndInv
  <2> QED BY <2>2, <2>3, <2>4, <2>5, <2>6, <2>7 DEF EndInv
<1> QED BY <1>2, <1>3, ReadOver

-----------------------------------------------------------------------------
(* The invariant.                                                          *)

(* The items the client knows of: shown, and closed. *)
ShownInv ==
    /\ to # "gemini" => \A k \in ItemKeys : /\ Holds(items, k) <=> k \in added \/ Has(pending, "added", k)
                                            /\ k \in done \/ Has(pending, "done", k) => k \in added
    /\ to = "chat" => \A k \in ItemKeys : k \notin done /\ ~Has(pending, "done", k) /\ ~AnyShut(items, k)
    /\ to = "gemini" => /\ added = done /\ (Flowing => done = {})
                        /\ \A k \in ItemKeys : ~Has(pending, "added", k) /\ ~Has(pending, "done", k)
                        /\ \A k \in done : Holds(items, k) /\ k \in Calls

(* Items closed: the client was told, or is about to be; all of them when  *)
(* the response completed.                                                 *)
ClosedInv ==
    /\ \A k \in ItemKeys : k \in done \/ Has(pending, "done", k) => AnyShut(items, k)
    /\ to \in {"responses", "anthropic"} => \A k \in ItemKeys : AnyShut(items, k) => k \in done \/ Has(pending, "done", k)
    /\ to \in {"responses", "anthropic"} /\ result = "completed" => \A k \in ItemKeys : Shut(items, k)
    /\ to = "gemini" /\ result = "completed" => \A c \in Calls : Holds(items, c) => AnyShut(items, c)
    /\ to = "gemini" /\ status = "completed" => \A c \in Calls : Holds(items, c) => c \in added
    /\ Flowing => \A k \in ItemKeys : AnyShut(items, k) => k \in Calls /\ ~Cust(to, call[k]) /\ call[k].state = "ended"

(* A custom call is shown closed only after the end, and whole.            *)
CustomInv ==
    \A c \in Calls : (c \in done \/ Has(pending, "done", c)) /\ Cust(to, call[c])
        => reader = "returned" /\ ending # None /\ ~Incomplete(ending) /\ call[c].state = "ended" /\ call[c].whole

ItemInv == ShownInv /\ ClosedInv /\ CustomInv

(* What the client has of the arguments of a call.                         *)
GotFor(q, dn, t, r, g, i, c) ==
    /\ c \in dn => g = i /\ ~Has(q, "input", c)
    /\ c \notin dn /\ (t = "gemini" \/ Cust(t, r)) => g = <<>> /\ ~Has(q, "input", c)
    /\ c \notin dn /\ ~(t = "gemini" \/ Cust(t, r)) => (g = i /\ ~Has(q, "input", c)) \/ OneInput(q, c, g, i)

(* The pieces kept are the first ones in order, all of them once the call  *)
(* is closed or the response complete; the client has them, or all but the *)
(* ones of the frame to come.                                              *)
GotInv ==
    /\ \A c \in Calls : input[c] = [k \in 1..Len(input[c]) |-> k]
    /\ \A c \in Calls : Holds(items, c) /\ call[c].state = "ended" /\ (AnyShut(items, c) \/ result = "completed")
                           => Len(input[c]) = call[c].sent
    /\ \A c \in Calls : GotFor(pending, done, to, call[c], got[c], input[c], c)
    /\ Lone(pending)
    /\ \A c \in Calls : PlaceOf(call[c]) = "none" => input[c] = <<>> /\ got[c] = <<>> /\ ~Has(pending, "input", c)

(* All of it.                                                              *)
Safe == Out /\ FlowInv /\ EndInv /\ ItemInv /\ GotInv

LEMMA NoFrames == \A t, k : ~Has(<<>>, t, k)
BY FewFrames

LEMMA CallKeys == \A c \in Calls : c \in ItemKeys
BY DEF ItemKeys

(* Nothing changes for the items. *)
LEMMA ItemKeep ==
    ASSUME ItemInv, UNCHANGED <<to, call, added, done>>,
           \A k \in ItemKeys : /\ Holds(items', k) <=> Holds(items, k)
                               /\ AnyShut(items', k) <=> AnyShut(items, k)
                               /\ Shut(items, k) => Shut(items', k),
           \A k : /\ Has(pending', "added", k) <=> Has(pending, "added", k)
                  /\ Has(pending', "done", k) <=> Has(pending, "done", k),
           phase' \in {"new", "first", "looping"} => Flowing,
           result' = "completed" => result = "completed" \/ to = "chat"
              \/ (to = "gemini" /\ \A c \in Calls : Holds(items, c) => AnyShut(items, c)),
           status' = "completed" => status = "completed",
           ending = None \/ UNCHANGED <<reader, ending>>
    PROVE  ItemInv'
<1>1. ShownInv'
  <2>1. to' # "gemini" => \A k \in ItemKeys : /\ Holds(items', k) <=> k \in added' \/ Has(pending', "added", k)
                                              /\ k \in done' \/ Has(pending', "done", k) => k \in added'
    BY DEF ItemInv, ShownInv
  <2>2. to' = "chat" => \A k \in ItemKeys : k \notin done' /\ ~Has(pending', "done", k) /\ ~AnyShut(items', k)
    BY DEF ItemInv, ShownInv
  <2>3. to' = "gemini" => /\ added' = done' /\ (Flowing' => done' = {})
                          /\ \A k \in ItemKeys : ~Has(pending', "added", k) /\ ~Has(pending', "done", k)
    BY DEF ItemInv, ShownInv, Flowing
  <2>4. to' = "gemini" => \A k \in done' : Holds(items', k) /\ k \in Calls
    BY CallKeys DEF ItemInv, ShownInv
  <2> QED BY <2>1, <2>2, <2>3, <2>4 DEF ShownInv
<1>2. ClosedInv'
  BY CallKeys DEF ItemInv, ClosedInv, Flowing
<1>3. CustomInv'
  BY CallKeys DEF ItemInv, CustomInv, Incomplete
<1> QED BY <1>1, <1>2, <1>3 DEF ItemInv

LEMMA ItemRead ==
    ASSUME ReadInv, ItemInv, EndInv, Read, Gave, UNCHANGED <<to, items, added, done, pending, phase, result, status, ending>>,
           done \subseteq ItemKeys
    PROVE  ItemInv'
<1>1. ShownInv'
  BY DEF ItemInv, ShownInv, Flowing
<1>2. \A c \in Calls : Holds(items, c) => (Cust(to', call'[c]) <=> Cust(to, call[c])) /\ (call[c].state = "ended" => call'[c] = call[c])
  BY DEF EndInv, Gave, Gives, Cust
<1>3. ClosedInv'
  BY <1>2, ShutThere DEF ItemInv, ClosedInv, Flowing
<1>4. CustomInv'
  <2> SUFFICES ASSUME NEW c \in Calls, c \in done \/ Has(pending, "done", c), Cust(to', call'[c])
               PROVE  FALSE
    BY DEF CustomInv
  <2>1. AnyShut(items, c)
    BY CallKeys DEF ItemInv, ClosedInv
  <2>2. Cust(to, call[c])
    BY <1>2, <2>1, ShutThere
  <2>3. reader = "returned"
    BY <2>2 DEF ItemInv, CustomInv
  <2> QED BY <2>3, ReadOver
<1> QED BY <1>1, <1>3, <1>4 DEF ItemInv

(* An item more. *)
LEMMA ItemMore ==
    ASSUME Out, ItemInv, Asking, NEW k \in ItemKeys, AddItem(k), UNCHANGED <<to, call, added, done, result, status, reader, ending>>,
           to = "gemini" => k \in Calls,
           \A x \in ItemKeys : /\ Has(pending', "added", x) <=> to # "gemini" /\ x = k
                               /\ ~Has(pending', "done", x)
    PROVE  ItemInv'
<1>1. pending = <<>> /\ result \in {"none", "failed"} /\ status \notin Good /\ Flowing
  BY AskingState DEF Out, Asking, Flowing
<1>2. \A t, x : ~Has(pending, t, x)
  BY <1>1, NoFrames
<1>3. \A x : /\ Holds(items', x) <=> Holds(items, x) \/ x = k
             /\ AnyShut(items', x) <=> AnyShut(items, x)
  BY ItemAdded DEF Out, DataTypes
<1>4. ShownInv'
  <2>1. CASE to = "gemini"
    BY <1>1, <1>2, <1>3, <2>1 DEF ItemInv, ShownInv
  <2>2. CASE to # "gemini"
    BY <1>2, <1>3, <2>2 DEF ItemInv, ShownInv
  <2> QED BY <2>1, <2>2
<1>5. ClosedInv'
  BY <1>1, <1>2, <1>3 DEF ItemInv, ClosedInv, Good
<1>6. CustomInv'
  BY <1>2, CallKeys DEF ItemInv, CustomInv, Incomplete
<1> QED BY <1>4, <1>5, <1>6 DEF ItemInv

(* Items are closed. *)
LEMMA ItemLess ==
    ASSUME Out, ItemInv, Asking, NEW ks \in SUBSET ItemKeys, Close(ks), UNCHANGED <<to, call, added, done, status>>, to # "chat",
           \A k \in ks : Holds(items, k),
           \A k \in ItemKeys : /\ ~Has(pending', "added", k)
                               /\ Has(pending', "done", k) <=> to # "gemini" /\ k \in ks,
           phase' \in {"new", "first", "looping"} => \A k \in ks : k \in Calls /\ ~Cust(to, call[k]) /\ call[k].state = "ended",
           ending = None \/ UNCHANGED <<reader, ending>>,
           \A c \in ks \intersect Calls : Cust(to, call[c])
              => reader' = "returned" /\ ending' # None /\ ~Incomplete(ending') /\ call[c].state = "ended" /\ call[c].whole,
           result' = "completed" => to \in {"responses", "anthropic"} /\ \A k \in ItemKeys : Shut(items, k) \/ k \in ks
    PROVE  ItemInv'
<1>1. pending = <<>> /\ result \in {"none", "failed"} /\ status \notin Good /\ Flowing
  BY AskingState DEF Out, Asking, Flowing
<1>2. \A t, x : ~Has(pending, t, x)
  BY <1>1, NoFrames
<1>3. \A x : /\ Holds(items', x) <=> Holds(items, x)
             /\ Shut(items', x) <=> Shut(items, x) \/ x \in ks
             /\ AnyShut(items', x) <=> AnyShut(items, x) \/ (x \in ks /\ Holds(items, x))
  BY ItemClosed DEF Out, DataTypes
<1>4. ShownInv'
  <2>1. CASE to = "gemini"
    BY <1>1, <1>2, <1>3, <2>1 DEF ItemInv, ShownInv
  <2>2. CASE to # "gemini"
    BY <1>2, <1>3, <2>2 DEF ItemInv, ShownInv
  <2> QED BY <2>1, <2>2
<1>5. ClosedInv'
  BY <1>1, <1>2, <1>3 DEF ItemInv, ClosedInv, Good, Flowing
<1>6. CustomInv'
  <2> SUFFICES ASSUME NEW c \in Calls, c \in done \/ Has(pending', "done", c), Cust(to, call[c])
               PROVE  reader' = "returned" /\ ending' # None /\ ~Incomplete(ending') /\ call[c].state = "ended" /\ call[c].whole
    BY DEF CustomInv, Incomplete
  <2>1. CASE c \in done
    BY <2>1 DEF ItemInv, CustomInv, Incomplete
  <2>2. CASE Has(pending', "done", c)
    BY <2>2, CallKeys
  <2> QED BY <2>1, <2>2
<1> QED BY <1>4, <1>5, <1>6 DEF ItemInv

-----------------------------------------------------------------------------
LEMMA GotKeep ==
    ASSUME GotInv, UNCHANGED <<to, call, input, got, done>>,
           pending' = pending \/ (pending = <<>> /\ Lone(pending') /\ \A c \in Calls : ~Has(pending', "input", c)),
           \A c \in Calls : Holds(items', c) /\ call[c].state = "ended" /\ (AnyShut(items', c) \/ result' = "completed") =>
              (Holds(items, c) /\ (AnyShut(items, c) \/ result = "completed")) \/ Len(input[c]) = call[c].sent
    PROVE  GotInv'
<1>1. \A c \in Calls : input'[c] = [k \in 1..Len(input'[c]) |-> k]
  BY DEF GotInv
<1>2. \A c \in Calls : Holds(items', c) /\ call'[c].state = "ended" /\ (AnyShut(items', c) \/ result' = "completed")
                           => Len(input'[c]) = call'[c].sent
  BY DEF GotInv
<1>3. CASE pending' = pending
  BY <1>1, <1>2, <1>3 DEF GotInv
<1>4. CASE pending = <<>> /\ Lone(pending') /\ \A c \in Calls : ~Has(pending', "input", c)
  <2>1. \A c \in Calls : GotFor(pending', done', to', call'[c], got'[c], input'[c], c)
    <3> SUFFICES ASSUME NEW c \in Calls PROVE GotFor(pending', done, to, call[c], got[c], input[c], c)
      OBVIOUS
    <3>1. GotFor(<<>>, done, to, call[c], got[c], input[c], c)
      BY <1>4 DEF GotInv
    <3>2. ~OneInput(<<>>, c, got[c], input[c])
      BY DEF OneInput
    <3>3. ~Has(pending', "input", c) /\ ~Has(<<>>, "input", c)
      BY <1>4, NoFrames
    <3> QED BY <3>1, <3>2, <3>3 DEF GotFor
  <2>2. \A c \in Calls : PlaceOf(call'[c]) = "none" => input'[c] = <<>> /\ got'[c] = <<>> /\ ~Has(pending', "input", c)
    BY <1>4 DEF GotInv
  <2> QED BY <1>1, <1>2, <1>4, <2>1, <2>2 DEF GotInv
<1> QED BY <1>3, <1>4

LEMMA GotRead ==
    ASSUME ReadInv, GotInv, ItemInv, EndInv, Asking, Gave, FrameInv,
           UNCHANGED <<to, items, input, got, done, pending, result, phase>>
    PROVE  GotInv'
<1>1. \A c \in Calls : input'[c] = [k \in 1..Len(input'[c]) |-> k]
  BY DEF GotInv
<1>2. \A c \in Calls : Holds(items', c) /\ call'[c].state = "ended" /\ (AnyShut(items', c) \/ result' = "completed")
                           => Len(input'[c]) = call'[c].sent
  <2> SUFFICES ASSUME NEW c \in Calls, Holds(items, c), AnyShut(items, c) \/ result = "completed"
               PROVE  Len(input[c]) = call'[c].sent
    OBVIOUS
  <2>1. result # "completed" /\ Flowing
    BY AskingState DEF Asking, Flowing
  <2>2. call[c].state = "ended"
    BY <2>1, CallKeys DEF ItemInv, ClosedInv
  <2>3. call'[c] = call[c]
    BY <2>2 DEF Gave, Gives
  <2> QED BY <2>1, <2>2, <2>3 DEF GotInv
<1>3. \A c \in Calls : GotFor(pending', done', to', call'[c], got'[c], input'[c], c)
  <2> SUFFICES ASSUME NEW c \in Calls PROVE GotFor(pending, done, to, call'[c], got[c], input[c], c)
    OBVIOUS
  <2>1. GotFor(pending, done, to, call[c], got[c], input[c], c)
    BY DEF GotInv
  <2>2. CASE PlaceOf(call[c]) = "none"
    <3>1. input[c] = <<>> /\ got[c] = <<>> /\ ~Has(pending, "input", c)
      BY <2>2 DEF GotInv
    <3> QED BY <3>1 DEF GotFor
  <2>3. CASE PlaceOf(call[c]) # "none"
    <3>1. call'[c].tool = call[c].tool
      BY <2>3 DEF Gave, Gives
    <3> QED BY <2>1, <3>1 DEF GotFor, Cust
  <2> QED BY <2>2, <2>3
<1>4. \A c \in Calls : PlaceOf(call'[c]) = "none" => input'[c] = <<>> /\ got'[c] = <<>> /\ ~Has(pending', "input", c)
  BY DEF GotInv, Gave, Gives
<1> QED BY <1>1, <1>2, <1>3, <1>4 DEF GotInv

-----------------------------------------------------------------------------
(* The client reads.                                                       *)

LEMMA PulledHas ==
    ASSUME FrameInv, Pull
    PROVE  /\ \A t, k : Has(pending, t, k) <=> (Head(pending).type = t /\ Head(pending).key = k) \/ Has(pending', t, k)
           /\ Lone(pending) => /\ Lone(pending')
                               /\ Head(pending).type = "input" => \A k : ~Has(pending', "input", k) /\ ~Has(pending', "done", k)
                               /\ Head(pending).type = "done" => \A k : ~Has(pending', "input", k)
           /\ \A c, g, i : OneInput(pending, c, g, i)
                => (Head(pending).type = "input" /\ Head(pending).key = c /\ i = g \o Head(pending).pieces) \/ OneInput(pending', c, g, i)
<1> DEFINE n == Len(pending)
           f == Head(pending)
           p == pending
           q == pending'
<1>1. /\ n \in Nat /\ n >= 1 /\ f = p[1] /\ DOMAIN p = 1..n /\ DOMAIN q = 1..(n - 1)
      /\ \A j \in 1..(n - 1) : q[j] = p[j + 1] /\ j + 1 \in 1..n
  BY PulledFrame
<1> HIDE DEF n, f, p, q
<1>2. 1 \in DOMAIN p /\ \A j \in DOMAIN p : j = 1 \/ (j - 1 \in DOMAIN q /\ q[j - 1] = p[j])
  <2> SUFFICES ASSUME NEW j \in 1..n, j # 1 PROVE j - 1 \in 1..(n - 1) /\ q[j - 1] = p[j]
    BY <1>1
  <2> DEFINE i == j - 1
  <2>1. i \in 1..(n - 1) /\ i + 1 = j
    BY <1>1
  <2> HIDE DEF i
  <2>2. q[i] = p[i + 1]
    BY <1>1, <2>1
  <2> QED BY <2>1, <2>2 DEF i
<1>3. \A j \in DOMAIN q : j + 1 \in DOMAIN p /\ q[j] = p[j + 1] /\ j + 1 # 1 /\ j \in Int
  BY <1>1
<1>4. \A t, k : Has(p, t, k) <=> (f.type = t /\ f.key = k) \/ Has(q, t, k)
  BY <1>1, <1>2, <1>3 DEF Has
<1>5. ASSUME Lone(p)
      PROVE  /\ Lone(q)
             /\ f.type = "input" => \A k : ~Has(q, "input", k) /\ ~Has(q, "done", k)
             /\ f.type = "done" => \A k : ~Has(q, "input", k)
  <2>1. ASSUME NEW j \in DOMAIN q, NEW k \in DOMAIN q, q[j].type = "input"
        PROVE  q[k].type # "done" /\ (q[k].type = "input" => j = k)
    <3>1. /\ j + 1 \in DOMAIN p /\ p[j + 1].type = "input" /\ k + 1 \in DOMAIN p /\ p[k + 1] = q[k] /\ j \in Int /\ k \in Int
      BY <1>3, <2>1
    <3> DEFINE a == j + 1
               b == k + 1
    <3>2. a \in DOMAIN p /\ b \in DOMAIN p /\ p[a].type = "input" /\ p[b] = q[k] /\ (a = b => j = k)
      BY <3>1
    <3> HIDE DEF a, b
    <3> QED BY <1>5, <3>2 DEF Lone
  <2>2. ASSUME f.type = "input", NEW j \in DOMAIN q PROVE q[j].type \notin {"input", "done"}
    <3> DEFINE a == j + 1
    <3>1. a \in DOMAIN p /\ p[a] = q[j] /\ a # 1 /\ p[1] = f /\ 1 \in DOMAIN p
      BY <1>1, <1>2, <1>3
    <3> HIDE DEF a
    <3> QED BY <1>5, <2>2, <3>1 DEF Lone
  <2>3. ASSUME f.type = "done", NEW j \in DOMAIN q PROVE q[j].type # "input"
    <3> DEFINE a == j + 1
    <3>1. a \in DOMAIN p /\ p[a] = q[j] /\ p[1] = f /\ 1 \in DOMAIN p
      BY <1>1, <1>2, <1>3
    <3> HIDE DEF a
    <3> QED BY <1>5, <2>3, <3>1 DEF Lone
  <2> QED BY <2>1, <2>2, <2>3 DEF Lone, Has
<1>6. \A c, g, i : OneInput(p, c, g, i) => (f.type = "input" /\ f.key = c /\ i = g \o f.pieces) \/ OneInput(q, c, g, i)
  <2> SUFFICES ASSUME NEW c, NEW g, NEW i, OneInput(p, c, g, i)
               PROVE  (f.type = "input" /\ f.key = c /\ i = g \o f.pieces) \/ OneInput(q, c, g, i)
    OBVIOUS
  <2>1. PICK j \in DOMAIN p : p[j].type = "input" /\ p[j].key = c /\ i = g \o p[j].pieces
    BY DEF OneInput
  <2>2. CASE j = 1
    BY <1>1, <2>1, <2>2
  <2>3. CASE j # 1
    <3> DEFINE a == j - 1
    <3>1. a \in DOMAIN q /\ q[a] = p[j]
      BY <1>2, <2>3
    <3> HIDE DEF a
    <3>2. q[a].type = "input" /\ q[a].key = c /\ i = g \o q[a].pieces
      BY <2>1, <3>1
    <3> QED BY <3>1, <3>2 DEF OneInput
  <2> QED BY <2>2, <2>3
<1> QED BY <1>4, <1>5, <1>6 DEF f, p, q

LEMMA PulledForm ==
    ASSUME Pull, items \in Seq(Items)
    PROVE  \E cs \in SUBSET Calls :
              /\ \A c \in Calls : c \in cs <=> to = "gemini" /\ Head(pending).type = "terminal"
                                               /\ Head(pending).status # "failed" /\ AnyShut(items, c)
              /\ added' = (IF Head(pending).type = "added" THEN added \union {Head(pending).key} ELSE added \union cs)
              /\ done' = (IF Head(pending).type = "done" THEN done \union {Head(pending).key} ELSE done \union cs)
              /\ Head(pending).type = "input" => got' = [got EXCEPT ![Head(pending).key] = @ \o Head(pending).pieces]
              /\ Head(pending).type # "input" =>
                    got' = [c \in Calls |-> IF c \in cs \/ (Head(pending).type = "done" /\ Head(pending).key = c)
                                            THEN input[c] ELSE got[c]]
              /\ status' = IF Head(pending).type = "terminal" /\ status = "none" THEN Head(pending).status ELSE status
<1> DEFINE f == Head(pending)
           cs == {c \in Calls : to = "gemini" /\ f.type = "terminal" /\ f.status # "failed" /\ AnyShut(items, c)}
           ds == IF to = "gemini" /\ f.type = "terminal" /\ f.status # "failed"
                 THEN {c \in Calls : \E i \in DOMAIN items : items[i] = [key |-> c, open |-> FALSE]} ELSE {}
<1>1. ds = cs
  <2>1. \A i \in DOMAIN items : items[i] \in Items
    OBVIOUS
  <2>2. \A x \in Items : \A c : x = [key |-> c, open |-> FALSE] <=> x.key = c /\ ~x.open
    BY DEF Items
  <2>3. \A c : (\E i \in DOMAIN items : items[i] = [key |-> c, open |-> FALSE]) <=> AnyShut(items, c)
    BY <2>1, <2>2 DEF AnyShut
  <2> QED BY <2>3
<1>2. /\ added' = (IF f.type = "added" THEN added \union {f.key} ELSE added \union ds)
      /\ done' = (IF f.type = "done" THEN done \union {f.key} ELSE done \union ds)
      /\ got' = IF f.type = "input" THEN [got EXCEPT ![f.key] = @ \o f.pieces]
                ELSE [c \in Calls |-> IF c \in ds \/ (f.type = "done" /\ f.key = c) THEN input[c] ELSE got[c]]
      /\ status' = IF f.type = "terminal" /\ status = "none" THEN f.status ELSE status
  BY DEF Pull
<1>3. cs \in SUBSET Calls /\ \A c \in Calls : c \in cs <=> to = "gemini" /\ f.type = "terminal" /\ f.status # "failed" /\ AnyShut(items, c)
  OBVIOUS
<1> HIDE DEF cs, ds, f
<1>4. /\ added' = (IF f.type = "added" THEN added \union {f.key} ELSE added \union cs)
      /\ done' = (IF f.type = "done" THEN done \union {f.key} ELSE done \union cs)
      /\ f.type = "input" => got' = [got EXCEPT ![f.key] = @ \o f.pieces]
      /\ f.type # "input" => got' = [c \in Calls |-> IF c \in cs \/ (f.type = "done" /\ f.key = c) THEN input[c] ELSE got[c]]
      /\ status' = IF f.type = "terminal" /\ status = "none" THEN f.status ELSE status
  BY <1>1, <1>2
<1> QED BY <1>3, <1>4 DEF f

LEMMA ItemPull ==
    ASSUME Out, ItemInv, EndInv, Pull
    PROVE  ItemInv'
<1> DEFINE f == Head(pending)
<1>1. /\ f \in Frames /\ pending # <<>> /\ UNCHANGED <<to, phase, items, result, ending, call, reader>>
      /\ 1 \in DOMAIN pending /\ f = pending[1]
  <2>1. UNCHANGED parser
    BY DEF Pull
  <2> QED BY <2>1, PulledFrame DEF Out, Pull, parser
<1>2. \A t, k : Has(pending, t, k) <=> (f.type = t /\ f.key = k) \/ Has(pending', t, k)
  BY PulledHas DEF Out
<1>3. PICK cs \in SUBSET Calls :
              /\ \A c \in Calls : c \in cs <=> to = "gemini" /\ f.type = "terminal" /\ f.status # "failed" /\ AnyShut(items, c)
              /\ added' = (IF f.type = "added" THEN added \union {f.key} ELSE added \union cs)
              /\ done' = (IF f.type = "done" THEN done \union {f.key} ELSE done \union cs)
              /\ status' = IF f.type = "terminal" /\ status = "none" THEN f.status ELSE status
  BY PulledForm DEF Out, DataTypes
<1>4. f.type = "terminal" /\ f.status # "failed" => f.status = result /\ result \in Good
  BY <1>1, FrameFields DEF Out, FrameInv, EndKnown, Good
<1>5. /\ f.type \in {"added", "done"} => f.key \in ItemKeys
      /\ result \in Good => phase \in {"tail", "over"}
  BY <1>1, FrameFields DEF Out, FrameInv, EndKnown
<1> HIDE DEF f
<1>6. CASE to # "gemini"
  <2>1. cs = {} /\ to' # "gemini"
    BY <1>1, <1>3, <1>6
  <2>2. \A k \in ItemKeys : /\ k \in added' \/ Has(pending', "added", k) <=> k \in added \/ Has(pending, "added", k)
                            /\ k \in done' \/ Has(pending', "done", k) <=> k \in done \/ Has(pending, "done", k)
                            /\ k \in added => k \in added'
    BY <1>2, <1>3, <2>1
  <2>3. \A k \in ItemKeys : k \in done' \/ Has(pending', "done", k) => k \in added'
    BY <1>6, <2>2 DEF ItemInv, ShownInv
  <2>4. ShownInv'
    BY <1>1, <2>1, <2>2, <2>3 DEF ItemInv, ShownInv
  <2>5. ClosedInv'
    BY <1>1, <2>1, <2>2 DEF ItemInv, ClosedInv, Flowing
  <2>6. CustomInv'
    BY <1>1, <2>2, CallKeys DEF ItemInv, CustomInv, Incomplete
  <2> QED BY <2>4, <2>5, <2>6 DEF ItemInv
<1>7. CASE to = "gemini"
  <2>1. \A k \in ItemKeys : ~Has(pending, "added", k) /\ ~Has(pending, "done", k)
    BY <1>7 DEF ItemInv, ShownInv
  <2>2. f.type \notin {"added", "done"} /\ \A k \in ItemKeys : ~Has(pending', "added", k) /\ ~Has(pending', "done", k)
    BY <1>2, <1>5, <2>1
  <2>3. added' = added \union cs /\ done' = done \union cs /\ added' = done'
    BY <1>3, <1>7, <2>2 DEF ItemInv, ShownInv
  <2>4. phase' \in {"new", "first", "looping"} => cs = {}
    <3>1. cs # {} => result \in Good
      BY <1>3, <1>4
    <3> QED BY <1>1, <1>5, <3>1
  <2>5. \A k \in cs : AnyShut(items, k) /\ Holds(items, k) /\ k \in Calls
    BY <1>3, ShutThere
  <2>6. ShownInv'
    <3>1. \A k \in done' : Holds(items', k) /\ k \in Calls
      BY <1>1, <1>7, <2>3, <2>5 DEF ItemInv, ShownInv
    <3>2. Flowing' => done' = {}
      BY <1>1, <1>7, <2>3, <2>4 DEF ItemInv, ShownInv, Flowing
    <3> QED BY <1>1, <1>7, <2>2, <2>3, <3>1, <3>2 DEF ShownInv
  <2>7. ASSUME status' = "completed", NEW c \in Calls, Holds(items, c) PROVE c \in added'
    <3>1. CASE status = "completed"
      BY <1>7, <2>3, <2>7, <3>1 DEF ItemInv, ClosedInv
    <3>2. CASE status # "completed"
      <4>1. f.type = "terminal" /\ f.status = "completed"
        BY <1>3, <2>7, <3>2
      <4>2. result = "completed"
        BY <1>4, <4>1
      <4>3. AnyShut(items, c)
        BY <1>7, <2>7, <4>2 DEF ItemInv, ClosedInv
      <4> QED BY <1>3, <1>7, <2>3, <4>1, <4>3
    <3> QED BY <3>1, <3>2
  <2>8. ClosedInv'
    <3>1. \A k \in ItemKeys : k \in done' \/ Has(pending', "done", k) => AnyShut(items', k)
      BY <1>1, <2>2, <2>3, <2>5 DEF ItemInv, ClosedInv
    <3>2. to' \notin {"responses", "anthropic"}
      BY <1>1, <1>7
    <3>3. to' = "gemini" /\ result' = "completed" => \A c \in Calls : Holds(items', c) => AnyShut(items', c)
      BY <1>1 DEF ItemInv, ClosedInv
    <3>4. Flowing' => \A k \in ItemKeys : AnyShut(items', k) => k \in Calls /\ ~Cust(to', call'[k]) /\ call'[k].state = "ended"
      BY <1>1 DEF ItemInv, ClosedInv, Flowing
    <3> QED BY <1>1, <2>7, <3>1, <3>2, <3>3, <3>4 DEF ClosedInv
  <2>9. CustomInv'
    BY <1>1, <1>7 DEF CustomInv, Cust
  <2> QED BY <2>6, <2>8, <2>9 DEF ItemInv
<1> QED BY <1>6, <1>7

LEMMA NoInput == \A c, g, i : ~OneInput(<<>>, c, g, i)
BY DEF OneInput

LEMMA InputHas ==
    ASSUME NEW q, NEW c, NEW g, NEW i, OneInput(q, c, g, i)
    PROVE  Has(q, "input", c)
BY DEF OneInput, Has

LEMMA GotPull ==
    ASSUME Out, GotInv, ItemInv, Pull
    PROVE  GotInv'
<1> DEFINE f == Head(pending)
<1>1. f \in Frames /\ UNCHANGED <<to, phase, items, input, result, call>>
  <2>1. UNCHANGED parser
    BY DEF Pull
  <2> QED BY <2>1, PulledFrame DEF Out, Pull, parser
<1>2. /\ \A t, k : Has(pending, t, k) <=> (f.type = t /\ f.key = k) \/ Has(pending', t, k)
      /\ Lone(pending')
      /\ f.type = "input" => \A k : ~Has(pending', "input", k)
      /\ f.type = "done" => \A k : ~Has(pending', "input", k)
      /\ \A c, g, i : OneInput(pending, c, g, i)
                => (f.type = "input" /\ f.key = c /\ i = g \o f.pieces) \/ OneInput(pending', c, g, i)
  BY PulledHas DEF Out, GotInv
<1>3. PICK cs \in SUBSET Calls :
              /\ \A c \in Calls : c \in cs <=> to = "gemini" /\ f.type = "terminal" /\ f.status # "failed" /\ AnyShut(items, c)
              /\ done' = (IF f.type = "done" THEN done \union {f.key} ELSE done \union cs)
              /\ f.type = "input" => got' = [got EXCEPT ![f.key] = @ \o f.pieces]
              /\ f.type # "input" => got' = [c \in Calls |-> IF c \in cs \/ (f.type = "done" /\ f.key = c) THEN input[c] ELSE got[c]]
  BY PulledForm DEF Out, DataTypes
<1>4. f.type = "input" => f.key \in Calls /\ f.pieces \in Pieces
  BY <1>1, FrameFields
<1> HIDE DEF f
<1>5. got \in [Calls -> Pieces]
  BY DEF Out, DataTypes
<1>6. ASSUME NEW c \in Calls
      PROVE  /\ GotFor(pending', done', to, call[c], got'[c], input[c], c)
             /\ PlaceOf(call[c]) = "none" => input[c] = <<>> /\ got'[c] = <<>> /\ ~Has(pending', "input", c)
  <2>1. GotFor(pending, done, to, call[c], got[c], input[c], c)
    BY DEF GotInv
  <2>2. PlaceOf(call[c]) = "none" => input[c] = <<>> /\ got[c] = <<>> /\ ~Has(pending, "input", c)
    BY DEF GotInv
  <2>3. CASE f.type = "input" /\ f.key = c
    <3>1. Has(pending, "input", c) /\ ~Has(pending', "input", c)
      BY <1>2, <2>3
    <3>2. c \notin done /\ ~(to = "gemini" \/ Cust(to, call[c])) /\ OneInput(pending, c, got[c], input[c])
      BY <2>1, <3>1 DEF GotFor
    <3>3. ~OneInput(pending', c, got[c], input[c])
      BY <3>1, InputHas
    <3>4. input[c] = got[c] \o f.pieces
      BY <1>2, <3>2, <3>3
    <3>5. got'[c] = input[c]
      BY <1>3, <1>5, <2>3, <3>4
    <3>6. c \notin done'
      BY <1>3, <2>3, <3>2
    <3> QED BY <2>2, <3>1, <3>2, <3>5, <3>6 DEF GotFor
  <2>4. CASE f.type = "input" /\ f.key # c
    <3>1. ~Has(pending', "input", c) /\ ~Has(pending, "input", c)
      BY <1>2, <2>4
    <3>2. got'[c] = got[c] /\ (c \in done' <=> c \in done)
      BY <1>3, <1>5, <2>4
    <3>3. ~OneInput(pending, c, got[c], input[c])
      BY <3>1, InputHas
    <3> QED BY <2>1, <2>2, <3>1, <3>2, <3>3 DEF GotFor
  <2>5. CASE f.type = "done"
    <3>1. ~Has(pending', "input", c) /\ ~Has(pending, "input", c)
      BY <1>2, <2>5
    <3>2. ~OneInput(pending, c, got[c], input[c])
      BY <3>1, InputHas
    <3>3. cs = {}
      BY <1>3, <2>5
    <3>4. IF f.key = c THEN got'[c] = input[c] /\ c \in done' ELSE got'[c] = got[c] /\ (c \in done' <=> c \in done)
      BY <1>3, <2>5, <3>3
    <3> QED BY <2>1, <2>2, <3>1, <3>2, <3>4 DEF GotFor
  <2>6. CASE f.type \notin {"input", "done"}
    <3>1. Has(pending', "input", c) <=> Has(pending, "input", c)
      BY <1>2, <2>6
    <3>2. OneInput(pending, c, got[c], input[c]) => OneInput(pending', c, got[c], input[c])
      BY <1>2, <2>6
    <3>3. IF c \in cs THEN got'[c] = input[c] /\ c \in done' ELSE got'[c] = got[c] /\ (c \in done' <=> c \in done)
      BY <1>3, <2>6
    <3>4. c \in cs => to = "gemini"
      BY <1>3
    <3>5. CASE c \in cs
      BY <2>1, <2>2, <3>1, <3>3, <3>4, <3>5 DEF GotFor
    <3>6. CASE c \notin cs
      BY <2>1, <2>2, <3>1, <3>2, <3>3, <3>6 DEF GotFor
    <3> QED BY <3>5, <3>6
  <2> QED BY <2>3, <2>4, <2>5, <2>6
<1>7. \A c \in Calls : input'[c] = [k \in 1..Len(input'[c]) |-> k]
  BY <1>1 DEF GotInv
<1>8. \A c \in Calls : Holds(items', c) /\ call'[c].state = "ended" /\ (AnyShut(items', c) \/ result' = "completed")
                           => Len(input'[c]) = call'[c].sent
  BY <1>1 DEF GotInv
<1> QED BY <1>1, <1>2, <1>6, <1>7, <1>8 DEF GotInv

-----------------------------------------------------------------------------
LEMMA Counted ==
    ASSUME NEW a \in Pieces, NEW b \in Pieces, a = [k \in 1..Len(a) |-> k], b = [k \in 1..Len(b) |-> Len(a) + k]
    PROVE  a \o b = [k \in 1..Len(a \o b) |-> k]
<1> DEFINE m == Len(a)
           n == Len(b)
           q == a \o b
<1>1. /\ q \in Seq(Nat) /\ Len(q) = m + n /\ m \in Nat /\ n \in Nat /\ DOMAIN q = 1..(m + n)
      /\ \A j \in 1..m : q[j] = a[j]
      /\ \A j \in 1..n : q[m + j] = b[j]
  BY Joined DEF Pieces
<1>2. (\A j \in 1..m : a[j] = j) /\ (\A j \in 1..n : b[j] = m + j)
  <2> DEFINE x == [k \in 1..m |-> k]
             y == [k \in 1..n |-> m + k]
  <2>1. a = x /\ b = y
    OBVIOUS
  <2>2. (\A j \in 1..m : x[j] = j) /\ (\A j \in 1..n : y[j] = m + j)
    OBVIOUS
  <2> HIDE DEF x, y, m, n
  <2> QED BY <2>1, <2>2
<1> HIDE DEF m, n, q
<1>3. \A j \in 1..(m + n) : q[j] = j
  <2> SUFFICES ASSUME NEW j \in 1..(m + n) PROVE q[j] = j
    OBVIOUS
  <2>1. CASE j <= m
    BY <1>1, <1>2, <2>1
  <2>2. CASE j > m
    <3> DEFINE i == j - m
    <3>1. i \in 1..n /\ m + i = j
      BY <1>1, <2>2
    <3> HIDE DEF i
    <3>2. q[m + i] = b[i] /\ b[i] = m + i
      BY <1>1, <1>2, <3>1
    <3> QED BY <3>1, <3>2
  <2> QED BY <1>1, <2>1, <2>2
<1>4. q = [k \in 1..Len(q) |-> k]
  <2>1. q = [k \in 1..(m + n) |-> q[k]]
    BY <1>1
  <2> QED BY <1>1, <1>3, <2>1
<1> QED BY <1>4 DEF q

LEMMA GotArgs ==
    ASSUME Safe, NEW x \in Calls, NEW ps, TakeArgs(x, ps)
    PROVE  GotInv'
<1> DEFINE fs == IF to = "gemini" \/ Custom(x) \/ ps = <<>> THEN <<>> ELSE <<Input(x, ps)>>
<1>1. /\ Asking /\ queue # <<>> /\ Args(x, ps) = Head(queue) /\ Taken /\ x \notin suppressed /\ Give(fs)
      /\ input' = [input EXCEPT ![x] = @ \o ps]
      /\ UNCHANGED <<to, items, ended, suppressed, ending, result, client>>
  BY DEF TakeArgs, NextIs
<1>2. Args(x, ps).type = "args" /\ Args(x, ps).pieces = ps /\ Args(x, ps).call = x
  BY DEF Args
<1>3. ps \in Pieces
  <2>1. Head(queue) \in Events
    BY <1>1, HeadEvent DEF Out, Safe
  <2>2. Args(x, ps) \in Events
    BY <1>1, <2>1
  <2> QED BY <1>2, <2>2, EventFields
<1>4. pending = <<>> /\ result \in {"none", "failed"} /\ Flowing
  BY <1>1, AskingState DEF Safe, Out, Asking, Flowing
<1>5. Head(queue).type = "args" /\ Head(queue).call = x /\ Head(queue).pieces = ps /\ OfCall(Head(queue))
  BY <1>1, <1>2 DEF OfCall
<1>6. /\ Holds(items, x)
      /\ to # "chat" => ~(IF Custom(x) THEN x \in ended ELSE AnyShut(items, x))
      /\ ps = [k \in 1..Len(ps) |-> Len(input[x]) + k]
  <2>1. ReadInv /\ FlowInv
    BY DEF Safe, Out
  <2> QED BY <1>1, <1>4, <1>5, <2>1, HeadSeen
<1>7. PlaceOf(call[x]) # "none"
  BY <1>1, <1>5, LastTaken DEF Safe, Out
<1>8. x \in ItemKeys /\ (Custom(x) <=> Cust(to, call[x]))
  BY CallKeys, CustomIs
<1>9. ~AnyShut(items, x) /\ x \notin done
  BY <1>4, <1>6, <1>8 DEF Safe, ItemInv, ShownInv, ClosedInv
<1>10. input \in [Calls -> Pieces] /\ got \in [Calls -> Pieces]
  BY DEF Safe, Out, DataTypes
<1>11. input'[x] = input[x] \o ps /\ \A c \in Calls : c # x => input'[c] = input[c]
  BY <1>1, <1>10
<1>12. UNCHANGED <<to, items, call, got, done, result>>
  BY <1>1 DEF client, Taken
<1>13. \A c \in Calls : input'[c] = [k \in 1..Len(input'[c]) |-> k]
  <2>1. input[x] \in Pieces /\ input[x] = [k \in 1..Len(input[x]) |-> k]
    BY <1>10 DEF Safe, GotInv
  <2> DEFINE a == input[x]
  <2>2. a \in Pieces /\ a = [k \in 1..Len(a) |-> k] /\ ps = [k \in 1..Len(ps) |-> Len(a) + k]
    BY <1>6, <2>1
  <2> HIDE DEF a
  <2>3. a \o ps = [k \in 1..Len(a \o ps) |-> k]
    BY ONLY <1>3, <2>2, Counted
  <2>4. input'[x] = [k \in 1..Len(input'[x]) |-> k]
    BY <1>11, <2>3 DEF a
  <2>5. ASSUME NEW c \in Calls, c # x PROVE input'[c] = [k \in 1..Len(input'[c]) |-> k]
    BY <1>11, <2>5 DEF Safe, GotInv
  <2> QED BY <2>4, <2>5
<1>14. \A c \in Calls : Holds(items', c) /\ call'[c].state = "ended" /\ (AnyShut(items', c) \/ result' = "completed")
                           => Len(input'[c]) = call'[c].sent
  BY <1>4, <1>9, <1>11, <1>12 DEF Safe, GotInv
<1>15. /\ fs \in Seq(Frames) /\ Lone(fs)
       /\ \A c \in Calls : Has(fs, "input", c) => c = x
       /\ to = "gemini" \/ Custom(x) \/ ps = <<>> => fs = <<>>
       /\ ~(to = "gemini" \/ Custom(x) \/ ps = <<>>) => \A g : OneInput(fs, x, g, g \o ps)
  <2>1. CASE to = "gemini" \/ Custom(x) \/ ps = <<>>
    <3>1. <<>> \in Seq(Frames)
      OBVIOUS
    <3> QED BY <2>1, <3>1, FewFrames
  <2>2. CASE ~(to = "gemini" \/ Custom(x) \/ ps = <<>>)
    <3> DEFINE e == Input(x, ps)
    <3>1. e \in Frames /\ e.type = "input" /\ e.key = x /\ e.pieces = ps
      BY <1>3, PlainFrames
    <3>2. fs = <<e>>
      BY <2>2
    <3> HIDE DEF e, fs
    <3>3. <<e>> \in Seq(Frames) /\ DOMAIN <<e>> = {1} /\ <<e>>[1] = e
      BY <3>1, OneFrame
    <3>4. Lone(fs) /\ \A c \in Calls : Has(fs, "input", c) => c = x
      BY <3>1, <3>2, FewFrames
    <3>5. \A g : OneInput(fs, x, g, g \o ps)
      BY <3>1, <3>2, <3>3 DEF OneInput
    <3> QED BY <2>2, <3>2, <3>3, <3>4, <3>5
  <2> QED BY <2>1, <2>2
<1> HIDE DEF fs
<1>16. GivenAs(pending', fs) /\ pending' \in Seq(Frames)
  <2>1. GivenAs(pending', fs)
    BY <1>1, <1>15, GiveAs DEF Safe, Out
  <2>2. Out'
    BY TakeArgsOut DEF Safe
  <2> QED BY <2>1, <2>2 DEF Out, FrameInv, FrameTypes
<1>17. /\ Lone(pending') /\ \A c \in Calls : Has(pending', "input", c) <=> Has(fs, "input", c)
       /\ \A g, i : OneInput(fs, x, g, i) => OneInput(pending', x, g, i)
  BY <1>15, <1>16, HasAs
<1>18. ASSUME NEW c \in Calls PROVE GotFor(pending', done', to', call'[c], got'[c], input'[c], c)
  <2>1. GotFor(<<>>, done, to, call[c], got[c], input[c], c)
    BY <1>4 DEF Safe, GotInv
  <2>2. ~Has(<<>>, "input", c) /\ ~OneInput(<<>>, c, got[c], input[c])
    BY NoFrames, NoInput
  <2>3. CASE c # x
    <3>1. ~Has(pending', "input", c)
      BY <1>15, <1>17, <2>3
    <3> QED BY <1>11, <1>12, <2>1, <2>2, <2>3, <3>1 DEF GotFor
  <2>4. CASE c = x
    <3>1. CASE to = "gemini" \/ Custom(x)
      <4>1. ~Has(pending', "input", c)
        BY <1>15, <1>17, <3>1, NoFrames
      <4> QED BY <1>8, <1>9, <1>12, <2>1, <2>4, <3>1, <4>1 DEF GotFor
    <3>2. CASE ~(to = "gemini" \/ Custom(x))
      <4>1. got[x] = input[x]
        BY <1>8, <1>9, <2>1, <2>2, <2>4, <3>2 DEF GotFor
      <4>2. CASE ps = <<>>
        <5>1. ~Has(pending', "input", c)
          BY <1>15, <1>17, <4>2, NoFrames
        <5>2. \A a \in Pieces : a \o <<>> = a
          BY DEF Pieces
        <5>3. input'[x] = input[x]
          BY <1>10, <1>11, <4>2, <5>2
        <5> QED BY <1>8, <1>9, <1>12, <2>4, <3>2, <4>1, <5>1, <5>3 DEF GotFor
      <4>3. CASE ps # <<>>
        <5>1. OneInput(pending', x, got[x], input'[x])
          BY <1>11, <1>15, <1>17, <3>2, <4>1, <4>3
        <5> QED BY <1>8, <1>9, <1>12, <2>4, <3>2, <5>1 DEF GotFor
      <4> QED BY <4>2, <4>3
    <3> QED BY <3>1, <3>2
  <2> QED BY <2>3, <2>4
<1>19. ASSUME NEW c \in Calls, PlaceOf(call'[c]) = "none"
       PROVE  input'[c] = <<>> /\ got'[c] = <<>> /\ ~Has(pending', "input", c)
  <2>1. c # x
    BY <1>7, <1>12, <1>19
  <2>2. ~Has(pending', "input", c)
    BY <1>15, <1>17, <2>1
  <2> QED BY <1>11, <1>12, <1>19, <2>1, <2>2 DEF Safe, GotInv
<1> QED BY <1>13, <1>14, <1>17, <1>18, <1>19 DEF GotInv

-----------------------------------------------------------------------------
(* Steps that touch no call.                                               *)

LEMMA PlainGiven ==
    ASSUME FrameInv, Asking, NEW fs \in Seq(Frames), Plain(fs), Give(fs)
    PROVE  Plain(pending')
<1>1. PICK o \in {0, 1} : \A j \in DOMAIN pending' : pending'[j].type \in Bare \/ (j - o \in DOMAIN fs /\ pending'[j] = fs[j - o])
  BY GiveAs DEF GivenAs
<1> QED BY <1>1 DEF Plain

LEMMA PlainFew ==
    /\ <<>> \in Seq(Frames) /\ Plain(<<>>)
    /\ \A x \in Frames : x.type \in Bare => <<x>> \in Seq(Frames) /\ Plain(<<x>>)
    /\ Delta \in Frames /\ Delta.type \in Bare /\ Failed \in Frames /\ Failed.type \in Bare
    /\ Created \in Frames /\ Created.type \in Bare
    /\ \A st \in {"completed", "incomplete", "failed"} : Terminal(st) \in Frames /\ Terminal(st).type \in Bare
<1>1. <<>> \in Seq(Frames) /\ Plain(<<>>)
  BY DEF Plain
<1>2. ASSUME NEW x \in Frames, x.type \in Bare PROVE <<x>> \in Seq(Frames) /\ Plain(<<x>>)
  <2>1. DOMAIN <<x>> = {1} /\ <<x>>[1] = x /\ <<x>> \in Seq(Frames)
    BY OneFrame
  <2> QED BY <1>2, <2>1 DEF Plain
<1>3. Delta.type \in Bare /\ Failed.type \in Bare /\ Created.type \in Bare /\ \A st : Terminal(st).type \in Bare
  BY DEF Delta, Failed, Created, Terminal, Bare
<1> QED BY <1>1, <1>2, <1>3, FrameKinds

(* What neither takes an event nor touches the items. *)
LEMMA SafeQuiet ==
    ASSUME Safe, Out', UNCHANGED <<parser, to, items, input, ended, ending, suppressed, passed, added, done, got>>,
           phase' \in {"new", "first", "looping"} => Flowing, canceled => canceled',
           result' = result \/ (result = "none" /\ result' = "failed"),
           status' = "completed" => status = "completed",
           pending' = pending \/ (pending = <<>> /\ Plain(pending'))
    PROVE  Safe'
<1>1. UNCHANGED <<from, json, reader, call, queue, said>>
  BY DEF parser
<1>2. /\ \A t \in {"added", "done", "input"} : \A k : Has(pending', t, k) <=> Has(pending, t, k)
      /\ pending' = pending \/ (pending = <<>> /\ Lone(pending'))
  BY PlainHas, NoFrames
<1>3. FlowInv'
  BY <1>1, FlowSame DEF Safe
<1>4. EndInv'
  BY <1>1, EndKeep DEF Safe, Good
<1>5. ItemInv'
  BY <1>1, <1>2, ItemKeep DEF Safe
<1>6. \A c \in Calls : pending' = pending \/ ~Has(pending', "input", c)
  BY <1>2, NoFrames
<1>7. GotInv'
  BY <1>1, <1>2, <1>6, GotKeep DEF Safe
<1> QED BY <1>3, <1>4, <1>5, <1>7 DEF Safe

(* An event is taken that touches no item. *)
LEMMA TakenQuiet ==
    ASSUME Safe, Out', Asking, queue # <<>>, Taken, UNCHANGED <<to, items, input, ended, suppressed, passed, added, done, got, status>>,
           phase' \in {"new", "first", "looping"} => ~OfCall(Head(queue)),
           result' = result \/ result' = "failed", Plain(pending'),
           Head(queue).type \in {"end", "error"} /\ phase' \in {"new", "first", "looping"}
              => ending' # None \/ result' # "none" \/ canceled',
           ending' # None => ending' = ending
              \/ (Head(queue).type = "end" /\ EndOf(ending') /\ ending' # "other" /\ (ending' = "tool_calls" => passed'))
    PROVE  Safe'
<1>1. pending = <<>> /\ result \in {"none", "failed"} /\ Flowing
  BY AskingState DEF Safe, Out, Asking, Flowing
<1>2. ending = None
  BY DEF Safe, EndInv
<1>3. call' = call /\ result' \in {"none", "failed"}
  BY <1>1 DEF Taken
<1>4. \A t \in {"added", "done", "input"} : \A k : Has(pending', t, k) <=> Has(pending, t, k)
  BY <1>1, PlainHas, NoFrames
<1>5. FlowInv'
  <2>1. CASE phase' \in {"new", "first", "looping"}
    BY <1>1, <2>1, FlowQuiet DEF Safe, Out
  <2>2. CASE phase' \notin {"new", "first", "looping"}
    BY <2>2 DEF FlowInv, Flowing
  <2> QED BY <2>1, <2>2
<1>6. EndInv'
  BY <1>3, EndTaken DEF Safe, EndInv, Good
<1>7. ItemInv'
  BY <1>1, <1>2, <1>3, <1>4, ItemKeep DEF Safe
<1>8. \A c \in Calls : ~Has(pending', "input", c)
  BY <1>1, <1>4, NoFrames
<1>9. GotInv'
  BY <1>1, <1>3, <1>8, PlainHas, GotKeep DEF Safe
<1> QED BY <1>5, <1>6, <1>7, <1>9 DEF Safe

LEMMA FailPlain ==
    ASSUME Fail
    PROVE  /\ phase' = "tail" /\ Plain(pending') /\ result' = (IF result = "none" THEN "failed" ELSE result)
<1>1. pending' = <<Failed>> \/ pending' = <<>>
  BY DEF Fail
<1>2. Plain(pending')
  BY <1>1, PlainFew
<1> QED BY <1>2 DEF Fail, Decide

LEMMA StutterSafe ==
    ASSUME Safe, UNCHANGED vars
    PROVE  Safe'
<1>1. Out'
  BY StutterOut DEF Safe
<1>2. UNCHANGED <<parser, to, items, input, ended, ending, suppressed, passed, added, done, got, phase, canceled, result, status, pending>>
  BY DEF vars, shell, client
<1> QED BY <1>1, <1>2, SafeQuiet DEF Flowing

LEMMA BeginSafe ==
    ASSUME Safe, Begin
    PROVE  Safe'
<1>1. Out'
  BY BeginOut DEF Safe
<1>2. UNCHANGED <<parser, to, items, input, ended, ending, result, suppressed, passed, canceled, added, done, got, status>> /\ phase = "new"
  BY DEF Begin, client
<1>3. pending = <<>>
  BY <1>2 DEF Safe, Out, FrameInv, Phased
<1>4. pending' = <<Created>> \/ pending' = <<>>
  BY DEF Begin
<1>5. Plain(pending')
  BY <1>4, PlainFew
<1> QED BY <1>1, <1>2, <1>3, <1>5, SafeQuiet DEF Flowing

LEMMA FinishSafe ==
    ASSUME Safe, Finish
    PROVE  Safe'
<1>1. Out'
  BY FinishOut DEF Safe
<1>2. UNCHANGED <<parser, to, items, input, ended, ending, result, suppressed, passed, canceled, added, done, got, pending>>
      /\ phase' = "over" /\ (status' = "completed" => status = "completed")
  BY DEF Finish
<1> QED BY <1>1, <1>2, SafeQuiet

LEMMA StopSafe ==
    ASSUME Safe, Abort \/ Cancel
    PROVE  Safe'
<1>1. Out'
  BY StopOut DEF Safe
<1>2. UNCHANGED <<parser, to, items, input, ended, ending, suppressed, passed, added, done, got, pending, status>>
      /\ HandleAbort /\ (phase' = phase \/ phase' = "over")
  BY DEF Abort, Cancel, client
<1>3. (canceled => canceled') /\ (result' = result \/ (result = "none" /\ result' = "failed"))
  BY <1>2 DEF HandleAbort, Decide
<1> QED BY <1>1, <1>2, <1>3, SafeQuiet DEF Flowing

LEMMA ThrowSafe ==
    ASSUME Safe, SourceThrows
    PROVE  Safe'
<1>1. Out'
  BY SourceThrowsOut DEF Safe
<1>2. UNCHANGED <<parser, to, items, input, ended, ending, suppressed, passed, canceled, woken, client>> /\ Fail /\ Asking
  BY DEF SourceThrows
<1> QED BY <1>1, <1>2, FailPlain, SafeQuiet DEF client, Asking

LEMMA ParseSafe ==
    ASSUME Safe, Parse
    PROVE  Safe'
<1>1. Out'
  BY ParseOut DEF Safe
<1>2. Read /\ Asking /\ UNCHANGED <<to, phase, shell, suppressed, passed, canceled, final, woken, orderly, client>>
  BY DEF Parse
<1>3. Gave /\ queue = <<>> /\ Flowing
  BY <1>2, ReadGives, ReadOver DEF Safe, Out, Gave, Asking, Flowing
<1>4. UNCHANGED <<items, input, ended, ending, pending, result, added, done, got, status>>
  BY <1>2 DEF shell, client
<1>5. ended \subseteq Calls /\ done \subseteq ItemKeys
  BY DEF Safe, Out, DataTypes, FrameInv, FrameTypes
<1>6. FlowInv'
  BY <1>2, <1>3, <1>4, FlowRead DEF Safe, Out
<1>7. EndInv'
  BY <1>2, <1>3, <1>4, <1>5, EndRead DEF Safe, Out
<1>8. ItemInv'
  BY <1>2, <1>3, <1>4, <1>5, ItemRead DEF Safe, Out
<1>9. GotInv'
  BY <1>2, <1>3, <1>4, GotRead DEF Safe, Out
<1> QED BY <1>1, <1>6, <1>7, <1>8, <1>9 DEF Safe

LEMMA PullSafe ==
    ASSUME Safe, Pull
    PROVE  Safe'
<1>1. Out'
  BY PullOut DEF Safe
<1>2. UNCHANGED <<parser, to, phase, items, input, ended, ending, result, suppressed, passed, canceled>>
  BY DEF Pull
<1>3. UNCHANGED <<from, json, reader, call, queue, said>>
  BY <1>2 DEF parser
<1>4. FlowInv'
  BY <1>2, <1>3, FlowSame DEF Safe, Flowing
<1>5. EndInv'
  BY <1>2, <1>3, EndKeep DEF Safe, Flowing
<1>6. ItemInv' /\ GotInv'
  BY ItemPull, GotPull DEF Safe
<1> QED BY <1>1, <1>4, <1>5, <1>6 DEF Safe

LEMMA SkipSafe ==
    ASSUME Safe, Skip
    PROVE  Safe'
<1>1. Out'
  BY SkipOut DEF Safe
<1>2. /\ Asking /\ queue # <<>> /\ Head(queue).type \in {"args", "call end"} /\ Taken
      /\ UNCHANGED <<to, phase, suppressed, passed, canceled, pending, items, input, ended, ending, result, added, done, got, status>>
  BY DEF Skip, Skipped, shell, client
<1>3. pending = <<>> /\ result \in {"none", "failed"} /\ Flowing /\ ending = None /\ call' = call
  BY <1>2, AskingState DEF Safe, Out, Asking, Flowing, EndInv, Taken
<1>4. FlowInv'
  BY FlowSkip DEF Safe
<1>5. EndInv'
  BY <1>2, <1>3, EndTaken DEF Safe, EndInv, Good
<1>6. ItemInv'
  BY <1>2, <1>3, ItemKeep DEF Safe
<1>7. GotInv'
  BY <1>2, <1>3, GotKeep DEF Safe
<1> QED BY <1>1, <1>4, <1>5, <1>6, <1>7 DEF Safe

LEMMA TakeCanceledSafe ==
    ASSUME Safe, TakeCanceled
    PROVE  Safe'
<1>1. Out'
  BY TakeCanceledOut DEF Safe
<1>2. /\ Asking /\ queue # <<>> /\ Taken /\ phase' = "tail"
      /\ UNCHANGED <<to, suppressed, passed, pending, items, input, ended, ending, result, added, done, got, status>>
  BY DEF TakeCanceled, shell, client
<1>3. Plain(pending')
  BY <1>2, PlainFew DEF Asking
<1> QED BY <1>1, <1>2, <1>3, TakenQuiet

LEMMA TakeStartSafe ==
    ASSUME Safe, TakeStart
    PROVE  Safe'
<1>1. Out'
  BY TakeStartOut DEF Safe
<1>2. /\ Asking /\ queue # <<>> /\ Taken /\ Start = Head(queue) /\ Give(<<>>)
      /\ UNCHANGED <<to, suppressed, passed, items, input, ended, ending, result, added, done, got, status>>
  BY DEF TakeStart, NextIs, client
<1>3. Plain(pending')
  BY <1>2, PlainFew, PlainGiven DEF Safe, Out
<1>4. Start.type = "start"
  BY DEF Start
<1>5. Head(queue).type = "start"
  BY <1>2, <1>4
<1>6. ~OfCall(Head(queue)) /\ Head(queue).type \notin {"end", "error"}
  BY <1>5 DEF OfCall
<1> QED BY <1>1, <1>2, <1>3, <1>6, TakenQuiet

LEMMA TakeErrorSafe ==
    ASSUME Safe, TakeError
    PROVE  Safe'
<1>1. Out'
  BY TakeErrorOut DEF Safe
<1>2. /\ Asking /\ queue # <<>> /\ Taken /\ Error = Head(queue)
      /\ UNCHANGED <<to, suppressed, passed, items, input, ended, ending, added, done, got, status>>
      /\ \/ phase = "first" /\ Give(IF result = "none" THEN <<Failed>> ELSE <<>>) /\ Decide("failed")
         \/ Fail
  BY DEF TakeError, NextIs, client
<1>3. Plain(pending')
  <2>1. CASE Fail
    BY <2>1, FailPlain
  <2>2. CASE Give(IF result = "none" THEN <<Failed>> ELSE <<>>)
    <3> DEFINE fs == IF result = "none" THEN <<Failed>> ELSE <<>>
    <3>1. Give(fs) /\ fs \in Seq(Frames) /\ Plain(fs)
      BY <2>2, PlainFew
    <3> HIDE DEF fs
    <3> QED BY <1>2, <3>1, PlainGiven DEF Safe, Out
  <2> QED BY <1>2, <2>1, <2>2
<1>4. Error.type = "error"
  BY DEF Error
<1>5. Head(queue).type = "error"
  BY <1>2, <1>4
<1>6. ~OfCall(Head(queue))
  BY <1>5 DEF OfCall
<1>7. result \in {"none", "failed"}
  BY <1>2, AskingState DEF Safe, Out
<1>8. result' = "failed"
  BY <1>2, <1>7, FailPlain DEF Decide
<1> QED BY <1>1, <1>2, <1>3, <1>6, <1>8, TakenQuiet

LEMMA TakeEndSafe ==
    ASSUME Safe, NEW reason \in AllReasons, TakeEnd(reason)
    PROVE  Safe'
<1>1. Out'
  BY TakeEndOut DEF Safe
<1>2. /\ Asking /\ queue # <<>> /\ Taken /\ End(reason) = Head(queue)
      /\ UNCHANGED <<to, suppressed, passed, items, input, ended, added, done, got, status>>
      /\ \/ reason = "other" /\ Fail /\ ending' = ending
         \/ /\ reason # "other" /\ Give(<<>>) /\ result' = result
            /\ ending' = IF reason = "tool_calls" /\ ~passed THEN "stop" ELSE reason
  BY DEF TakeEnd, NextIs, client, Undecided
<1>3. Plain(pending')
  BY <1>2, FailPlain, PlainFew, PlainGiven DEF Safe, Out
<1>4. End(reason).type = "end" /\ End(reason).reason = reason
  BY DEF End
<1>5. Head(queue).type = "end" /\ Head(queue).reason = reason
  BY <1>2, <1>4
<1>6. ~OfCall(Head(queue)) /\ EndOf(reason)
  BY <1>2, <1>5, LastTaken DEF OfCall, Safe, Out
<1>7. result \in {"none", "failed"} /\ passed' = passed /\ passed \in BOOLEAN
  BY <1>2, AskingState DEF Safe, Out, DataTypes
<1>8. CASE Fail /\ ending' = ending
  BY <1>1, <1>2, <1>3, <1>7, <1>8, FailPlain, TakenQuiet
<1>9. CASE /\ reason # "other" /\ Give(<<>>) /\ result' = result
           /\ ending' = IF reason = "tool_calls" /\ ~passed THEN "stop" ELSE reason
  <2>1. EndOf(ending')
    BY <1>6, <1>9 DEF EndOf, Incomplete
  <2>2. ending' # "other" /\ (ending' = "tool_calls" => passed') /\ ending' # None
    BY <1>7, <1>9, StreamAssumption DEF StreamAssumption, AllReasons
  <2> QED BY <1>1, <1>2, <1>3, <1>5, <1>6, <1>9, <2>1, <2>2, TakenQuiet
<1> QED BY <1>2, <1>8, <1>9

-----------------------------------------------------------------------------
(* Events of content and of calls.                                         *)

LEMMA GivenHas ==
    ASSUME Out, Out', Asking, NEW fs \in Seq(Frames), Give(fs)
    PROVE  /\ \A t \in {"added", "done", "input"} : \A k : Has(pending', t, k) <=> Has(fs, t, k)
           /\ Lone(fs) => Lone(pending')
           /\ pending = <<>> /\ result \in {"none", "failed"} /\ status \notin Good /\ Flowing
<1>1. GivenAs(pending', fs)
  BY GiveAs DEF Out
<1>2. pending' \in Seq(Frames)
  BY DEF Out, FrameInv, FrameTypes
<1>3. /\ \A t \in {"added", "done", "input"} : \A k : Has(pending', t, k) <=> Has(fs, t, k)
      /\ Lone(fs) => Lone(pending')
  BY <1>1, <1>2, HasAs
<1>4. pending = <<>> /\ result \in {"none", "failed"} /\ status \notin Good /\ Flowing
  BY AskingState DEF Out, Asking, Flowing
<1> QED BY <1>3, <1>4

LEMMA TakeContentSafe ==
    ASSUME Safe, NEW event, NEW what, TakeContent(event, what),
           (event = Content(what) /\ what \in Contents) \/ \E c \in Calls : event = CallStart(c)
    PROVE  Safe'
<1> DEFINE key == IF what = "thinking" THEN "thinking" ELSE "text"
           fs == IF Fresh(key) THEN <<Added(key), Delta>> ELSE IF to = "gemini" /\ what = "refusal" THEN <<>> ELSE <<Delta>>
<1>1. Out'
  BY TakeContentOut DEF Safe
<1>2. /\ Asking /\ queue # <<>> /\ event = Head(queue) /\ Taken /\ Give(fs)
      /\ UNCHANGED <<to, input, ended, ending, result, passed, added, done, got, status>>
      /\ IF Fresh(key) THEN AddItem(key) ELSE UNCHANGED items
  BY DEF TakeContent, NextIs, client
<1>3. key \in ItemKeys /\ key \notin Calls
  BY StreamAssumption DEF ItemKeys, StreamAssumption
<1>4. Fresh(key) => to # "gemini"
  BY Zenon DEF Fresh
<1>5. /\ fs \in Seq(Frames) /\ Lone(fs)
      /\ \A k : ~Has(fs, "input", k) /\ ~Has(fs, "done", k) /\ (Has(fs, "added", k) <=> Fresh(key) /\ k = key)
  <2>1. CASE Fresh(key)
    <3> DEFINE a == Added(key)
    <3>1. a \in Frames /\ a.type = "added" /\ a.key = key /\ Delta \in Frames /\ Delta.type \in Bare /\ Delta.type # "terminal"
      BY <1>3, PlainFrames, PlainFew
    <3>2. fs = <<a, Delta>>
      BY <2>1
    <3> HIDE DEF a, fs, key
    <3>3. fs \in Seq(Frames)
      BY <3>1, <3>2, ShortFrames
    <3>4. Lone(fs) /\ \A t \in {"added", "done", "input"} : \A k : Has(fs, t, k) <=> a.type = t /\ a.key = k
      BY <3>1, <3>2, FewFrames
    <3> QED BY <2>1, <3>1, <3>3, <3>4
  <2>2. CASE ~Fresh(key)
    <3>1. fs = <<>> \/ fs = <<Delta>>
      BY <2>2
    <3> HIDE DEF fs, key
    <3>2. fs \in Seq(Frames) /\ Plain(fs)
      BY <3>1, PlainFew
    <3> QED BY <2>2, <3>2, PlainHas
  <2> QED BY <2>1, <2>2
<1> HIDE DEF key, fs
<1>6. /\ \A t \in {"added", "done", "input"} : \A k : Has(pending', t, k) <=> Has(fs, t, k)
      /\ Lone(pending') /\ pending = <<>> /\ result \in {"none", "failed"} /\ Flowing
  BY <1>1, <1>2, <1>5, GivenHas DEF Safe
<1>7. ending = None /\ call' = call /\ reader' = reader
  BY <1>2 DEF Safe, EndInv, Taken
<1>8. Head(queue).type \notin {"end", "error"}
  <2>1. Content(what).type = "content" /\ \A c : CallStart(c).type = "call"
    BY DEF Content, CallStart
  <2> QED BY <1>2, <2>1
<1>9. \A c \in Calls : (Holds(items', c) <=> Holds(items, c)) /\ (AnyShut(items', c) <=> AnyShut(items, c))
  <2>1. CASE AddItem(key)
    BY <1>3, <2>1, ItemAdded DEF Safe, Out, DataTypes
  <2>2. CASE UNCHANGED items
    BY <2>2
  <2> QED BY <1>2, <2>1, <2>2
<1>10. FlowInv'
  BY FlowContent DEF Safe
<1>11. EndInv'
  BY <1>2, <1>6, <1>7, <1>8, <1>9, EndTaken DEF Safe, EndInv, Good
<1>12. ItemInv'
  <2>1. CASE Fresh(key)
    <3>1. AddItem(key) /\ \A x \in ItemKeys : /\ Has(pending', "added", x) <=> to # "gemini" /\ x = key
                                              /\ ~Has(pending', "done", x)
      BY <1>2, <1>4, <1>5, <1>6, <2>1
    <3>2. /\ Out /\ ItemInv /\ Asking /\ key \in ItemKeys /\ (to = "gemini" => key \in Calls)
          /\ UNCHANGED <<to, call, added, done, result, status, reader, ending>>
      BY <1>2, <1>3, <1>4, <1>7, <2>1 DEF Safe
    <3> QED BY <3>1, <3>2, ItemMore
  <2>2. CASE ~Fresh(key)
    <3>1. UNCHANGED items
      BY <1>2, <2>2
    <3>2. \A k : /\ Has(pending', "added", k) <=> Has(pending, "added", k)
                 /\ Has(pending', "done", k) <=> Has(pending, "done", k)
      BY <1>5, <1>6, <2>2, NoFrames
    <3> QED BY <1>2, <1>6, <1>7, <3>1, <3>2, ItemKeep DEF Safe
  <2> QED BY <2>1, <2>2
<1>13. GotInv'
  <2>1. \A c \in Calls : ~Has(pending', "input", c)
    BY <1>5, <1>6
  <2> QED BY <1>2, <1>6, <1>7, <1>9, <2>1, GotKeep DEF Safe
<1> QED BY <1>1, <1>10, <1>11, <1>12, <1>13 DEF Safe

LEMMA TakeCallSafe ==
    ASSUME Safe, NEW x \in Calls, TakeCall(x)
    PROVE  Safe'
<1> DEFINE fs == IF to = "gemini" THEN <<>> ELSE <<Added(x)>>
<1>1. Out'
  BY TakeCallOut DEF Safe
<1>2. /\ Asking /\ queue # <<>> /\ CallStart(x) = Head(queue) /\ Taken /\ Give(fs) /\ AddItem(x) /\ passed' = TRUE
      /\ UNCHANGED <<to, input, ended, ending, result, suppressed, added, done, got, status>>
  BY DEF TakeCall, NextIs, client
<1>3. x \in ItemKeys
  BY CallKeys
<1>4. /\ fs \in Seq(Frames) /\ Lone(fs)
      /\ \A k : ~Has(fs, "input", k) /\ ~Has(fs, "done", k) /\ (Has(fs, "added", k) <=> to # "gemini" /\ k = x)
  <2>1. CASE to = "gemini"
    <3>1. fs = <<>>
      BY <2>1
    <3> HIDE DEF fs
    <3> QED BY <2>1, <3>1, PlainFew, FewFrames
  <2>2. CASE to # "gemini"
    <3> DEFINE a == Added(x)
    <3>1. a \in Frames /\ a.type = "added" /\ a.key = x
      BY <1>3, PlainFrames
    <3>2. fs = <<a>>
      BY <2>2
    <3> HIDE DEF a, fs
    <3>3. fs \in Seq(Frames)
      BY <3>1, <3>2, OneFrame
    <3>4. Lone(fs) /\ \A t, k : Has(fs, t, k) <=> a.type = t /\ a.key = k
      BY <3>1, <3>2, FewFrames
    <3> QED BY <2>2, <3>1, <3>3, <3>4
  <2> QED BY <2>1, <2>2
<1> HIDE DEF fs
<1>5. /\ \A t \in {"added", "done", "input"} : \A k : Has(pending', t, k) <=> Has(fs, t, k)
      /\ Lone(pending') /\ pending = <<>> /\ result \in {"none", "failed"} /\ Flowing
  BY <1>1, <1>2, <1>4, GivenHas DEF Safe
<1>6. ending = None /\ call' = call /\ reader' = reader
  BY <1>2 DEF Safe, EndInv, Taken
<1>7. CallStart(x).type = "call" /\ CallStart(x).call = x
  BY DEF CallStart
<1>8. Head(queue).type = "call" /\ Head(queue).call = x /\ OfCall(Head(queue))
  BY <1>2, <1>7 DEF OfCall
<1>9. PlaceOf(call[x]) # "none"
  BY <1>2, <1>8, LastTaken DEF Safe, Out
<1>10. \A c : /\ Holds(items', c) <=> Holds(items, c) \/ c = x
              /\ AnyShut(items', c) <=> AnyShut(items, c)
  BY <1>2, <1>3, ItemAdded DEF Safe, Out, DataTypes
<1>11. FlowInv'
  BY FlowCall DEF Safe
<1>12. EndInv'
  BY <1>2, <1>5, <1>6, <1>8, <1>9, <1>10, EndTaken DEF Safe, EndInv, Good
<1>13. ItemInv'
  <2>1. \A k \in ItemKeys : /\ Has(pending', "added", k) <=> to # "gemini" /\ k = x
                            /\ ~Has(pending', "done", k)
    BY <1>4, <1>5
  <2>2. /\ Out /\ ItemInv /\ Asking /\ x \in ItemKeys /\ AddItem(x)
        /\ UNCHANGED <<to, call, added, done, result, status, reader, ending>>
    BY <1>2, <1>3, <1>6 DEF Safe
  <2> QED BY <2>1, <2>2, ItemMore
<1>14. GotInv'
  <2>1. \A c \in Calls : ~Has(pending', "input", c)
    BY <1>4, <1>5
  <2> QED BY <1>2, <1>5, <1>6, <1>10, <2>1, ShutThere, GotKeep DEF Safe
<1> QED BY <1>1, <1>11, <1>12, <1>13, <1>14 DEF Safe

LEMMA TakeArgsSafe ==
    ASSUME Safe, NEW x \in Calls, NEW ps, TakeArgs(x, ps)
    PROVE  Safe'
<1> DEFINE fs == IF to = "gemini" \/ Custom(x) \/ ps = <<>> THEN <<>> ELSE <<Input(x, ps)>>
<1>1. Out'
  BY TakeArgsOut DEF Safe
<1>2. /\ Asking /\ queue # <<>> /\ Args(x, ps) = Head(queue) /\ Taken /\ Give(fs)
      /\ UNCHANGED <<to, items, ended, ending, result, suppressed, passed, added, done, got, status>>
  BY DEF TakeArgs, NextIs, client
<1>3. Args(x, ps).type = "args" /\ Args(x, ps).pieces = ps
  BY DEF Args
<1>4. ps \in Pieces
  <2>1. Head(queue) \in Events
    BY <1>2, HeadEvent DEF Out, Safe
  <2>2. Args(x, ps) \in Events
    BY <1>2, <2>1
  <2> QED BY <1>3, <2>2, EventFields
<1>5. fs \in Seq(Frames) /\ \A k : ~Has(fs, "added", k) /\ ~Has(fs, "done", k)
  <2>1. CASE to = "gemini" \/ Custom(x) \/ ps = <<>>
    <3>1. fs = <<>>
      BY <2>1
    <3> HIDE DEF fs
    <3> QED BY <3>1, PlainFew, FewFrames
  <2>2. CASE ~(to = "gemini" \/ Custom(x) \/ ps = <<>>)
    <3> DEFINE a == Input(x, ps)
    <3>1. a \in Frames /\ a.type = "input"
      BY <1>4, PlainFrames
    <3>2. fs = <<a>>
      BY <2>2
    <3> HIDE DEF a, fs
    <3>3. fs \in Seq(Frames)
      BY <3>1, <3>2, OneFrame
    <3>4. \A t, k : Has(fs, t, k) <=> a.type = t /\ a.key = k
      BY <3>1, <3>2, FewFrames
    <3> QED BY <3>1, <3>3, <3>4
  <2> QED BY <2>1, <2>2
<1> HIDE DEF fs
<1>6. /\ \A t \in {"added", "done", "input"} : \A k : Has(pending', t, k) <=> Has(fs, t, k)
      /\ pending = <<>> /\ result \in {"none", "failed"} /\ Flowing
  BY <1>1, <1>2, <1>5, GivenHas DEF Safe
<1>7. ending = None /\ call' = call /\ reader' = reader
  BY <1>2 DEF Safe, EndInv, Taken
<1>8. Head(queue).type \notin {"end", "error"}
  BY <1>2, <1>3
<1>9. FlowInv'
  BY FlowArgs DEF Safe
<1>10. EndInv'
  BY <1>2, <1>6, <1>7, <1>8, EndTaken DEF Safe, EndInv, Good
<1>11. ItemInv'
  <2>1. \A k : /\ Has(pending', "added", k) <=> Has(pending, "added", k)
               /\ Has(pending', "done", k) <=> Has(pending, "done", k)
    BY <1>5, <1>6, NoFrames
  <2> QED BY <1>2, <1>6, <1>7, <2>1, ItemKeep DEF Safe
<1>12. GotInv'
  BY GotArgs
<1> QED BY <1>1, <1>9, <1>10, <1>11, <1>12 DEF Safe

LEMMA TakeCallEndSafe ==
    ASSUME Safe, NEW x \in Calls, TakeCallEnd(x)
    PROVE  Safe'
<1>1. Out'
  BY TakeCallEndOut DEF Safe
<1>2. /\ Asking /\ queue # <<>> /\ CallEnd(x) = Head(queue) /\ Taken /\ x \notin suppressed
      /\ ended' = IF Custom(x) THEN ended \union {x} ELSE ended
      /\ UNCHANGED <<to, input, ending, suppressed, passed, added, done, got, status>>
      /\ \/ Give(<<>>) /\ result' = result /\ UNCHANGED items
         \/ ~Custom(x) /\ Fail /\ UNCHANGED items
         \/ to # "chat" /\ ~Custom(x) /\ EndItem(x)
  BY DEF TakeCallEnd, NextIs, client, Undecided
<1>3. CallEnd(x).type = "call end" /\ CallEnd(x).call = x
  BY DEF CallEnd
<1>4. Head(queue).type = "call end" /\ Head(queue).call = x
  BY <1>2, <1>3
<1>5. pending = <<>> /\ result \in {"none", "failed"} /\ Flowing /\ ending = None /\ call' = call /\ reader' = reader
  BY <1>2, AskingState DEF Safe, Out, Asking, Flowing, EndInv, Taken
<1>6. call[x].state = "ended" /\ Holds(items, x) /\ GaveOf(call[x]) = Len(input[x])
  <2>1. ReadInv /\ FlowInv
    BY DEF Safe, Out
  <2> QED BY <1>2, <1>4, <1>5, <2>1, HeadSeen, LastTaken
<1>7. Custom(x) <=> Cust(to, call[x])
  BY CustomIs
<1>8. CASE ~Custom(x) /\ Fail /\ UNCHANGED items
  BY <1>1, <1>2, <1>4, <1>5, <1>8, FailPlain, TakenQuiet
<1>9. CASE Give(<<>>) /\ result' = result /\ UNCHANGED items
  <2>1. Plain(pending')
    BY <1>2, <1>9, PlainFew, PlainGiven DEF Safe, Out
  <2>2. phase' = "looping"
    BY <1>9 DEF Give
  <2>3. FlowInv'
    BY <2>2, FlowCallEnd DEF Safe
  <2>4. EndInv'
    <3>1. \A c \in ended' : c \in ended
              \/ (c \in Calls /\ call[c].state = "ended" /\ call[c].tool = "custom" /\ to = "responses" /\ Holds(items, c))
      BY <1>2, <1>6, <1>7 DEF Cust
    <3> QED BY <1>2, <1>4, <1>5, <1>9, <3>1, EndTaken DEF Safe, EndInv, Good
  <2>5. ItemInv'
    <3>1. \A k : /\ Has(pending', "added", k) <=> Has(pending, "added", k)
                 /\ Has(pending', "done", k) <=> Has(pending, "done", k)
      BY <1>5, <2>1, PlainHas, NoFrames
    <3> QED BY <1>2, <1>5, <1>9, <3>1, ItemKeep DEF Safe
  <2>6. GotInv'
    BY <1>2, <1>5, <1>9, <2>1, PlainHas, GotKeep DEF Safe
  <2> QED BY <1>1, <2>3, <2>4, <2>5, <2>6 DEF Safe
<1>10. CASE to # "chat" /\ ~Custom(x) /\ EndItem(x)
  <2> DEFINE fs == IF to = "gemini" THEN <<>> ELSE <<Done(x)>>
  <2>1. Give(fs) /\ result' = result /\ Close({x}) /\ phase' = "looping"
    BY <1>10 DEF EndItem, Undecided, Give
  <2>2. /\ fs \in Seq(Frames) /\ Lone(fs)
        /\ \A k : ~Has(fs, "input", k) /\ ~Has(fs, "added", k) /\ (Has(fs, "done", k) <=> to # "gemini" /\ k = x)
    <3>1. CASE to = "gemini"
      <4>1. fs = <<>>
        BY <3>1
      <4> HIDE DEF fs
      <4> QED BY <3>1, <4>1, PlainFew, FewFrames
    <3>2. CASE to # "gemini"
      <4> DEFINE a == Done(x)
      <4>1. a \in Frames /\ a.type = "done" /\ a.key = x
        BY CallKeys, PlainFrames
      <4>2. fs = <<a>>
        BY <3>2
      <4> HIDE DEF a, fs
      <4>3. fs \in Seq(Frames)
        BY <4>1, <4>2, OneFrame
      <4>4. Lone(fs) /\ \A t, k : Has(fs, t, k) <=> a.type = t /\ a.key = k
        BY <4>1, <4>2, FewFrames
      <4> QED BY <3>2, <4>1, <4>3, <4>4
    <3> QED BY <3>1, <3>2
  <2> HIDE DEF fs
  <2>3. /\ \A t \in {"added", "done", "input"} : \A k : Has(pending', t, k) <=> Has(fs, t, k)
        /\ Lone(pending')
    BY <1>1, <1>2, <2>1, <2>2, GivenHas DEF Safe
  <2>4. \A c : /\ Holds(items', c) <=> Holds(items, c)
               /\ AnyShut(items', c) <=> AnyShut(items, c) \/ (c = x /\ Holds(items, c))
    BY <2>1, ItemClosed DEF Safe, Out, DataTypes
  <2>5. FlowInv'
    BY <2>1, FlowCallEnd DEF Safe
  <2>6. EndInv'
    <3>1. ended' = ended
      BY <1>2, <1>10
    <3> QED BY <1>2, <1>4, <1>5, <2>1, <2>4, <3>1, EndTaken DEF Safe, EndInv, Good
  <2>7. ItemInv'
    <3> DEFINE ks == {x}
    <3>1. /\ ks \in SUBSET ItemKeys /\ Close(ks) /\ \A k \in ks : Holds(items, k)
          /\ \A k \in ItemKeys : /\ ~Has(pending', "added", k)
                                 /\ Has(pending', "done", k) <=> to # "gemini" /\ k \in ks
          /\ \A k \in ks : k \in Calls /\ ~Cust(to, call[k]) /\ call[k].state = "ended"
      BY <1>6, <1>7, <1>10, <2>1, <2>2, <2>3, CallKeys
    <3> HIDE DEF ks
    <3>2. \A c \in ks \intersect Calls : ~Cust(to, call[c])
      BY <3>1
    <3> QED BY <1>2, <1>5, <1>10, <2>1, <3>1, <3>2, ItemLess DEF Safe
  <2>8. GotInv'
    <3>1. Len(input[x]) = call[x].sent
      <4>1. call[x].held = 0 /\ call[x] \in CallType
        BY <1>6 DEF Safe, Out, ReadInv, ParserTypes, CallOK
      <4>2. call[x].sent \in Nat
        BY <4>1 DEF CallType
      <4> QED BY <1>6, <4>1, <4>2 DEF GaveOf
    <3>2. \A c \in Calls : ~Has(pending', "input", c)
      BY <2>2, <2>3
    <3> QED BY <1>2, <1>5, <2>1, <2>3, <2>4, <3>1, <3>2, GotKeep DEF Safe
  <2> QED BY <1>1, <2>5, <2>6, <2>7, <2>8 DEF Safe
<1> QED BY <1>2, <1>8, <1>9, <1>10

-----------------------------------------------------------------------------
(* The end of the events.                                                  *)

LEMMA ConcludedCalls ==
    ASSUME ReadInv, FlowInv, Flowing, queue = <<>>, NEW c \in Calls, Holds(items, c)
    PROVE  /\ Len(input[c]) = GaveOf(call[c])
           /\ to # "chat" => (PlaceOf(call[c]) = "ended" <=> IF Cust(to, call[c]) THEN c \in ended ELSE AnyShut(items, c))
           /\ call[c].state = "ended" => Len(input[c]) = call[c].sent
<1>1. PICK s \in Places, m \in Nat :
       /\ Run(<<>>, c, s, m, PlaceOf(call[c]), GaveOf(call[c]))
       /\ Seen(c, s, items, suppressed, ended, to, call[c])
       /\ c \notin suppressed => m = Len(input[c])
  BY DEF FlowInv, Tracks
<1>2. PlaceOf(call[c]) = s /\ GaveOf(call[c]) = m
  BY <1>1, RunEmpty
<1>3. Len(input[c]) = GaveOf(call[c])
  BY <1>1, <1>2 DEF Seen
<1>4. to # "chat" => (PlaceOf(call[c]) = "ended" <=> IF Cust(to, call[c]) THEN c \in ended ELSE AnyShut(items, c))
  BY <1>1, <1>2 DEF Seen
<1>5. ASSUME call[c].state = "ended" PROVE Len(input[c]) = call[c].sent
  <2>1. call[c].held = 0 /\ call[c] \in CallType
    BY <1>5 DEF ReadInv, ParserTypes, CallOK
  <2>2. call[c].sent \in Nat
    BY <2>1 DEF CallType
  <2> QED BY <1>3, <2>1, <2>2 DEF GaveOf
<1> QED BY <1>3, <1>4, <1>5

(* The frames that end an output. *)
LEMMA EndHas ==
    ASSUME items \in Seq(Items), NEW b \in Nat, b <= Len(Closing), NEW st \in {"completed", "incomplete", "failed"},
           NEW q, q = Append(DoneFrames(b), Terminal(st))
    PROVE  /\ Lone(q) /\ \A k : ~Has(q, "added", k) /\ ~Has(q, "input", k) /\ (Has(q, "done", k) <=> k \in Keys(b))
<1> DEFINE d == DoneFrames(b)
           e == Terminal(st)
<1>1. /\ d \in Seq(Frames) /\ Len(d) = b /\ DOMAIN d = 1..b
      /\ \A i \in 1..b : d[i] = Done(Closing[i].key)
  BY DoneTyped
<1>2. e \in Frames /\ e.type = "terminal"
  BY FrameKinds DEF Terminal
<1>3. \A k : Done(k).type = "done" /\ Done(k).key = k
  BY DEF Done
<1>4. \A k : k \in Keys(b) <=> \E i \in 1..b : Closing[i].key = k
  BY DEF Keys
<1>5. q = Append(d, e)
  OBVIOUS
<1> HIDE DEF d, e
<1>6. /\ DOMAIN q = 1..(b + 1) /\ q[b + 1] = e /\ \A j \in 1..b : q[j] = d[j]
  <2>1. /\ Append(d, e) \in Seq(Frames) /\ Len(Append(d, e)) = Len(d) + 1 /\ DOMAIN d = 1..Len(d)
        /\ DOMAIN Append(d, e) = 1..(Len(d) + 1) /\ Len(d) \in Nat
        /\ \A j \in DOMAIN d : j \in DOMAIN Append(d, e) /\ Append(d, e)[j] = d[j]
        /\ Len(d) + 1 \in DOMAIN Append(d, e) /\ Append(d, e)[Len(d) + 1] = e
    BY <1>1, <1>2, Appended
  <2> QED BY <1>1, <1>5, <2>1
<1>7. \A j \in DOMAIN q : (j = b + 1 /\ q[j] = e) \/ (j \in 1..b /\ q[j].type = "done" /\ q[j].key = Closing[j].key)
  <2> SUFFICES ASSUME NEW j \in 1..(b + 1), j # b + 1
               PROVE  j \in 1..b /\ q[j].type = "done" /\ q[j].key = Closing[j].key
    BY <1>6
  <2>1. j \in 1..b
    OBVIOUS
  <2>2. q[j] = Done(Closing[j].key)
    BY <1>1, <1>6, <2>1
  <2> QED BY <1>3, <2>1, <2>2
<1>8. \A k : ~Has(q, "added", k) /\ ~Has(q, "input", k)
  BY <1>2, <1>7 DEF Has
<1>9. Lone(q)
  BY <1>2, <1>7 DEF Lone
<1>10. ASSUME NEW k PROVE Has(q, "done", k) <=> k \in Keys(b)
  <2>1. Has(q, "done", k) => k \in Keys(b)
    BY <1>2, <1>4, <1>7 DEF Has
  <2>2. ASSUME NEW i \in 1..b, Closing[i].key = k PROVE Has(q, "done", k)
    <3>1. i \in DOMAIN q /\ i # b + 1
      BY <1>6
    <3>2. q[i].type = "done" /\ q[i].key = k
      BY <1>7, <2>2, <3>1
    <3> QED BY <3>1, <3>2 DEF Has
  <2> QED BY <1>4, <2>1, <2>2
<1> QED BY <1>8, <1>9, <1>10

(* Items are closed and the output ends. *)
LEMMA ClosingSafe ==
    ASSUME Safe, Out', Asking, queue = <<>>, reader = "returned", ending # None,
           UNCHANGED <<parser, to, input, ended, ending, suppressed, passed, canceled, added, done, got, status>>,
           NEW b \in Nat, b <= Len(Closing), NEW st \in {"completed", "incomplete", "failed"}, to # "chat", to # "gemini",
           pending' = Append(DoneFrames(b), Terminal(st)), Close(Keys(b)), result' = st, phase' = "tail", result = "none",
           to = "responses" => \A i \in 1..b : Sound(Closing[i]),
           st # "failed" => st = Outcome(ending) /\ b = Len(Closing),
           Incomplete(ending) \/ ~Unfinished
    PROVE  Safe'
<1>1. /\ items \in Seq(Items) /\ Flowing /\ pending = <<>> /\ to \in {"responses", "anthropic"}
      /\ UNCHANGED <<from, json, reader, call, queue, said>>
  BY AskingState DEF Safe, Out, DataTypes, Asking, Flowing, parser, FrameInv, FrameTypes, Clients
<1>2. /\ Closing \in Seq(Items) /\ Len(Closing) \in Nat /\ DOMAIN Closing = 1..Len(Closing)
      /\ \A n \in DOMAIN Closing : \E i \in DOMAIN items : Closing[n] = items[i] /\ Closable(items[i])
      /\ \A i \in DOMAIN items : Closable(items[i]) => \E n \in DOMAIN Closing : Closing[n] = items[i]
  BY <1>1, ClosingList
<1> DEFINE ks == Keys(b)
<1>3. \A k : k \in ks <=> \E n \in 1..b : Closing[n].key = k
  BY DEF Keys
<1>4. /\ Lone(pending') /\ \A k : ~Has(pending', "added", k) /\ ~Has(pending', "input", k) /\ (Has(pending', "done", k) <=> k \in ks)
  BY <1>1, EndHas
<1>5. Close(ks)
  OBVIOUS
<1> HIDE DEF ks
<1>6. ASSUME NEW k \in ks
      PROVE  \E i \in DOMAIN items : items[i].key = k /\ Closable(items[i]) /\ (to = "responses" => Sound(items[i]))
  <2>1. PICK n \in 1..b : Closing[n].key = k
    BY <1>3, <1>6
  <2>2. n \in DOMAIN Closing
    <3> DEFINE N == Len(Closing)
    <3>1. N \in Nat /\ b <= N /\ DOMAIN Closing = 1..N
      BY <1>2
    <3> HIDE DEF N
    <3>2. n \in 1..N
      BY <3>1
    <3> QED BY <3>1, <3>2
  <2>3. PICK i \in DOMAIN items : Closing[n] = items[i] /\ Closable(items[i])
    BY <1>2, <2>2
  <2>4. to = "responses" => Sound(items[i])
    BY <2>3
  <2> QED BY <2>1, <2>3, <2>4
<1>7. \A k \in ks : Holds(items, k) /\ k \in ItemKeys
  <2> SUFFICES ASSUME NEW k \in ks PROVE Holds(items, k) /\ k \in ItemKeys
    OBVIOUS
  <2>1. PICK i \in DOMAIN items : items[i].key = k
    BY <1>6
  <2>2. items[i] \in Items
    BY <1>1
  <2> QED BY <2>1, <2>2 DEF Holds, Items
<1>8. \A c : /\ Holds(items', c) <=> Holds(items, c)
             /\ AnyShut(items', c) <=> AnyShut(items, c) \/ (c \in ks /\ Holds(items, c))
  BY <1>1, <1>5, ItemClosed
<1>9. FlowInv'
  BY DEF FlowInv, Flowing
<1>10. EndInv'
  <2>1. result' \in Good => result' = Outcome(ending)
    BY DEF Good
  <2> QED BY <1>1, <1>8, <2>1, EndKeep DEF Safe
<1>11. \A c \in ks \intersect Calls : Cust(to, call[c])
              => reader' = "returned" /\ ending' # None /\ ~Incomplete(ending') /\ call[c].state = "ended" /\ call[c].whole
  <2> SUFFICES ASSUME NEW c \in ks, c \in Calls, Cust(to, call[c])
               PROVE  ~Incomplete(ending) /\ call[c].state = "ended" /\ call[c].whole
    BY <1>1 DEF Incomplete
  <2>1. PICK i \in DOMAIN items : items[i].key = c /\ Closable(items[i]) /\ Sound(items[i])
    BY <1>6 DEF Cust
  <2>2. Custom(c)
    BY CustomIs
  <2>3. ~Incomplete(ending) /\ call[c].whole
    BY <2>1, <2>2 DEF Closable, Sound
  <2>4. c \in ended
    BY <2>1, <2>2, <2>3 DEF Unfinished
  <2> QED BY <2>3, <2>4 DEF Safe, EndInv
<1>12. result' = "completed" => \A k \in ItemKeys : Shut(items, k) \/ k \in ks
  <2> SUFFICES ASSUME st = "completed", NEW i \in DOMAIN items, items[i].open PROVE items[i].key \in ks
    BY DEF Shut
  <2>1. Closable(items[i])
    BY DEF Closable, Outcome
  <2>2. PICK n \in DOMAIN Closing : Closing[n] = items[i]
    BY <1>2, <2>1
  <2> QED BY <1>2, <1>3, <2>2
<1>13. ItemInv'
  <2>1. ks \in SUBSET ItemKeys
    BY <1>7
  <2>2. \A k \in ItemKeys : /\ ~Has(pending', "added", k)
                            /\ Has(pending', "done", k) <=> to # "gemini" /\ k \in ks
    BY <1>4
  <2>3. phase' \in {"new", "first", "looping"} => \A k \in ks : k \in Calls /\ ~Cust(to, call[k]) /\ call[k].state = "ended"
    OBVIOUS
  <2>4. Out /\ ItemInv /\ UNCHANGED <<to, call, added, done, status>>
    BY <1>1 DEF Safe
  <2> QED BY <1>1, <1>5, <1>7, <1>11, <1>12, <2>1, <2>2, <2>3, <2>4, ItemLess
<1>14. GotInv'
  <2>1. \A c \in Calls : Holds(items', c) /\ call[c].state = "ended" => Len(input[c]) = call[c].sent
    BY <1>1, <1>8, ConcludedCalls DEF Safe, Out
  <2> QED BY <1>1, <1>4, <2>1, GotKeep DEF Safe
<1> QED BY <1>9, <1>10, <1>13, <1>14 DEF Safe

LEMMA SourceEndsSafe ==
    ASSUME Safe, SourceEnds
    PROVE  Safe'
<1>1. Out'
  BY SourceEndsOut DEF Safe
<1>2. /\ Asking /\ queue = <<>> /\ reader = "returned" /\ Conclude
      /\ UNCHANGED <<parser, to, input, ended, ending, suppressed, passed, canceled, added, done, got, status>>
  BY DEF SourceEnds, client
<1>3. /\ items \in Seq(Items) /\ to \in Clients /\ canceled \in BOOLEAN /\ Flowing /\ pending = <<>>
      /\ UNCHANGED <<from, json, reader, call, queue, said>>
  BY <1>2, AskingState DEF Safe, Out, DataTypes, Asking, Flowing, parser, FrameInv, FrameTypes
<1>4. CASE (canceled \/ result # "none") /\ Undecided /\ UNCHANGED <<pending, items, late, orderly>> /\ phase' = "tail"
  BY <1>1, <1>2, <1>4, SafeQuiet DEF Undecided
<1>5. CASE Fail /\ UNCHANGED items
  BY <1>1, <1>2, <1>3, <1>5, FailPlain, SafeQuiet
<1>6. ~canceled /\ result = "none" => ending # None
  BY <1>2, <1>3 DEF Safe, EndInv
<1>7. Len(Closing) \in Nat /\ DOMAIN Closing = 1..Len(Closing) /\ Outcome(ending) \in {"completed", "incomplete"}
  BY <1>3, ClosingList DEF Outcome
<1>8. ASSUME ~canceled, result = "none", to = "responses", Incomplete(ending) \/ ~Unfinished, EndResponses, phase' = "tail"
      PROVE  Safe'
  <2>1. CASE /\ \A i \in DOMAIN Closing : Sound(Closing[i])
             /\ pending' = Append(DoneFrames(Len(Closing)), Terminal(Outcome(ending)))
             /\ Close(Keys(Len(Closing))) /\ Decide(Outcome(ending))
    <3>1. result' = Outcome(ending) /\ \A i \in 1..Len(Closing) : Sound(Closing[i])
      BY <1>7, <1>8, <2>1 DEF Decide
    <3> DEFINE b == Len(Closing)
               st == Outcome(ending)
    <3>2. /\ b \in Nat /\ b <= Len(Closing) /\ st \in {"completed", "incomplete", "failed"}
          /\ pending' = Append(DoneFrames(b), Terminal(st)) /\ Close(Keys(b)) /\ result' = st
          /\ \A i \in 1..b : Sound(Closing[i])
          /\ st # "failed" => st = Outcome(ending) /\ b = Len(Closing)
      BY <1>7, <2>1, <3>1
    <3> HIDE DEF b, st
    <3> QED BY <1>1, <1>2, <1>6, <1>8, <3>2, ClosingSafe
  <2>2. ASSUME NEW n \in DOMAIN Closing, \A i \in 1..(n - 1) : Sound(Closing[i]),
               pending' = Append(DoneFrames(n - 1), Failed), Close(Keys(n - 1)), Decide("failed")
        PROVE  Safe'
    <3>1. result' = "failed"
      BY <1>8, <2>2 DEF Decide
    <3> DEFINE b == n - 1
               st == "failed"
    <3>2. /\ b \in Nat /\ b <= Len(Closing) /\ st \in {"completed", "incomplete", "failed"}
          /\ pending' = Append(DoneFrames(b), Terminal(st)) /\ Close(Keys(b)) /\ result' = st
          /\ \A i \in 1..b : Sound(Closing[i])
          /\ st # "failed" => st = Outcome(ending) /\ b = Len(Closing)
      BY <1>7, <2>2, <3>1 DEF Failed
    <3> HIDE DEF b, st
    <3> QED BY <1>1, <1>2, <1>6, <1>8, <3>2, ClosingSafe
  <2> QED BY <1>8, <2>1, <2>2 DEF EndResponses
<1>9. ASSUME ~canceled, result = "none", to # "responses", EndOthers, phase' = "tail"
      PROVE  Safe'
  <2>1. result' = Outcome(ending)
    BY <1>9 DEF EndOthers, Decide
  <2>2. CASE to = "anthropic"
    <3>1. ~Unfinished
      BY <2>2 DEF Unfinished, Custom
    <3> DEFINE b == Len(Closing)
               st == Outcome(ending)
    <3>2. /\ b \in Nat /\ b <= Len(Closing) /\ st \in {"completed", "incomplete", "failed"}
          /\ pending' = Append(DoneFrames(b), Terminal(st)) /\ Close(Keys(b)) /\ result' = st
          /\ st # "failed" => st = Outcome(ending) /\ b = Len(Closing)
      BY <1>7, <1>9, <2>1, <2>2 DEF EndOthers
    <3> HIDE DEF b, st
    <3> QED BY <1>1, <1>2, <1>6, <1>9, <2>2, <3>1, <3>2, ClosingSafe
  <2>3. CASE to # "anthropic"
    <3>1. /\ pending' = <<Terminal(Outcome(ending))>> /\ UNCHANGED items /\ to \in {"chat", "gemini"}
      BY <1>3, <1>9, <2>3 DEF EndOthers, Clients
    <3>2. Plain(pending')
      BY <1>7, <3>1, PlainFew
    <3>3. FlowInv'
      BY <1>9 DEF FlowInv, Flowing
    <3>4. EndInv'
      BY <1>2, <1>3, <1>6, <1>9, <2>1, <3>1, EndKeep DEF Safe
    <3>5. ASSUME result' = "completed", to = "gemini", NEW c \in Calls, Holds(items, c) PROVE AnyShut(items, c)
      <4>1. Told
        BY <1>6, <1>9, <2>1, <3>5 DEF Safe, EndInv, EndOf, Outcome
      <4>2. PlaceOf(call[c]) # "none" /\ call[c].state \in {"none", "waiting", "open", "ended"}
        BY <3>5 DEF Safe, EndInv, Out, ReadInv, ParserTypes, CallType
      <4>3. PlaceOf(call[c]) = "ended"
        BY <4>1, <4>2 DEF Told, OpenCalls, Open, PlaceOf
      <4> QED BY <1>2, <1>3, <3>5, <4>3, ConcludedCalls DEF Safe, Out, Cust
    <3>6. ItemInv'
      <4>1. \A k : /\ Has(pending', "added", k) <=> Has(pending, "added", k)
                   /\ Has(pending', "done", k) <=> Has(pending, "done", k)
        BY <1>3, <3>2, PlainHas, NoFrames
      <4> QED BY <1>2, <1>3, <1>9, <3>1, <3>5, <4>1, ItemKeep DEF Safe
    <3>7. GotInv'
      <4>1. \A c \in Calls : Holds(items, c) /\ call[c].state = "ended" => Len(input[c]) = call[c].sent
        BY <1>2, <1>3, ConcludedCalls DEF Safe, Out
      <4> QED BY <1>2, <1>3, <3>1, <3>2, <4>1, PlainHas, GotKeep DEF Safe
    <3> QED BY <1>1, <3>3, <3>4, <3>6, <3>7 DEF Safe
  <2> QED BY <2>2, <2>3
<1> QED BY <1>2, <1>3, <1>4, <1>5, <1>8, <1>9, ConcludeForm

-----------------------------------------------------------------------------
(* All steps, and what follows.                                            *)

LEMMA InitSafe == Init => Safe
<1> SUFFICES ASSUME Init PROVE Safe
  OBVIOUS
<1>1. Out
  BY InitOut
<1>2. /\ call = [c \in Calls |-> NoCall] /\ reader = "reading" /\ queue = <<>> /\ phase = "new" /\ pending = <<>>
      /\ items = <<>> /\ input = [c \in Calls |-> <<>>] /\ ended = {} /\ suppressed = {} /\ passed = FALSE
      /\ ending = None /\ result = "none" /\ status = "none" /\ added = {} /\ done = {} /\ got = [c \in Calls |-> <<>>]
  BY DEF Init, ParserInit
<1>3. \A k : ~Holds(items, k) /\ Shut(items, k) /\ ~AnyShut(items, k)
  <2>1. DOMAIN items = {}
    BY <1>2
  <2> QED BY <2>1 DEF Holds, Shut, AnyShut
<1>4. (\A t, k : ~Has(pending, t, k)) /\ Lone(pending)
  BY <1>2, FewFrames
<1>5. \A c \in Calls : call[c] = NoCall /\ input[c] = <<>> /\ got[c] = <<>>
  BY <1>2
<1>6. /\ PlaceOf(NoCall) = "none" /\ GaveOf(NoCall) = 0 /\ NoCall.state = "none" /\ NoCall.tool = "undeclared"
      /\ ~Cust(to, NoCall) /\ Len(<<>>) = 0 /\ <<>> = [k \in 1..0 |-> k]
  BY DEF NoCall, PlaceOf, GaveOf, Cust
<1>7. FlowInv
  <2> SUFFICES ASSUME NEW c \in Calls
               PROVE Tracks(queue, call[c], c, items, suppressed, ended, to, input[c])
    BY DEF FlowInv
  <2>1. "none" \in Places /\ 0 \in Nat
    BY DEF Places
  <2>2. Run(queue, c, "none", 0, PlaceOf(call[c]), GaveOf(call[c]))
    BY <1>2, <1>5, <1>6, <2>1, RunEmpty
  <2>3. Seen(c, "none", items, suppressed, ended, to, call[c])
    BY <1>2, <1>3 DEF Seen
  <2>4. 0 = Len(input[c])
    BY <1>5, <1>6
  <2> QED BY <2>1, <2>2, <2>3, <2>4 DEF Tracks
<1>8. EndInv
  BY <1>2, <1>3, StreamAssumption DEF EndInv, Good, StreamAssumption, AllReasons
<1>9. ItemInv
  BY <1>2, <1>3, <1>4 DEF ItemInv, ShownInv, ClosedInv, CustomInv
<1>10. GotInv
  <2>1. \A c \in Calls : GotFor(pending, done, to, call[c], got[c], input[c], c)
    BY <1>2, <1>4, <1>5 DEF GotFor
  <2>2. \A c \in Calls : input[c] = [k \in 1..Len(input[c]) |-> k]
    BY <1>5, <1>6
  <2> QED BY <1>3, <1>4, <1>5, <2>1, <2>2 DEF GotInv
<1> QED BY <1>1, <1>7, <1>8, <1>9, <1>10 DEF Safe

(* Every step keeps the invariant.                                         *)
LEMMA NextSafe ==
    ASSUME Safe, Next
    PROVE  Safe'
<1>1. ASSUME NEW c \in Calls, TakeCall(c) \/ TakeCallEnd(c) \/ TakeContent(CallStart(c), "text")
                             \/ TakeArgs(c, Head(queue).pieces)
      PROVE  Safe'
  <2>1. ASSUME TakeContent(CallStart(c), "text") PROVE Safe'
    BY <2>1, TakeContentSafe
  <2> QED BY <1>1, <2>1, TakeCallSafe, TakeCallEndSafe, TakeArgsSafe
<1>2. ASSUME NEW what \in Contents, TakeContent(Content(what), what) PROVE Safe'
  BY <1>2, TakeContentSafe
<1>3. ASSUME NEW reason \in AllReasons, TakeEnd(reason) PROVE Safe'
  BY <1>3, TakeEndSafe
<1>4. ASSUME Take PROVE Safe'
  BY <1>1, <1>2, <1>3, <1>4, SkipSafe, TakeCanceledSafe, TakeStartSafe, TakeErrorSafe DEF Take
<1>5. ASSUME Generate PROVE Safe'
  BY <1>4, <1>5, BeginSafe, SourceEndsSafe, ThrowSafe, FinishSafe DEF Generate
<1> QED BY <1>5, ParseSafe, PullSafe, StopSafe DEF Next

(* The invariant holds in every behaviour.                                 *)
THEOREM SafeAlways == Spec => []Safe
<1>1. Safe /\ [Next]_vars => Safe'
  BY NextSafe, StutterSafe
<1> QED BY <1>1, InitSafe, PTL DEF Spec

(* The properties follow from the invariant.                               *)
LEMMA SafeCompletion == Safe => TrueCompletion
<1> SUFFICES ASSUME Safe, status = "completed"
             PROVE  /\ EndSaid /\ "error" \notin said /\ OpenCalls = {}
                    /\ done \subseteq added
                    /\ to \in {"responses", "anthropic"} => added \subseteq done
                    /\ ending = "tool_calls" => added \intersect Calls # {}
  BY DEF TrueCompletion
<1>1. FrameTypes /\ EndKnown /\ EndInv /\ ShownInv /\ ClosedInv
  BY DEF Safe, Out, FrameInv, ItemInv
<1>2. result = "completed" /\ pending = <<>>
  BY <1>1 DEF EndKnown, Good
<1>3. \A t, k : ~Has(pending, t, k)
  BY <1>2, NoFrames
<1>4. EndSaid /\ "error" \notin said /\ OpenCalls = {}
  BY <1>1, <1>2 DEF EndInv, Good, Outcome, EndOf, Told
<1>5. added \subseteq ItemKeys /\ done \subseteq ItemKeys
  BY <1>1 DEF FrameTypes
<1>6. done \subseteq added
  BY <1>1, <1>5 DEF ShownInv
<1>7. ASSUME to \in {"responses", "anthropic"} PROVE added \subseteq done
  <2> SUFFICES ASSUME NEW k \in added PROVE k \in done
    OBVIOUS
  <2>1. Holds(items, k) /\ k \in ItemKeys
    BY <1>1, <1>5, <1>7 DEF ShownInv
  <2>2. AnyShut(items, k)
    BY <1>1, <1>2, <1>7, <2>1, ShutThere DEF ClosedInv
  <2> QED BY <1>1, <1>3, <1>7, <2>1, <2>2 DEF ClosedInv
<1>8. ASSUME ending = "tool_calls" PROVE added \intersect Calls # {}
  <2>1. PICK c \in Calls : Holds(items, c)
    BY <1>1, <1>8 DEF EndInv
  <2>2. c \in added
    BY <1>1, <1>3, <2>1, CallKeys DEF ShownInv, ClosedInv
  <2> QED BY <2>1, <2>2
<1> QED BY <1>4, <1>6, <1>7, <1>8

LEMMA SafeCustom == Safe => CustomInputWhole
<1> SUFFICES ASSUME Safe, NEW c \in Calls, c \in done, Custom(c)
             PROVE  /\ reader = "returned" /\ ending # None /\ ~Incomplete(ending)
                    /\ call[c].state = "ended" /\ call[c].whole
  BY DEF CustomInputWhole
<1> QED BY CustomIs DEF Safe, ItemInv, CustomInv

LEMMA CountedFirst ==
    ASSUME NEW g \in Pieces, NEW p \in Pieces, g \o p = [k \in 1..Len(g \o p) |-> k]
    PROVE  g = [k \in 1..Len(g) |-> k]
<1>1. /\ Len(g) \in Nat /\ Len(p) \in Nat /\ DOMAIN g = 1..Len(g) /\ Len(g \o p) = Len(g) + Len(p)
      /\ \A j \in 1..Len(g) : (g \o p)[j] = g[j]
      /\ g = [k \in 1..Len(g) |-> g[k]]
  BY DEF Pieces
<1> DEFINE q == g \o p
<1>2. q = [k \in 1..Len(q) |-> k] /\ Len(q) = Len(g) + Len(p) /\ \A j \in 1..Len(g) : q[j] = g[j]
  BY <1>1
<1> HIDE DEF q
<1>3. \A j \in 1..Len(g) : j \in 1..Len(q)
  BY <1>1, <1>2
<1>4. \A j \in 1..Len(q) : q[j] = j
  BY <1>2
<1>5. \A j \in 1..Len(g) : g[j] = j
  BY <1>2, <1>3, <1>4
<1> QED BY <1>1, <1>5

LEMMA SafeArguments == Safe => ArgumentsInOrder
<1> SUFFICES ASSUME Safe, NEW c \in Calls
             PROVE  /\ got[c] = [k \in 1..Len(got[c]) |-> k]
                    /\ call[c].state = "ended" /\ (c \in done \/ (status = "completed" /\ c \in added))
                          => Len(got[c]) = call[c].sent
  BY DEF ArgumentsInOrder
<1>1. /\ input[c] = [k \in 1..Len(input[c]) |-> k]
      /\ Holds(items, c) /\ call[c].state = "ended" /\ (AnyShut(items, c) \/ result = "completed")
            => Len(input[c]) = call[c].sent
      /\ GotFor(pending, done, to, call[c], got[c], input[c], c)
  BY DEF Safe, GotInv
<1>2. input[c] \in Pieces /\ got[c] \in Pieces /\ pending \in Seq(Frames) /\ c \in ItemKeys
  BY CallKeys DEF Safe, Out, DataTypes, FrameInv, FrameTypes
<1>3. \/ got[c] = input[c]
      \/ got[c] = <<>> /\ c \notin done /\ (to = "gemini" \/ to = "responses")
      \/ OneInput(pending, c, got[c], input[c]) /\ c \notin done
  BY <1>1 DEF GotFor, Cust
<1>4. got[c] = [k \in 1..Len(got[c]) |-> k]
  <2>1. CASE OneInput(pending, c, got[c], input[c])
    <3>1. PICK j \in DOMAIN pending : pending[j].type = "input" /\ input[c] = got[c] \o pending[j].pieces
      BY <2>1 DEF OneInput
    <3>2. pending[j] \in Frames
      BY <1>2
    <3>3. pending[j].pieces \in Pieces
      BY <3>1, <3>2, FrameFields
    <3> QED BY <1>1, <1>2, <3>1, <3>3, CountedFirst
  <2>2. CASE got[c] = <<>>
    <3>1. Len(<<>>) = 0 /\ <<>> = [k \in 1..0 |-> k]
      OBVIOUS
    <3> QED BY <2>2, <3>1
  <2> QED BY <1>1, <1>3, <2>1, <2>2
<1>5. ASSUME call[c].state = "ended", c \in done PROVE Len(got[c]) = call[c].sent
  <2>1. AnyShut(items, c) /\ Holds(items, c)
    BY <1>2, <1>5, ShutThere DEF Safe, ItemInv, ClosedInv
  <2> QED BY <1>1, <1>3, <1>5, <2>1
<1>6. ASSUME call[c].state = "ended", status = "completed", c \in added, c \notin done PROVE Len(got[c]) = call[c].sent
  <2>1. result = "completed" /\ pending = <<>>
    BY <1>6 DEF Safe, Out, FrameInv, EndKnown, Good
  <2>2. to \notin {"responses", "anthropic"} /\ done \subseteq added
    BY <1>6, SafeCompletion DEF TrueCompletion
  <2>3. to # "gemini" /\ Holds(items, c)
    BY <1>2, <1>6 DEF Safe, ItemInv, ShownInv
  <2>4. got[c] = input[c]
    BY <1>3, <2>1, <2>2, <2>3, NoInput
  <2> QED BY <1>1, <1>6, <2>1, <2>3, <2>4
<1> QED BY <1>4, <1>5, <1>6

LEMMA SafeTypes == Safe => TypeOK
<1> SUFFICES ASSUME Safe PROVE TypeOK
  OBVIOUS
<1>1. ParserTypes /\ FrameTypes /\ DataTypes /\ ReadInv
  BY DEF Safe, Out, ReadInv, FrameInv
<1>2. \A c \in Calls : /\ call[c].state \in {"none", "waiting", "open", "ended"}
                       /\ call[c].tool \in Tools /\ call[c].held \in 0..call[c].sent
  <2> SUFFICES ASSUME NEW c \in Calls
               PROVE  /\ call[c].state \in {"none", "waiting", "open", "ended"}
                      /\ call[c].tool \in Tools /\ call[c].held \in 0..call[c].sent
    OBVIOUS
  <2>1. call[c] \in CallType /\ CallOK(call[c])
    BY <1>1 DEF ReadInv, ParserTypes
  <2>2. call[c].state \in {"none", "waiting", "open", "ended"} /\ call[c].tool \in Tools
        /\ call[c].sent \in Nat /\ call[c].held \in Nat
    BY <2>1 DEF CallType
  <2>3. call[c].held = 0 \/ call[c].held = call[c].sent
    BY <2>1, <2>2 DEF CallOK
  <2> QED BY <2>2, <2>3
<1>3. \A i \in DOMAIN items : items[i].key \in ItemKeys /\ items[i].open \in BOOLEAN
  <2> SUFFICES ASSUME NEW i \in DOMAIN items PROVE items[i].key \in ItemKeys /\ items[i].open \in BOOLEAN
    OBVIOUS
  <2>1. items[i] \in Items
    BY <1>1 DEF DataTypes
  <2> QED BY <2>1 DEF Items
<1> QED BY <1>1, <1>2, <1>3 DEF TypeOK, ParserTypes, FrameTypes, DataTypes, Readers, Phases

(* The state of parser, output and client is of the declared types.        *)
THEOREM StreamTypes == Spec => []TypeOK
<1> QED BY SafeAlways, SafeTypes, PTL

(* A client is told "completed" only of a message the provider completed   *)
(* in its own protocol, with no error and no call left open, with every    *)
(* item closed, and with a call it was shown if it ends for its calls.     *)
THEOREM CompletionIsTrue == Spec => []TrueCompletion
<1> QED BY SafeAlways, SafeCompletion, PTL

(* The input of a custom call reaches the client only after the end of a   *)
(* response that was not cut short, and whole.                             *)
THEOREM CustomInputIsWhole == Spec => []CustomInputWhole
<1> QED BY SafeAlways, SafeCustom, PTL

(* The client has the pieces of every call in order, none twice and none   *)
(* left out, and the result the gateway logs is what the client was told.  *)
THEOREM AnswerIsWhole == Spec => []AnswerWhole
<1>1. Safe => AnswerWhole
  BY SafeArguments, FinalFollows DEF Safe, Out, AnswerWhole
<1> QED BY <1>1, SafeAlways, PTL
=============================================================================
