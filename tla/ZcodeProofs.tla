---------------------------- MODULE ZcodeProofs ----------------------------
(***************************************************************************)
(* Theorems about the requests of ZCode (ZcodeForward), their answers      *)
(* (ZcodeAnswer), the keys they are signed with (ZcodeKeys) and the models *)
(* it offers (ZcodeCatalog), for any requests, callers, logins, plans,     *)
(* blocks, continuations and bounds.                                       *)
(***************************************************************************)
EXTENDS ZcodeForward, ZcodeKeys, ZcodeCatalog, ZcodeAnswer, SequenceTheorems,
        FiniteSetTheorems, TLAPS

-----------------------------------------------------------------------------
(* The requests: the cache holds one handshake for a key, younger than     *)
(* what the service refused.                                               *)

(* One entry for a key, of a handshake that was begun. *)
EntriesOK(s, n) ==
    /\ s \in Seq(SignKeys \X (1..n)) /\ Len(s) <= MaxEntries
    /\ \A i, j \in 1..Len(s) : s[i][1] = s[j][1] => i = j

(* What a request may still be signed with is younger than what the        *)
(* service refused it.                                                     *)
Younger(r, s) == \A i \in 1..Len(s) : s[i][1] = r.on => s[i][2] > r.barred

(* A request: signed with a handshake younger than the refused one, on its *)
(* way without a log.                                                      *)
RequestOK(r, n) ==
    /\ r.shake \in 0..n /\ r.barred \in 0..n
    /\ r.stage \in {"shaking", "send", "sent"} => r.shake = 0 \/ r.shake > r.barred
    /\ r.logs = IF r.stage = "done" /\ r.key THEN 1 ELSE 0
    /\ r.stage = "idle" => r.barred = 0
    /\ r.stage \notin OverStages => r.on \in SignKeys

RequestType ==
    [stage : Stages, key : BOOLEAN, on : SignKeys \union {FALSE}, free : BOOLEAN, mapped : BOOLEAN,
     shake : Nat, barred : Nat, tries : Nat, legs : Nat, aborted : BOOLEAN, logs : Nat,
     relayed : BOOLEAN]
ShakeType == [key : SignKeys, state : {"busy", "ok", "failed"}, gen : Nat]

Sound(r, s, n) == r \in RequestType /\ RequestOK(r, n) /\ Younger(r, s)

FwdInv ==
    /\ DOMAIN fwd = ZcodeRequests
    /\ shakes \in Seq(ShakeType) /\ gen \in [SignKeys -> Nat]
    /\ EntriesOK(entries, Len(shakes))
    /\ active \subseteq {q \in ZcodeRequests : fwd[q].stage \notin OverStages}
    /\ relay \in BOOLEAN
    /\ \A q \in ZcodeRequests : Sound(fwd[q], entries, Len(shakes))

(* Requests that go on while the shared keys stay what they are. *)
LEMMA RequestMoves ==
    ASSUME FwdInv, NEW q \in ZcodeRequests, NEW r, Sound(r, entries, Len(shakes)),
           fwd' = [fwd EXCEPT ![q] = r], active' \subseteq active \union {q},
           r.stage \in OverStages => q \notin active',
           UNCHANGED <<entries, shakes>>, gen' = gen, relay' = relay
    PROVE  FwdInv'
BY DEF FwdInv

LEMMA Ending ==
    ASSUME NEW r, NEW s, NEW n \in Nat, s \in Seq(SignKeys \X (1..n)),
           Sound(r, s, n), r.stage # "done"
    PROVE  Sound(EndedRequest(r), s, n) /\ EndedRequest(r).stage = "done"
<1> DEFINE e == EndedRequest(r)
<1>1. r.logs = 0 /\ r.key \in BOOLEAN
  BY DEF Sound, RequestOK, RequestType
<1>2. /\ e \in RequestType /\ e.stage = "done" /\ e.shake = 0 /\ e.barred = 0
      /\ e.key = r.key /\ e.logs = IF r.key THEN 1 ELSE 0
  <2> DEFINE l == r.logs + IF r.key THEN 1 ELSE 0
  <2>1. l = (IF r.key THEN 1 ELSE 0) /\ l \in Nat
    BY <1>1
  <2>2. e = [NewRequest EXCEPT !.stage = "done", !.key = r.key, !.logs = l]
    BY DEF EndedRequest
  <2> HIDE DEF l, e
  <2> QED BY <1>1, <2>1, <2>2 DEF NewRequest, RequestType, Stages
<1> HIDE DEF e
<1>3. RequestOK(e, n)
  BY <1>1, <1>2 DEF RequestOK, OverStages
<1>4. Younger(e, s)
  BY <1>2 DEF Younger
<1> QED BY <1>2, <1>3, <1>4 DEF Sound, e

(* A request that ends, whatever it was doing. *)
LEMMA EndingServes ==
    ASSUME FwdInv, NEW q \in ZcodeRequests, NEW r, Sound(r, entries, Len(shakes)), r.stage # "done",
           End(q, r), UNCHANGED <<entries, shakes>>, gen' = gen, relay' = relay
    PROVE  FwdInv'
<1>1. Len(shakes) \in Nat /\ entries \in Seq(SignKeys \X (1..Len(shakes)))
  BY DEF FwdInv, EntriesOK
<1>2. Sound(EndedRequest(r), entries, Len(shakes)) /\ EndedRequest(r).stage = "done"
  BY <1>1, Ending
<1> QED BY <1>2, RequestMoves DEF End, OverStages

(* The same request at another stage of its way. *)
Same(r, e) == /\ r \in RequestType /\ r.on = e.on /\ r.barred = e.barred /\ r.logs = e.logs
              /\ r.stage \notin {"idle", "done"}

LEMMA SameServes ==
    ASSUME FwdInv, NEW q \in ZcodeRequests, NEW r, Same(r, fwd[q]), fwd[q].stage \notin OverStages,
           r.shake \in 0..Len(shakes),
           r.stage \in {"shaking", "send", "sent"} => r.shake = 0 \/ r.shake > r.barred
    PROVE  Sound(r, entries, Len(shakes))
BY DEF FwdInv, Same, Sound, RequestOK, Younger, OverStages

LEMMA AcceptServes ==
    ASSUME FwdInv, NEW q \in ZcodeRequests, NEW k \in SignKeys, NEW f \in BOOLEAN, NEW c \in BOOLEAN,
           Accept(q, k, f, c)
    PROVE  FwdInv'
<1>1. fwd[q].stage = "idle" /\ Sound(fwd[q], entries, Len(shakes))
  BY DEF Accept, At, FwdInv
<1>2. CASE gone
  BY <1>1, <1>2, EndingServes DEF Accept, signVars, mapVars
<1>3. CASE ~gone
  <2> DEFINE r == [fwd[q] EXCEPT !.stage = "key", !.on = k, !.free = f, !.mapped = c]
  <2>1. fwd' = [fwd EXCEPT ![q] = r] /\ active' = active \union {q}
    BY <1>3 DEF Accept
  <2>2. /\ r \in RequestType /\ r.stage = "key" /\ r.on = k /\ r.barred = fwd[q].barred
        /\ r.shake = fwd[q].shake /\ r.logs = fwd[q].logs
    BY <1>1 DEF Sound, RequestType, Stages
  <2> HIDE DEF r
  <2>3. RequestOK(r, Len(shakes))
    BY <1>1, <2>2 DEF Sound, RequestOK, OverStages
  <2>4. Younger(r, entries)
    BY <1>1, <2>2 DEF Younger, Sound, RequestOK, FwdInv, EntriesOK
  <2> QED BY <2>1, <2>2, <2>3, <2>4, RequestMoves DEF Sound, Accept, signVars, mapVars, OverStages
<1> QED BY <1>2, <1>3

LEMMA EndsServe ==
    ASSUME FwdInv, NEW q \in ZcodeRequests,
           \/ NoRoute(q) \/ KeyFails(q) \/ Rejected(q) \/ Mapped(q)
    PROVE  FwdInv'
<1>1. fwd[q].stage # "done" /\ Sound(fwd[q], entries, Len(shakes))
  BY DEF NoRoute, KeyFails, Rejected, Mapped, At, FwdInv
<1> QED BY <1>1, EndingServes DEF NoRoute, KeyFails, Rejected, Mapped, signVars, mapVars

LEMMA KeyServes ==
    ASSUME FwdInv, NEW q \in ZcodeRequests, NEW ok \in BOOLEAN, KeyArrives(q, ok)
    PROVE  FwdInv'
<1> DEFINE r == [fwd[q] EXCEPT !.key = TRUE]
           s == [r EXCEPT !.stage = IF r.free THEN "sign" ELSE "route"]
<1>1. fwd[q].stage = "key" /\ Sound(fwd[q], entries, Len(shakes)) /\ fwd[q] \in RequestType
  BY DEF KeyArrives, At, FwdInv, Sound
<1>2. Same(r, fwd[q]) /\ r.stage = "key" /\ r.shake = fwd[q].shake
  BY <1>1 DEF Same, RequestType, Stages
<1>3. Same(s, fwd[q]) /\ s.stage \in {"sign", "route"} /\ s.shake = fwd[q].shake
  BY <1>1 DEF Same, RequestType, Stages
<1>4. End(q, r) \/ (fwd' = [fwd EXCEPT ![q] = s] /\ active' = active)
  BY DEF KeyArrives
<1> HIDE DEF r, s
<1>5. Sound(r, entries, Len(shakes)) /\ Sound(s, entries, Len(shakes))
  BY <1>1, <1>2, <1>3, SameServes DEF Sound, RequestOK, OverStages
<1> QED BY <1>2, <1>3, <1>4, <1>5, EndingServes, RequestMoves DEF KeyArrives, signVars, mapVars, OverStages

(* Steps to the next stage that leave the signature alone. *)
LEMMA GoServes ==
    ASSUME FwdInv, NEW q \in ZcodeRequests, NEW to \in Stages \ {"idle", "done", "shaking", "send", "sent"},
           fwd[q].stage \notin OverStages,
           Goes(q, to), active' \subseteq active, UNCHANGED <<entries, shakes>>, gen' = gen, relay' = relay
    PROVE  FwdInv'
<1> DEFINE r == [fwd[q] EXCEPT !.stage = to]
<1>1. Sound(fwd[q], entries, Len(shakes)) /\ fwd[q] \in RequestType /\ q \in DOMAIN fwd
  BY DEF FwdInv, Sound
<1>2. Same(r, fwd[q]) /\ r.stage = to /\ r.shake = fwd[q].shake
  BY <1>1 DEF Same, RequestType
<1>3. fwd' = [fwd EXCEPT ![q] = r]
  BY <1>1 DEF Goes
<1> HIDE DEF r
<1>4. Sound(r, entries, Len(shakes))
  BY <1>1, <1>2, SameServes DEF Sound, RequestOK
<1> QED BY <1>2, <1>3, <1>4, RequestMoves DEF OverStages

LEMMA RouteServes ==
    ASSUME FwdInv, NEW q \in ZcodeRequests, Route(q) PROVE FwdInv'
<1> DEFINE r == [fwd[q] EXCEPT !.stage = "context", !.relayed = relay]
<1>1. Sound(fwd[q], entries, Len(shakes)) /\ fwd[q] \in RequestType /\ fwd[q].stage = "route" /\ relay \in BOOLEAN
      /\ q \in DOMAIN fwd
  BY DEF FwdInv, Sound, Route, At
<1>2. Same(r, fwd[q]) /\ r.stage = "context" /\ r.shake = fwd[q].shake
  BY <1>1 DEF Same, RequestType, Stages
<1>3. Goes(q, "mapping") \/ fwd' = [fwd EXCEPT ![q] = r]
  BY <1>1 DEF Route
<1> HIDE DEF r
<1>4. Sound(r, entries, Len(shakes))
  BY <1>1, <1>2, SameServes DEF Sound, RequestOK, OverStages
<1> QED BY <1>1, <1>2, <1>3, <1>4, RequestMoves, GoServes DEF OverStages, Route, signVars, Stages

LEMMA RoutedServes ==
    ASSUME FwdInv, NEW to \in BOOLEAN, RoutedAll(to), UNCHANGED <<active, signVars>>, relay' \in BOOLEAN
    PROVE  FwdInv'
<1>1. ASSUME NEW q \in ZcodeRequests
      PROVE  Sound(fwd'[q], entries, Len(shakes)) /\ (fwd'[q].stage \in OverStages <=> fwd[q].stage \in OverStages)
  <2> DEFINE r == [fwd[q] EXCEPT !.stage = "context", !.relayed = to]
  <2>1. Sound(fwd[q], entries, Len(shakes)) /\ fwd[q] \in RequestType
    BY DEF FwdInv, Sound
  <2>2. CASE fwd[q].stage # "mapping"
    BY <2>1, <2>2 DEF RoutedAll, At
  <2>3. CASE fwd[q].stage = "mapping"
    <3>1. Same(r, fwd[q]) /\ r.stage = "context" /\ r.shake = fwd[q].shake
      BY <2>1, <2>3 DEF Same, RequestType, Stages
    <3>2. fwd'[q] = r
      BY <2>3 DEF RoutedAll, At
    <3> HIDE DEF r
    <3>3. Sound(r, entries, Len(shakes))
      BY <2>1, <2>3, <3>1, SameServes DEF Sound, RequestOK, OverStages
    <3> QED BY <2>3, <3>1, <3>2, <3>3 DEF OverStages
  <2> QED BY <2>2, <2>3
<1>2. DOMAIN fwd' = ZcodeRequests
  BY DEF RoutedAll
<1> QED BY <1>1, <1>2 DEF FwdInv, signVars

LEMMA MapServes ==
    ASSUME FwdInv, (\E to \in BOOLEAN : MapArrives(to)) \/ MapFails \/ MapAges \/ PauseEnds
    PROVE  FwdInv'
<1>1. CASE \E to \in BOOLEAN : MapArrives(to)
  BY <1>1, RoutedServes DEF MapArrives
<1>2. CASE MapFails
  BY <1>2, RoutedServes DEF MapFails, FwdInv
<1>3. CASE MapAges \/ PauseEnds
  BY <1>3 DEF MapAges, PauseEnds, FwdInv, signVars
<1> QED BY <1>1, <1>2, <1>3

LEMMA ContextServes ==
    ASSUME FwdInv, NEW q \in ZcodeRequests, Context(q) PROVE FwdInv'
<1>1. fwd[q].stage = "context" /\ Sound(fwd[q], entries, Len(shakes))
  BY DEF Context, At, FwdInv
<1> QED BY <1>1, EndingServes, GoServes DEF Context, signVars, mapVars, OverStages, Stages

(* The entries of a key are dropped. *)
LEMMA WithoutEntries ==
    ASSUME FwdInv, NEW k
    PROVE  /\ EntriesOK(Without(k), Len(shakes))
           /\ \A i \in 1..Len(Without(k)) : \E j \in 1..Len(entries) : Without(k)[i] = entries[j]
           /\ \A i \in 1..Len(Without(k)) : Without(k)[i][1] # k
<1>1. entries \in Seq(SignKeys \X (1..Len(shakes))) /\ Len(entries) <= MaxEntries
      /\ \A i, j \in 1..Len(entries) : entries[i][1] = entries[j][1] => i = j
  BY DEF FwdInv, EntriesOK
<1>2. CASE EntryOf(k) = {}
  <2>1. Without(k) = entries
    BY <1>2 DEF Without
  <2> QED BY <1>1, <1>2, <2>1 DEF EntriesOK, EntryOf
<1>3. CASE EntryOf(k) # {}
  <2> DEFINE at == CHOOSE i \in EntryOf(k) : TRUE
             w == [i \in 1..Len(entries) - 1 |-> entries[IF i < at THEN i ELSE i + 1]]
  <2>1. Without(k) = w
    BY <1>3 DEF Without
  <2>2. at \in 1..Len(entries) /\ entries[at][1] = k
    BY <1>3 DEF EntryOf
  <2> HIDE DEF at
  <2>3. w \in Seq(SignKeys \X (1..Len(shakes))) /\ Len(w) = Len(entries) - 1
    BY <1>1, <2>2
  <2> DEFINE from(i) == IF i < at THEN i ELSE i + 1
  <2>a. ASSUME NEW i \in 1..Len(w)
        PROVE  from(i) \in 1..Len(entries) /\ from(i) # at /\ w[i] = entries[from(i)]
    BY <1>1, <2>2, <2>3, <2>a
  <2>b. ASSUME NEW i \in 1..Len(w), NEW j \in 1..Len(w), from(i) = from(j) PROVE i = j
    BY <1>1, <2>2, <2>3, <2>b
  <2> HIDE DEF w, from
  <2>4. \A i \in 1..Len(w) : \E j \in 1..Len(entries) : j # at /\ w[i] = entries[j]
    BY <2>a
  <2>5. \A i, j \in 1..Len(w) : w[i][1] = w[j][1] => i = j
    <3> SUFFICES ASSUME NEW i \in 1..Len(w), NEW j \in 1..Len(w), w[i][1] = w[j][1] PROVE i = j
      OBVIOUS
    <3>1. from(i) \in 1..Len(entries) /\ w[i] = entries[from(i)]
      BY <2>a
    <3>2. from(j) \in 1..Len(entries) /\ w[j] = entries[from(j)]
      BY <2>a
    <3>3. from(i) = from(j)
      BY <1>1, <3>1, <3>2
    <3> QED BY <2>b, <3>3
  <2> HIDE DEF w
  <2>6. EntriesOK(w, Len(shakes))
    BY <1>1, <2>3, <2>5, ForwardAssumption DEF EntriesOK, ForwardAssumption
  <2> QED BY <1>1, <2>1, <2>2, <2>4, <2>6
<1> QED BY <1>2, <1>3

(* A new handshake, and the oldest entries that no longer fit. *)
LEMMA NewEntries ==
    ASSUME FwdInv, NEW k \in SignKeys, EntryOf(k) = {},
           NEW s, s = Newest(Append(entries, <<k, Len(shakes) + 1>>))
    PROVE  /\ EntriesOK(s, Len(shakes) + 1)
           /\ \A i \in 1..Len(s) : s[i] = <<k, Len(shakes) + 1>> \/ \E j \in 1..Len(entries) : s[i] = entries[j]
<1> DEFINE e == Append(entries, <<k, Len(shakes) + 1>>)
           m == IF Len(e) > MaxEntries THEN Len(e) - MaxEntries + 1 ELSE 1
<1>1. /\ entries \in Seq(SignKeys \X (1..Len(shakes))) /\ Len(entries) <= MaxEntries /\ Len(shakes) \in Nat
      /\ \A i, j \in 1..Len(entries) : entries[i][1] = entries[j][1] => i = j
      /\ \A i \in 1..Len(entries) : entries[i][1] # k
      /\ MaxEntries \in Nat \ {0}
  <2>1. EntriesOK(entries, Len(shakes)) /\ Len(shakes) \in Nat
    BY DEF FwdInv
  <2> QED BY <2>1, ForwardAssumption DEF EntriesOK, EntryOf, ForwardAssumption
<1>2. /\ e \in Seq(SignKeys \X (1..Len(shakes) + 1)) /\ Len(e) = Len(entries) + 1
      /\ e[Len(e)] = <<k, Len(shakes) + 1>>
      /\ \A i \in 1..Len(e) : i < Len(e) => i \in 1..Len(entries) /\ e[i] = entries[i]
  <2>1. entries \in Seq(SignKeys \X (1..Len(shakes) + 1))
    BY <1>1
  <2>2. <<k, Len(shakes) + 1>> \in SignKeys \X (1..Len(shakes) + 1)
    BY <1>1
  <2> QED BY <1>1, <2>1, <2>2
<1>3. s = SubSeq(e, m, Len(e))
  BY DEF Newest
<1> HIDE DEF e
<1>4. m \in 1..Len(e) /\ Len(e) - m + 1 <= MaxEntries /\ Len(e) \in Nat
  BY <1>1, <1>2
<1> HIDE DEF m
<1>5. /\ s \in Seq(SignKeys \X (1..Len(shakes) + 1)) /\ Len(s) = Len(e) - m + 1
      /\ \A i \in 1..Len(e) - m + 1 : s[i] = e[m + i - 1]
  <2> DEFINE T == SignKeys \X (1..Len(shakes) + 1)
             l == Len(e)
  <2>1. \A i \in m..l : e[i] \in T
    BY <1>2, <1>4
  <2>2. m \in Int /\ l \in Int /\ m <= l
    BY <1>4
  <2>3. s = SubSeq(e, m, l)
    BY <1>3
  <2> HIDE DEF T, l
  <2>4. /\ SubSeq(e, m, l) \in Seq(T)
        /\ Len(SubSeq(e, m, l)) = IF m <= l THEN l - m + 1 ELSE 0
        /\ \A i \in 1..l - m + 1 : SubSeq(e, m, l)[i] = e[m + i - 1]
    BY <2>1, <2>2, SubSeqProperties
  <2> QED BY <2>2, <2>3, <2>4 DEF T, l
<1>6. ASSUME NEW i \in 1..Len(e), NEW j \in 1..Len(e), e[i][1] = e[j][1] PROVE i = j
  <2>1. ASSUME NEW h \in 1..Len(e) PROVE e[h][1] = k <=> h = Len(e)
    <3>1. CASE h = Len(e)
      BY <1>2, <3>1
    <3>2. CASE h < Len(e)
      <4>1. h \in 1..Len(entries) /\ e[h] = entries[h]
        BY <1>2, <3>2
      <4>2. entries[h][1] # k
        BY <1>1, <4>1
      <4> QED BY <3>2, <4>1, <4>2, <1>4
    <3> QED BY <1>4, <3>1, <3>2
  <2>2. CASE i = Len(e) \/ j = Len(e)
    BY <1>6, <2>1, <2>2
  <2>3. CASE i < Len(e) /\ j < Len(e)
    <3>1. i \in 1..Len(entries) /\ j \in 1..Len(entries) /\ e[i] = entries[i] /\ e[j] = entries[j]
      BY <1>2, <2>3
    <3> QED BY <1>1, <1>6, <3>1
  <2> QED BY <1>4, <2>2, <2>3
<1>7. ASSUME NEW i \in 1..Len(s)
      PROVE m + i - 1 \in 1..Len(e) /\ s[i] = e[m + i - 1]
  <2>1. i \in 1..Len(e) - m + 1
    BY <1>5
  <2>2. s[i] = e[m + i - 1]
    BY <1>5, <2>1
  <2> QED BY <1>4, <2>1, <2>2
<1>8. \A i, j \in 1..Len(s) : s[i][1] = s[j][1] => i = j
  <2> SUFFICES ASSUME NEW i \in 1..Len(s), NEW j \in 1..Len(s), s[i][1] = s[j][1] PROVE i = j
    OBVIOUS
  <2>1. m + i - 1 \in 1..Len(e) /\ m + j - 1 \in 1..Len(e) /\ e[m + i - 1][1] = e[m + j - 1][1]
    BY <1>7
  <2>2. m + i - 1 = m + j - 1
    BY <1>6, <2>1
  <2>3. i \in Int /\ j \in Int /\ m \in Int
    BY <1>4
  <2> QED BY <2>2, <2>3
<1>9. EntriesOK(s, Len(shakes) + 1)
  BY <1>4, <1>5, <1>8 DEF EntriesOK
<1>10. ASSUME NEW i \in 1..Len(s)
       PROVE  s[i] = <<k, Len(shakes) + 1>> \/ \E j \in 1..Len(entries) : s[i] = entries[j]
  <2>1. PICK n \in 1..Len(e) : s[i] = e[n]
    BY <1>7
  <2>2. n = Len(e) \/ n < Len(e)
    BY <1>4
  <2> QED BY <1>2, <2>1, <2>2
<1> QED BY <1>9, <1>10

LEMMA SignServes ==
    ASSUME FwdInv, NEW q \in ZcodeRequests, Sign(q) PROVE FwdInv'
<1> DEFINE k == fwd[q].on
           n == Len(shakes)
           r(s, h) == [fwd[q] EXCEPT !.stage = s, !.shake = h]
<1>1. /\ fwd[q].stage = "sign" /\ Sound(fwd[q], entries, n) /\ fwd[q] \in RequestType /\ k \in SignKeys
      /\ q \in DOMAIN fwd /\ n \in Nat /\ EntriesOK(entries, n)
  BY DEF Sign, At, FwdInv, Sound, RequestOK, OverStages
<1>2. ASSUME NEW s \in {"shaking", "send"}, NEW h \in Nat
      PROVE  Same(r(s, h), fwd[q]) /\ r(s, h).stage = s /\ r(s, h).shake = h
  BY <1>1 DEF Same, RequestType, Stages
<1>3. /\ \A h : Waits(q, h) => fwd' = [fwd EXCEPT ![q] = r("shaking", h)]
      /\ UNCHANGED <<active, gen, relay>>
  BY <1>1 DEF Waits, Sign, mapVars
<1>4. \/ fwd' = [fwd EXCEPT ![q] = r("send", 0)] /\ UNCHANGED <<entries, shakes>>
      \/ \E i \in EntryOf(k) : Waits(q, entries[i][2]) /\ UNCHANGED <<entries, shakes>>
      \/ /\ EntryOf(k) = {} /\ shakes' = Append(shakes, [key |-> k, state |-> "busy", gen |-> 0])
         /\ entries' = Newest(Append(entries, <<k, n + 1>>)) /\ Waits(q, n + 1)
  BY <1>1 DEF Sign
<1> HIDE DEF r
<1>5. CASE fwd' = [fwd EXCEPT ![q] = r("send", 0)] /\ UNCHANGED <<entries, shakes>>
  <2>1. Sound(r("send", 0), entries, n)
    BY <1>1, <1>2, SameServes DEF OverStages
  <2> QED BY <1>2, <1>3, <1>5, <2>1, RequestMoves DEF OverStages
<1>6. CASE \E i \in EntryOf(k) : Waits(q, entries[i][2]) /\ UNCHANGED <<entries, shakes>>
  <2>1. PICK i \in EntryOf(k) : Waits(q, entries[i][2]) /\ UNCHANGED <<entries, shakes>>
    BY <1>6
  <2>2. entries[i][2] \in 1..n /\ entries[i][2] > fwd[q].barred
    BY <1>1 DEF EntryOf, EntriesOK, Sound, Younger
  <2> DEFINE h == entries[i][2]
  <2> HIDE DEF h
  <2>3. h \in 1..n /\ h > fwd[q].barred /\ Waits(q, h)
    BY <2>1, <2>2 DEF h
  <2>4. Sound(r("shaking", h), entries, n)
    BY <1>1, <1>2, <2>3, SameServes DEF OverStages, Same
  <2> QED BY <1>1, <1>2, <1>3, <2>1, <2>3, <2>4, RequestMoves DEF OverStages
<1>7. CASE /\ EntryOf(k) = {} /\ shakes' = Append(shakes, [key |-> k, state |-> "busy", gen |-> 0])
           /\ entries' = Newest(Append(entries, <<k, n + 1>>)) /\ Waits(q, n + 1)
  <2>1. /\ EntriesOK(entries', n + 1)
        /\ \A i \in 1..Len(entries') :
              entries'[i] = <<k, n + 1>> \/ \E j \in 1..Len(entries) : entries'[i] = entries[j]
    <3> DEFINE s == entries'
    <3>1. s = Newest(Append(entries, <<k, n + 1>>)) /\ k \in SignKeys /\ EntryOf(k) = {}
      BY <1>1, <1>7
    <3> DEFINE m == k
    <3>2. s = Newest(Append(entries, <<m, Len(shakes) + 1>>)) /\ m \in SignKeys /\ EntryOf(m) = {}
      BY <3>1
    <3> HIDE DEF s, m
    <3>3. /\ EntriesOK(s, Len(shakes) + 1)
          /\ \A i \in 1..Len(s) : s[i] = <<m, Len(shakes) + 1>> \/ \E j \in 1..Len(entries) : s[i] = entries[j]
      BY <3>2, NewEntries
    <3> QED BY <3>3 DEF s, m
  <2>2. shakes' \in Seq(ShakeType) /\ Len(shakes') = n + 1
    BY <1>1, <1>7 DEF ShakeType, FwdInv
  <2>3. fwd' = [fwd EXCEPT ![q] = r("shaking", n + 1)]
    BY <1>3, <1>7
  <2>4. ASSUME NEW p, Sound(p, entries, n) PROVE Younger(p, entries') /\ p.barred \in 0..n /\ p.shake \in 0..n
    <3>1. p.barred \in 0..n /\ p.shake \in 0..n /\ Younger(p, entries)
      BY <2>4 DEF Sound, RequestOK
    <3>2. ASSUME NEW i \in 1..Len(entries'), entries'[i][1] = p.on PROVE entries'[i][2] > p.barred
      <4>1. CASE entries'[i] = <<k, n + 1>>
        BY <1>1, <3>1, <4>1
      <4>2. CASE \E j \in 1..Len(entries) : entries'[i] = entries[j]
        BY <3>1, <3>2, <4>2 DEF Younger
      <4> QED BY <2>1, <4>1, <4>2
    <3> QED BY <3>1, <3>2 DEF Younger
  <2>5. Sound(r("shaking", n + 1), entries', n + 1)
    <3>1. Same(r("shaking", n + 1), fwd[q]) /\ r("shaking", n + 1).stage = "shaking" /\ r("shaking", n + 1).shake = n + 1
      BY <1>1, <1>2
    <3> DEFINE p == r("shaking", n + 1)
    <3> HIDE DEF p
    <3>2. RequestOK(p, n + 1)
      BY <1>1, <3>1 DEF p, Same, Sound, RequestOK, OverStages
    <3>3. Younger(p, entries')
      BY <1>1, <2>4, <3>1 DEF p, Same, Younger
    <3> QED BY <3>1, <3>2, <3>3 DEF p, Same, Sound
  <2>6. ASSUME NEW p \in ZcodeRequests \ {q} PROVE Sound(fwd'[p], entries', n + 1)
    <3>1. fwd'[p] = fwd[p] /\ Sound(fwd[p], entries, n)
      BY <2>3 DEF FwdInv
    <3>2. Younger(fwd[p], entries') /\ fwd[p].barred \in 0..n /\ fwd[p].shake \in 0..n
      BY <2>4, <3>1
    <3> QED BY <1>1, <3>1, <3>2 DEF Sound, RequestOK
  <2>7. DOMAIN fwd' = ZcodeRequests /\ gen' \in [SignKeys -> Nat] /\ relay' \in BOOLEAN
    BY <1>3, <2>3 DEF FwdInv
  <2>8. fwd'[q].stage \notin OverStages /\ fwd'[q] = r("shaking", n + 1) /\ \A p \in ZcodeRequests \ {q} : fwd'[p] = fwd[p]
    BY <1>1, <1>2, <2>3, <2>7 DEF OverStages
  <2>9. active' \subseteq {p \in ZcodeRequests : fwd'[p].stage \notin OverStages}
    BY <1>3, <2>8 DEF FwdInv
  <2> QED BY <2>1, <2>2, <2>5, <2>6, <2>7, <2>8, <2>9 DEF FwdInv
<1> QED BY <1>4, <1>5, <1>6, <1>7

LEMMA ShakenServes ==
    ASSUME FwdInv, NEW q \in ZcodeRequests, Shaken(q) \/ Send(q) \/ Streams(q) \/ Completes(q) PROVE FwdInv'
<1>1. Sound(fwd[q], entries, Len(shakes)) /\ fwd[q] \in RequestType /\ q \in DOMAIN fwd
  BY DEF FwdInv, Sound
<1>2. CASE Shaken(q)
  <2> DEFINE h == IF shakes[fwd[q].shake].state = "ok" THEN fwd[q].shake ELSE 0
             r == [fwd[q] EXCEPT !.stage = "send", !.shake = h]
  <2>1. fwd[q].stage = "shaking" /\ (h = fwd[q].shake \/ h = 0) /\ fwd' = [fwd EXCEPT ![q] = r]
    BY <1>1, <1>2 DEF Shaken, At
  <2>2. fwd[q].shake \in 0..Len(shakes) /\ (fwd[q].shake = 0 \/ fwd[q].shake > fwd[q].barred) /\ Len(shakes) \in Nat
    BY <1>1, <2>1 DEF Sound, RequestOK, FwdInv
  <2>a. h \in Nat
    BY <2>1, <2>2
  <2> HIDE DEF h
  <2>3. Same(r, fwd[q]) /\ r.stage = "send" /\ r.shake = h /\ r.barred = fwd[q].barred
    BY <1>1, <2>a DEF Same, RequestType, Stages
  <2> HIDE DEF r
  <2>4. Sound(r, entries, Len(shakes))
    BY <2>1, <2>2, <2>3, SameServes DEF OverStages
  <2> QED BY <1>2, <2>1, <2>3, <2>4, RequestMoves DEF Shaken, signVars, mapVars, OverStages
<1>3. CASE Send(q)
  <2> DEFINE t == fwd[q].tries + 1
             r == [fwd[q] EXCEPT !.stage = "sent", !.tries = t]
  <2>a. t \in Nat
    BY <1>1 DEF RequestType
  <2>1. /\ fwd[q].stage = "send" /\ UNCHANGED <<entries, shakes, gen, relay>>
        /\ End(q, fwd[q]) \/ (fwd' = [fwd EXCEPT ![q] = r] /\ active' = active)
    BY <1>1, <1>3 DEF Send, At, signVars, mapVars
  <2> HIDE DEF t
  <2>2. Same(r, fwd[q]) /\ r.stage = "sent" /\ r.shake = fwd[q].shake
    BY <1>1, <2>a DEF Same, RequestType, Stages
  <2> HIDE DEF r
  <2>3. Sound(r, entries, Len(shakes))
    BY <1>1, <2>1, <2>2, SameServes DEF Sound, RequestOK, OverStages, Same
  <2> QED BY <1>1, <2>1, <2>2, <2>3, EndingServes, RequestMoves DEF OverStages
<1>4. CASE Streams(q)
  BY <1>4, GoServes DEF Streams, At, OverStages, Stages, signVars, mapVars
<1>5. CASE Completes(q)
  BY <1>1, <1>5, GoServes, EndingServes DEF Completes, At, OverStages, Stages, signVars, mapVars
<1> QED BY <1>2, <1>3, <1>4, <1>5

LEMMA LegServes ==
    ASSUME FwdInv, NEW q \in ZcodeRequests, Leg(q) PROVE FwdInv'
<1> DEFINE l == fwd[q].legs + 1
           r == [fwd[q] EXCEPT !.stage = "sign", !.legs = l, !.barred = 0]
<1>1. /\ Sound(fwd[q], entries, Len(shakes)) /\ fwd[q] \in RequestType /\ q \in DOMAIN fwd
      /\ fwd[q].stage = "stream" /\ EntriesOK(entries, Len(shakes)) /\ Len(shakes) \in Nat
  BY DEF FwdInv, Sound, Leg, At
<1>2. fwd' = [fwd EXCEPT ![q] = r] /\ active' = active
  BY <1>1 DEF Leg
<1>a. l \in Nat
  BY <1>1 DEF RequestType
<1> HIDE DEF l
<1>3. /\ r \in RequestType /\ r.stage = "sign" /\ r.shake = fwd[q].shake /\ r.barred = 0
      /\ r.on = fwd[q].on /\ r.logs = fwd[q].logs
  BY <1>1, <1>a DEF RequestType, Stages
<1> HIDE DEF r
<1>4. Younger(r, entries)
  BY <1>1, <1>3 DEF Younger, EntriesOK
<1>5. Sound(r, entries, Len(shakes))
  BY <1>1, <1>3, <1>4 DEF Sound, RequestOK, OverStages
<1> QED BY <1>2, <1>3, <1>5, RequestMoves DEF OverStages, Leg, signVars, mapVars

(* Dropping the entries of a key leaves every request signed as before. *)
LEMMA DropServes ==
    ASSUME FwdInv, NEW k, NEW r, Sound(r, entries, Len(shakes))
    PROVE  Sound(r, Without(k), Len(shakes))
<1>1. \A i \in 1..Len(Without(k)) : \E j \in 1..Len(entries) : Without(k)[i] = entries[j]
  BY WithoutEntries
<1> HIDE DEF Without
<1> QED BY <1>1 DEF Sound, Younger

LEMMA RefusedServes ==
    ASSUME FwdInv, NEW q \in ZcodeRequests, Refused(q) PROVE FwdInv'
<1>1. /\ Sound(fwd[q], entries, Len(shakes)) /\ fwd[q] \in RequestType /\ q \in DOMAIN fwd
      /\ fwd[q].stage = "sent" /\ fwd[q].on \in SignKeys /\ Len(shakes) \in Nat
      /\ fwd[q].shake \in 0..Len(shakes)
      /\ DOMAIN fwd = ZcodeRequests
  BY DEF FwdInv, Sound, Refused, At, RequestOK, OverStages
<1>2. CASE End(q, fwd[q]) /\ UNCHANGED <<entries, cooled>>
  BY <1>1, <1>2, EndingServes DEF Refused, mapVars
<1>3. CASE ~(End(q, fwd[q]) /\ UNCHANGED <<entries, cooled>>)
  <2> DEFINE k == fwd[q].on
             r == [fwd[q] EXCEPT !.stage = "sign", !.barred = fwd[q].shake, !.shake = 0]
  <2>1. /\ entries' = Without(k) /\ fwd' = [fwd EXCEPT ![q] = r] /\ active' = active
        /\ UNCHANGED <<shakes, gen, relay>>
    BY <1>1, <1>3 DEF Refused, Invalidate, mapVars
  <2>2. /\ r \in RequestType /\ r.stage = "sign" /\ r.shake = 0 /\ r.barred = fwd[q].shake
        /\ r.on = k /\ r.logs = fwd[q].logs
    BY <1>1 DEF RequestType, Stages
  <2> HIDE DEF r
  <2>3. EntriesOK(entries', Len(shakes)) /\ \A i \in 1..Len(entries') : entries'[i][1] # k
    BY <2>1, WithoutEntries
  <2>4. Sound(r, entries', Len(shakes))
    BY <1>1, <2>2, <2>3 DEF Sound, RequestOK, OverStages, Younger
  <2>5. ASSUME NEW p \in ZcodeRequests \ {q} PROVE Sound(fwd'[p], entries', Len(shakes)) /\ fwd'[p] = fwd[p]
    <3>1. fwd'[p] = fwd[p] /\ Sound(fwd[p], entries, Len(shakes))
      BY <2>1 DEF FwdInv
    <3> QED BY <2>1, <3>1, DropServes
  <2>6. fwd'[q] = r /\ DOMAIN fwd' = ZcodeRequests
    BY <1>1, <2>1
  <2>7. active' \subseteq {p \in ZcodeRequests : fwd'[p].stage \notin OverStages}
    BY <2>1, <2>2, <2>5, <2>6 DEF FwdInv, OverStages
  <2> QED BY <2>1, <2>3, <2>4, <2>5, <2>6, <2>7 DEF FwdInv
<1> QED BY <1>2, <1>3

LEMMA KeysServe ==
    ASSUME FwdInv,
           \/ \E h \in 1..Len(shakes) : HandshakeDone(h) \/ HandshakeFails(h)
           \/ \E k \in SignKeys : KeyCooled(k) \/ Rotates(k)
    PROVE  FwdInv'
<1>1. CASE \E h \in 1..Len(shakes) : HandshakeDone(h)
  <2>1. PICK h \in 1..Len(shakes) : HandshakeDone(h)
    BY <1>1
  <2> DEFINE g == gen[shakes[h].key]
             r == [shakes[h] EXCEPT !.state = "ok", !.gen = g]
  <2>a. shakes \in Seq(ShakeType) /\ shakes[h] \in ShakeType
    BY DEF FwdInv
  <2>2. g \in Nat
    BY <2>a DEF FwdInv, ShakeType
  <2> HIDE DEF g
  <2>b. r \in ShakeType
    BY <2>a, <2>2 DEF ShakeType
  <2>c. shakes' = [shakes EXCEPT ![h] = r]
    BY <2>1, <2>a DEF HandshakeDone, g
  <2> HIDE DEF r
  <2>3. shakes' \in Seq(ShakeType) /\ Len(shakes') = Len(shakes)
    BY <2>a, <2>b, <2>c
  <2> QED BY <2>1, <2>3 DEF FwdInv, HandshakeDone, mapVars
<1>2. CASE \E h \in 1..Len(shakes) : HandshakeFails(h)
  <2>1. PICK h \in 1..Len(shakes) : HandshakeFails(h)
    BY <1>2
  <2> DEFINE k == shakes[h].key
  <2>2. /\ shakes' = [shakes EXCEPT ![h].state = "failed"] /\ entries' = Without(k)
        /\ UNCHANGED <<fwd, active, gen, relay>>
    BY <2>1 DEF HandshakeFails, mapVars
  <2>3. shakes' \in Seq(ShakeType) /\ Len(shakes') = Len(shakes)
    <3>1. shakes[h] \in ShakeType
      BY DEF FwdInv
    <3> QED BY <2>2, <3>1, SMTT(40) DEF FwdInv, ShakeType
  <2> HIDE DEF k
  <2>4. EntriesOK(entries', Len(shakes)) /\ \A q \in ZcodeRequests : Sound(fwd[q], entries', Len(shakes))
    <3>1. ASSUME NEW q \in ZcodeRequests PROVE Sound(fwd[q], Without(k), Len(shakes))
      BY DropServes DEF FwdInv
    <3> QED BY <2>2, <3>1, WithoutEntries
  <2> QED BY <2>2, <2>3, <2>4 DEF FwdInv
<1>3. CASE \E k \in SignKeys : KeyCooled(k) \/ Rotates(k)
  <2>1. gen' \in [SignKeys -> Nat] /\ UNCHANGED <<fwd, active, entries, shakes, relay>>
    BY <1>3 DEF KeyCooled, Rotates, mapVars, FwdInv
  <2> QED BY <2>1 DEF FwdInv
<1> QED BY <1>1, <1>2, <1>3

(* A request whose client or adapter leaves. *)
LEMMA HangServes ==
    ASSUME FwdInv, NEW q \in ZcodeRequests, fwd[q].stage \notin OverStages
    PROVE  Sound(Hangs(fwd[q]), entries, Len(shakes))
<1>1. /\ Sound(fwd[q], entries, Len(shakes)) /\ fwd[q] \in RequestType /\ Len(shakes) \in Nat
      /\ fwd[q].stage # "done" /\ entries \in Seq(SignKeys \X (1..Len(shakes)))
  BY DEF FwdInv, Sound, OverStages, EntriesOK
<1> DEFINE r == [fwd[q] EXCEPT !.aborted = TRUE]
<1>2. Hangs(fwd[q]) = EndedRequest(fwd[q]) \/ Hangs(fwd[q]) = r
  BY DEF Hangs
<1>3. Same(r, fwd[q]) /\ r.stage = fwd[q].stage /\ r.shake = fwd[q].shake
  BY <1>1 DEF Same, RequestType, OverStages
<1> HIDE DEF r
<1>4. Sound(r, entries, Len(shakes))
  BY <1>1, <1>3, SameServes DEF Sound, RequestOK, Same
<1> QED BY <1>1, <1>2, <1>4, Ending

LEMMA LeaveServes ==
    ASSUME FwdInv, (\E q \in ZcodeRequests : Leaves(q)) \/ CloseAdapter PROVE FwdInv'
<1>1. CASE \E q \in ZcodeRequests : Leaves(q)
  <2>1. PICK q \in ZcodeRequests : Leaves(q)
    BY <1>1
  <2> DEFINE r == Hangs(fwd[q])
  <2>2. Sound(r, entries, Len(shakes)) /\ fwd' = [fwd EXCEPT ![q] = r] /\ fwd'[q] = r
    BY <2>1, HangServes DEF Leaves, FwdInv
  <2>3. r.stage # "idle"
    BY <2>1 DEF Leaves, Hangs, EndedRequest, NewRequest, OverStages, FwdInv, Sound, RequestType
  <2>4. active' = IF r.stage = "done" THEN active \ {q} ELSE active
    BY <2>1, <2>2 DEF Leaves
  <2> HIDE DEF r
  <2> QED BY <2>1, <2>2, <2>3, <2>4, RequestMoves DEF Leaves, signVars, mapVars, OverStages
<1>2. CASE CloseAdapter
  <2>1. ASSUME NEW q \in ZcodeRequests PROVE Sound(fwd'[q], entries, Len(shakes))
    <3>1. CASE q \in active
      <4>1. fwd'[q] = Hangs(fwd[q]) /\ fwd[q].stage \notin OverStages
        BY <1>2, <3>1 DEF CloseAdapter, FwdInv
      <4> QED BY <4>1, HangServes
    <3>2. CASE q \notin active
      BY <1>2, <3>2 DEF CloseAdapter, FwdInv
    <3> QED BY <3>1, <3>2
  <2> QED BY <1>2, <2>1 DEF CloseAdapter, FwdInv, signVars, mapVars
<1> QED BY <1>1, <1>2

LEMMA FwdInvStep == FwdInv /\ [FwdNext]_fwdVars => FwdInv'
<1> SUFFICES ASSUME FwdInv, [FwdNext]_fwdVars PROVE FwdInv'
  OBVIOUS
<1>1. ASSUME NEW q \in ZcodeRequests, NEW k \in SignKeys, NEW own \in BOOLEAN, NEW compact \in BOOLEAN,
             Accept(q, k, own, compact) PROVE FwdInv'
  BY <1>1, AcceptServes
<1>2. ASSUME NEW q \in ZcodeRequests, NoRoute(q) \/ KeyFails(q) \/ Rejected(q) \/ Mapped(q) PROVE FwdInv'
  BY <1>2, EndsServe
<1>3. ASSUME NEW q \in ZcodeRequests, NEW ok \in BOOLEAN, KeyArrives(q, ok) PROVE FwdInv'
  BY <1>3, KeyServes
<1>4. ASSUME NEW q \in ZcodeRequests, Route(q) \/ Context(q) PROVE FwdInv'
  BY <1>4, RouteServes, ContextServes
<1>5. ASSUME NEW q \in ZcodeRequests, Shaken(q) \/ Send(q) \/ Streams(q) \/ Completes(q) PROVE FwdInv'
  BY <1>5, ShakenServes
<1>6. ASSUME NEW q \in ZcodeRequests, Sign(q) \/ Refused(q) \/ Leg(q) PROVE FwdInv'
  BY <1>6, SignServes, RefusedServes, LegServes
<1>7. CASE (\E q \in ZcodeRequests : Leaves(q)) \/ CloseAdapter
  BY <1>7, LeaveServes
<1>8. CASE (\E to \in BOOLEAN : MapArrives(to)) \/ MapFails \/ MapAges \/ PauseEnds
  BY <1>8, MapServes
<1>9. CASE \/ \E h \in 1..Len(shakes) : HandshakeDone(h) \/ HandshakeFails(h)
           \/ \E k \in SignKeys : KeyCooled(k) \/ Rotates(k)
  BY <1>9, KeysServe
<1>10. CASE UNCHANGED fwdVars
  BY <1>10 DEF fwdVars, FwdInv
<1> QED BY <1>1, <1>2, <1>3, <1>4, <1>5, <1>6, <1>7, <1>8, <1>9, <1>10 DEF FwdNext

LEMMA FwdInvInit == FwdInit => FwdInv
<1> SUFFICES ASSUME FwdInit PROVE FwdInv
  OBVIOUS
<1>1. /\ NewRequest \in RequestType /\ NewRequest.stage = "idle" /\ NewRequest.shake = 0
      /\ NewRequest.barred = 0 /\ NewRequest.logs = 0
  BY DEF NewRequest, RequestType, Stages
<1>2. entries = <<>> /\ shakes = <<>> /\ EntriesOK(entries, 0)
  BY ForwardAssumption DEF FwdInit, EntriesOK, ForwardAssumption
<1>3. Sound(NewRequest, entries, 0)
  BY <1>1, <1>2 DEF Sound, RequestOK, Younger, OverStages
<1>4. Len(shakes) = 0 /\ shakes \in Seq(ShakeType) /\ gen \in [SignKeys -> Nat] /\ relay \in BOOLEAN
      /\ active = {} /\ DOMAIN fwd = ZcodeRequests /\ \A q \in ZcodeRequests : fwd[q] = NewRequest
  <2>1. gen \in [SignKeys -> Nat]
    BY DEF FwdInit
  <2>2. Len(shakes) = 0 /\ shakes \in Seq(ShakeType)
    BY <1>2
  <2>3. relay \in BOOLEAN /\ active = {} /\ DOMAIN fwd = ZcodeRequests
    BY DEF FwdInit
  <2> QED BY <2>1, <2>2, <2>3 DEF FwdInit
<1> QED BY <1>2, <1>3, <1>4 DEF FwdInv

(* A request is repeated only with a signature that the service has not    *)
(* refused it, and however it ends it is released and logged once its      *)
(* channel is known: forward with invalidate and decorate, whatever the    *)
(* other requests, the service and the adapter do meanwhile.               *)
THEOREM RetriesAreFresh == FwdSpec => []RetryIsFresh
<1>1. FwdInv => RetryIsFresh
  BY DEF FwdInv, RetryIsFresh, Sound, RequestOK, At, OverStages
<1> QED BY <1>1, FwdInvInit, FwdInvStep, PTL DEF FwdSpec

(* Requests refer to handshakes there are; the cache of keys is bounded. *)
THEOREM ForwardTypes == FwdSpec => []FwdTypeOK
<1>1. FwdInv => FwdTypeOK
  BY DEF FwdInv, FwdTypeOK, Sound, RequestOK, RequestType, EntriesOK
<1> QED BY <1>1, FwdInvInit, FwdInvStep, PTL DEF FwdSpec

-----------------------------------------------------------------------------
(* The keys: what was read stays true until a write is noticed or under    *)
(* way.                                                                    *)

WorldType == [setting : Families \union {Nobody}, login : Logins \union {Nobody}, mirror : Logins,
              route : BOOLEAN]
MintType == [family : Families \union {Nobody}, login : Logins \union {Nobody}]
CacheType ==
    [dirty : SUBSET Files, picked : Families \union {Nobody}, route : {"none", "ok", "bad"},
     mirror : Logins \union {Nobody}, seen : Logins \union {Nobody}, mode : BOOLEAN,
     credential : KeyType, minted : KeyType, snapshot : KeyType,
     bears : Logins \union {Nobody}, blind : BOOLEAN, failed : BOOLEAN, resolving : MintType, orphan : BOOLEAN,
     force : BOOLEAN, checked : BOOLEAN, begun : BOOLEAN, closed : BOOLEAN]

(* Every key of the cache is of the channel picked. *)
OfChannel(k) ==
    k.picked # Nobody =>
        /\ k.credential # NoKey => k.credential.family = k.picked
        /\ k.minted # NoKey => k.minted.family = k.picked
        /\ k.snapshot # NoKey => k.snapshot.family = k.picked
        /\ k.resolving # NoMint => k.resolving.family = k.picked

(* No key of a team is served while its promise runs.  Unless an event     *)
(* without a name met it, the promise is of the account whose credentials  *)
(* were read last, which are those on disk while no event of theirs is     *)
(* under way; and the key it left is of the account whose fingerprint it   *)
(* bears.                                                                  *)
OfTeam(k, w, fresh) ==
    k.picked # Nobody =>
        /\ k.resolving # NoMint => k.snapshot = NoKey
        /\ ~k.blind /\ k.resolving # NoMint =>
              k.resolving.login = k.seen /\ (fresh => k.seen = w.login)
        /\ ~k.blind /\ k.resolving = NoMint /\ k.minted # NoKey => k.minted.login = k.bears

(* A check of a team's credentials that is due finds no promise, and with  *)
(* none due the key served is of the account on disk.                      *)
TeamRests(k, w, fresh) ==
    k.picked # Nobody /\ ~k.blind =>
        IF "credentials" \in k.dirty THEN k.resolving = NoMint
        ELSE fresh /\ ~k.failed /\ k.snapshot # NoKey => k.snapshot.login = w.login

(* What was read stays true until a write of the file is noticed or under  *)
(* way (due), and what is served came from what was read.                  *)
Follows(k, w, events, plan) ==
    /\ "setting" \notin events \union k.dirty /\ k.picked # Nobody => k.picked = w.setting
    /\ "config" \notin events \union k.dirty /\ k.picked # Nobody => k.mirror = w.mirror
    /\ plan = "team" =>
          LET fresh == "credentials" \notin events
          IN  OfTeam(k, w, fresh) /\ TeamRests(k, w, fresh)
    /\ plan \in {"start", "api"} => k.resolving = NoMint
    /\ plan = "api" /\ ~k.failed /\ k.snapshot # NoKey => k.snapshot.login = k.mirror

(* Without a channel nothing is served; a key that is served is the        *)
(* credential; a closed cache holds nothing.                               *)
Rests(k) ==
    /\ k.picked = Nobody => k.failed \/ k.snapshot = NoKey
    /\ k.snapshot # NoKey => k.credential # NoKey
    /\ k.closed => k.picked = Nobody /\ k.snapshot = NoKey /\ k.resolving = NoMint

CacheInv(k, w, events, plan) ==
    k \in CacheType /\ OfChannel(k) /\ Rests(k) /\ Follows(k, w, events, plan)

(* Each caller waits for something that will wake it. *)
CallersOK(callers, k) ==
    /\ callers \in [KeyClients -> {"idle", "waiting", "promise", "orphan"}]
    /\ \A c \in KeyClients :
          /\ callers[c] = "waiting" => k.dirty # {}
          /\ callers[c] = "promise" => k.resolving # NoMint
          /\ callers[c] = "orphan" => k.orphan

KeyInv ==
    /\ keyPlan \in KeyPlans /\ keyWorld \in WorldType
    /\ keyEvents \subseteq Files /\ keyWrites \in 0..MaxWrites
    /\ CacheInv(cache, keyWorld, keyEvents, keyPlan)
    /\ CallersOK(keyCaller, cache)

-----------------------------------------------------------------------------
(* What a check does to the promise under way: it stays, or it is set      *)
(* aside and keeps running.                                                *)
SetsAside(before, after) ==
    /\ before.orphan => after.orphan
    /\ before.resolving # NoMint /\ after.resolving # before.resolving => after.orphan

LEMMA BumpedKeeps ==
    ASSUME NEW k \in CacheType
    PROVE  LET b == Bumped(k)
           IN  /\ b \in CacheType
               /\ b.dirty = k.dirty /\ b.picked = k.picked /\ b.route = k.route /\ b.mirror = k.mirror
               /\ b.failed = k.failed /\ b.begun = k.begun /\ b.closed = k.closed
               /\ b.credential = NoKey /\ b.minted = NoKey /\ b.snapshot = NoKey /\ b.resolving = NoMint
               /\ b.orphan = Orphaned(k) /\ b.blind = FALSE
<1>1. NoKey \in KeyType /\ NoMint \in MintType /\ Orphaned(k) \in BOOLEAN
  BY DEF NoKey, NoMint, KeyType, MintType, Orphaned, CacheType
<1> QED BY <1>1 DEF Bumped, CacheType

LEMMA TeamBumpedKeeps ==
    ASSUME NEW k \in CacheType
    PROVE  LET b == TeamBumped(k)
           IN  /\ b \in CacheType
               /\ b.dirty = k.dirty /\ b.picked = k.picked /\ b.route = k.route /\ b.mirror = k.mirror
               /\ b.failed = k.failed /\ b.begun = k.begun /\ b.closed = k.closed
               /\ b.credential = NoKey /\ b.minted = NoKey /\ b.snapshot = NoKey /\ b.resolving = NoMint
               /\ b.orphan = Orphaned(k) /\ b.blind = FALSE
<1>1. NoKey \in KeyType /\ NoMint \in MintType /\ Orphaned(k) \in BOOLEAN
  BY DEF NoKey, NoMint, KeyType, MintType, Orphaned, CacheType
<1> QED BY <1>1 DEF TeamBumped, CacheType

-----------------------------------------------------------------------------
(* A check, stage by stage.                                                *)

(* After the selection, the credentials and the route were read. *)
Midway(k, w, events, plan) ==
    /\ k \in CacheType /\ k.picked # Nobody /\ ~k.closed /\ k.dirty = {}
    /\ OfChannel(k) /\ (k.snapshot # NoKey => k.credential # NoKey)
    /\ "setting" \notin events => k.picked = w.setting
    /\ "config" \notin events => k.mirror = w.mirror
    /\ plan = "team" => OfTeam(k, w, "credentials" \notin events)
    /\ plan \in {"start", "api"} => k.resolving = NoMint

(* What a stage leaves alone. *)
SameState(a, b) ==
    /\ a \in CacheType /\ a.picked = b.picked /\ a.dirty = b.dirty /\ a.closed = b.closed
    /\ a.credential = b.credential /\ a.minted = b.minted /\ a.snapshot = b.snapshot
    /\ a.resolving = b.resolving /\ a.orphan = b.orphan /\ a.failed = b.failed
    /\ a.bears = b.bears /\ a.blind = b.blind

LEMMA SelectionNamed ==
    ASSUME NEW w \in WorldType
    PROVE  Selection(w) \in Families \union {Nobody} /\ (Selection(w) # Nobody => Selection(w) = w.setting)
BY DEF Selection, WorldType

LEMMA ReadSame ==
    ASSUME NEW k \in CacheType, NEW w \in WorldType
    PROVE  SameState(Read(k, w), k) /\ Read(k, w).mirror = k.mirror /\ Read(k, w).route = k.route
BY DEF Read, SameState, CacheType, WorldType

LEMMA RoutedSame ==
    ASSUME NEW k \in CacheType, NEW w \in WorldType
    PROVE  SameState(Routed(k, w), k) /\ Routed(k, w).mirror = w.mirror /\ Routed(k, w).seen = k.seen
<1> DEFINE r == IF w.route THEN "ok" ELSE "bad"
<1>1. r \in {"none", "ok", "bad"} /\ w.mirror \in Logins \union {Nobody}
  BY DEF WorldType
<1>2. Routed(k, w) = [k EXCEPT !.route = r, !.mirror = w.mirror]
  BY DEF Routed
<1> HIDE DEF r
<1> QED BY <1>1, <1>2 DEF SameState, CacheType

LEMMA SameMidway ==
    ASSUME NEW a, NEW b, NEW w, NEW events, NEW plan,
           Midway(b, w, events, plan), SameState(a, b),
           "config" \notin events => a.mirror = w.mirror,
           plan = "team" /\ ~b.blind /\ b.resolving # NoMint => a.seen = b.seen
    PROVE  Midway(a, w, events, plan)
BY DEF Midway, SameState, OfChannel, OfTeam

(* A cache of no channel that failed. *)
LEMMA Unselected ==
    ASSUME NEW k, NEW w, NEW events, NEW plan, CacheInv(k, w, events, plan), ~k.closed
    PROVE  LET f == Fails([[k EXCEPT !.dirty = {}, !.begun = TRUE] EXCEPT !.picked = Nobody])
           IN  CacheInv(f, w, events, plan) /\ SetsAside(k, f) /\ f.dirty = {} /\ ~f.closed
<1> DEFINE f == Fails([[k EXCEPT !.dirty = {}, !.begun = TRUE] EXCEPT !.picked = Nobody])
<1>1. k \in CacheType
  BY DEF CacheInv
<1>2. /\ f \in CacheType /\ f.picked = Nobody /\ f.failed = TRUE /\ f.dirty = {}
      /\ f.closed = k.closed /\ f.credential = k.credential /\ f.snapshot = k.snapshot
      /\ f.resolving = k.resolving /\ f.orphan = k.orphan
      /\ f.seen = k.seen /\ f.bears = k.bears /\ f.blind = k.blind
  BY <1>1 DEF Fails, CacheType
<1> HIDE DEF f
<1> QED BY <1>2 DEF CacheInv, OfChannel, Rests, Follows, OfTeam, TeamRests, SetsAside, f

LEMMA FailsKeeps ==
    ASSUME NEW k, NEW w, NEW events, NEW plan, Midway(k, w, events, plan)
    PROVE  /\ CacheInv(Fails(k), w, events, plan) /\ SetsAside(k, Fails(k)) /\ Fails(k).dirty = {}
           /\ ~Fails(k).closed
<1> DEFINE f == Fails(k)
<1>2. /\ f \in CacheType /\ f.picked = k.picked /\ f.failed = TRUE /\ f.dirty = k.dirty
      /\ f.closed = k.closed /\ f.credential = k.credential /\ f.snapshot = k.snapshot
      /\ f.resolving = k.resolving /\ f.orphan = k.orphan /\ f.minted = k.minted /\ f.mirror = k.mirror
      /\ f.seen = k.seen /\ f.bears = k.bears /\ f.blind = k.blind
  BY DEF Fails, CacheType, Midway
<1> HIDE DEF f
<1> QED BY <1>2 DEF CacheInv, OfChannel, Rests, Follows, OfTeam, TeamRests, SetsAside, Midway, f

(* A key is stored: it is of the channel, of the account. *)
Storable(key, k, w, events, plan) ==
    /\ key \in KeyType /\ key # NoKey /\ key.family = k.picked
    /\ plan = "api" => key.login = k.mirror
    /\ plan = "team" => k.resolving = NoMint
    /\ plan = "team" /\ "credentials" \notin events /\ ~k.blind => key.login = w.login

LEMMA StoredKeeps ==
    ASSUME NEW k, NEW w, NEW events, NEW plan, Midway(k, w, events, plan),
           NEW key, Storable(key, k, w, events, plan),
           NEW c \in BOOLEAN, NEW s, s = [Stored(k, key) EXCEPT !.checked = c]
    PROVE  CacheInv(s, w, events, plan) /\ SetsAside(k, s) /\ s.dirty = {} /\ ~s.closed
<1>1. k \in CacheType
  BY DEF Midway
<1>2. /\ s \in CacheType /\ s.picked = k.picked /\ s.failed = FALSE /\ s.dirty = k.dirty
      /\ s.closed = k.closed /\ s.credential = key /\ s.snapshot = key /\ s.minted = k.minted
      /\ s.resolving = k.resolving /\ s.orphan = k.orphan /\ s.mirror = k.mirror
      /\ s.seen = k.seen /\ s.bears = k.bears /\ s.blind = k.blind
  BY <1>1 DEF Stored, CacheType, Storable
<1> QED BY <1>2 DEF CacheInv, OfChannel, Rests, Follows, OfTeam, TeamRests, SetsAside, Midway, Storable

(* A key grew old: the check fails and nothing else changes but the *)
(* credential, which is the minted key or what it was.              *)
LEMMA OldKeeps ==
    ASSUME NEW k, NEW w, NEW events, NEW plan, Midway(k, w, events, plan),
           NEW key \in {k.credential, k.minted}, key # NoKey \/ key = k.credential,
           NEW s, s = [k EXCEPT !.credential = key, !.checked = TRUE, !.failed = TRUE]
    PROVE  CacheInv(s, w, events, plan) /\ SetsAside(k, s) /\ s.dirty = {} /\ ~s.closed
<1>1. k \in CacheType
  BY DEF Midway
<1>2. /\ s \in CacheType /\ s.picked = k.picked /\ s.failed = TRUE /\ s.dirty = k.dirty
      /\ s.closed = k.closed /\ s.credential = key /\ s.snapshot = k.snapshot /\ s.minted = k.minted
      /\ s.resolving = k.resolving /\ s.orphan = k.orphan /\ s.mirror = k.mirror
      /\ s.seen = k.seen /\ s.bears = k.bears /\ s.blind = k.blind
  BY <1>1 DEF CacheType
<1> QED BY <1>2 DEF CacheInv, OfChannel, Rests, Follows, OfTeam, TeamRests, SetsAside, Midway

(* The promise of a key: one that runs is waited for, or one begins for    *)
(* the account whose credentials were read.                                *)
LEMMA MintedKeeps ==
    ASSUME NEW k, NEW w, NEW events, NEW plan, Midway(k, w, events, plan),
           plan \in {"team", "individual"},
           plan = "team" /\ k.resolving = NoMint => k.seen = w.login,
           NEW must \in BOOLEAN,
           ~must => k.minted # NoKey /\ (plan = "team" => k.bears = w.login)
    PROVE  /\ CacheInv(Minted(k, must), w, events, plan) /\ SetsAside(k, Minted(k, must))
           /\ Minted(k, must).dirty = {} /\ ~Minted(k, must).closed
<1>1. k \in CacheType /\ k.picked # Nobody
  BY DEF Midway
<1>2. CASE k.resolving # NoMint
  <2> DEFINE s == [k EXCEPT !.snapshot = NoKey]
  <2>1. Minted(k, must) = s
    BY <1>2 DEF Minted
  <2>2. NoKey \in KeyType
    BY DEF NoKey, KeyType
  <2>3. /\ s \in CacheType /\ s.picked = k.picked /\ s.failed = k.failed /\ s.dirty = k.dirty
        /\ s.closed = k.closed /\ s.credential = k.credential /\ s.snapshot = NoKey /\ s.minted = k.minted
        /\ s.resolving = k.resolving /\ s.orphan = k.orphan /\ s.mirror = k.mirror
        /\ s.seen = k.seen /\ s.bears = k.bears /\ s.blind = k.blind
    BY <1>1, <2>2 DEF CacheType
  <2> HIDE DEF s
  <2> QED BY <1>1, <2>1, <2>3 DEF CacheInv, OfChannel, Rests, Follows, OfTeam, TeamRests, SetsAside, Midway
<1>3. CASE k.resolving = NoMint /\ must
  <2> DEFINE p == [family |-> k.picked, login |-> k.seen]
             s == [k EXCEPT !.resolving = p, !.snapshot = NoKey, !.credential = NoKey,
                            !.checked = FALSE, !.force = FALSE, !.blind = FALSE]
  <2>1. Minted(k, must) = s
    BY <1>3 DEF Minted
  <2>2. NoKey \in KeyType /\ p \in MintType /\ p.family = k.picked /\ p.login = k.seen
    BY <1>1 DEF NoKey, KeyType, MintType, CacheType
  <2>4. p # NoMint
    BY <1>1, <2>2 DEF NoMint
  <2> HIDE DEF p
  <2>3. /\ s \in CacheType /\ s.picked = k.picked /\ s.failed = k.failed /\ s.dirty = k.dirty
        /\ s.closed = k.closed /\ s.credential = NoKey /\ s.snapshot = NoKey /\ s.minted = k.minted
        /\ s.resolving = p /\ s.orphan = k.orphan /\ s.mirror = k.mirror
        /\ s.seen = k.seen /\ s.bears = k.bears /\ s.blind = FALSE
    BY <1>1, <2>2 DEF CacheType
  <2> HIDE DEF s
  <2> QED BY <1>1, <1>3, <2>1, <2>2, <2>3, <2>4 DEF CacheInv, OfChannel, Rests, Follows, OfTeam, TeamRests, SetsAside, Midway
<1>4. CASE k.resolving = NoMint /\ ~must /\ k.minted.old
  <2> DEFINE s == [k EXCEPT !.credential = k.minted, !.checked = TRUE, !.failed = TRUE]
  <2>1. Minted(k, must) = s
    BY <1>4 DEF Minted
  <2> HIDE DEF s
  <2>2. k.minted \in {k.credential, k.minted} /\ k.minted # NoKey
    BY <1>4
  <2> QED BY <2>1, <2>2, OldKeeps DEF s
<1>5. CASE k.resolving = NoMint /\ ~must /\ ~k.minted.old
  <2>1. Minted(k, must) = Stored(k, k.minted)
    BY <1>5 DEF Minted
  <2>2. Stored(k, k.minted) = [Stored(k, k.minted) EXCEPT !.checked = k.checked] /\ k.checked \in BOOLEAN
    BY <1>1 DEF Stored, CacheType
  <2>3. k.minted \in KeyType /\ k.minted # NoKey /\ k.minted.family = k.picked
    BY <1>1, <1>5 DEF CacheType, Midway, OfChannel
  <2>4. plan = "team" /\ ~k.blind => k.minted.login = w.login
    BY <1>1, <1>5, <2>3 DEF Midway, OfTeam
  <2>5. PICK s : s = [Stored(k, k.minted) EXCEPT !.checked = k.checked]
    OBVIOUS
  <2>6. Storable(k.minted, k, w, events, plan)
    BY <1>5, <2>3, <2>4 DEF Storable
  <2>7. CacheInv(s, w, events, plan) /\ SetsAside(k, s) /\ s.dirty = {} /\ ~s.closed
    BY <2>2, <2>5, <2>6, StoredKeeps
  <2> QED BY <2>1, <2>2, <2>5, <2>7
<1> QED BY <1>2, <1>3, <1>4, <1>5

(* The key of the files. *)
LEMMA DirectKeeps ==
    ASSUME NEW k, NEW w, NEW events, Midway(k, w, events, keyPlan), keyPlan # "team",
           NEW personal \in Logins \union {Nobody}, keyPlan = "api" => personal = Nobody
    PROVE  /\ CacheInv(Direct(k, personal), w, events, keyPlan) /\ SetsAside(k, Direct(k, personal))
           /\ Direct(k, personal).dirty = {} /\ ~Direct(k, personal).closed
<1> DEFINE before == k.credential
           from == IF personal # Nobody THEN personal
                   ELSE IF keyPlan = "start" /\ before # NoKey THEN before.login
                   ELSE k.mirror
           same == before # NoKey /\ before.login = from
           key == IF same THEN before ELSE KeyOf(k.picked, from)
           c == k.checked /\ same
<1>1. k \in CacheType /\ k.picked # Nobody /\ k.credential \in KeyType /\ k.checked \in BOOLEAN
      /\ k.picked \in Families \union {Nobody} /\ k.mirror \in Logins \union {Nobody}
  BY DEF Midway, CacheType
<1>2. Direct(k, personal) = IF key.old THEN [k EXCEPT !.checked = TRUE, !.failed = TRUE]
                            ELSE [Stored(k, key) EXCEPT !.checked = @ /\ same]
  BY DEF Direct
<1>3. from \in Logins \union {Nobody} /\ (keyPlan = "api" => from = k.mirror)
  BY <1>1 DEF KeyType
<1> HIDE DEF from
<1>4. key \in KeyType /\ key.login = from /\ (key = before \/ ~key.old) /\ key # NoKey
  BY <1>1, <1>3 DEF KeyType, KeyOf, NoKey
<1>5. key.family = k.picked
  BY <1>1 DEF KeyOf, Midway, OfChannel
<1>6. same \in BOOLEAN
  OBVIOUS
<1> HIDE DEF same
<1>7. Stored(k, key).checked = k.checked /\ Stored(k, key) \in CacheType
  BY <1>1, <1>4 DEF Stored, CacheType
<1>8. c \in BOOLEAN /\ [Stored(k, key) EXCEPT !.checked = @ /\ same] = [Stored(k, key) EXCEPT !.checked = c]
  BY <1>1, <1>6, <1>7
<1> HIDE DEF key, c
<1>9. CASE key.old
  <2> DEFINE s == [k EXCEPT !.credential = before, !.checked = TRUE, !.failed = TRUE]
  <2>1. s = [k EXCEPT !.checked = TRUE, !.failed = TRUE]
    BY <1>1 DEF CacheType
  <2>2. Direct(k, personal) = s
    BY <1>2, <1>9, <2>1
  <2>3. PICK v \in {k.credential, k.minted} : v = k.credential
    OBVIOUS
  <2>4. s = [k EXCEPT !.credential = v, !.checked = TRUE, !.failed = TRUE]
    BY <2>3
  <2> HIDE DEF s, before
  <2>5. CacheInv(s, w, events, keyPlan) /\ SetsAside(k, s) /\ s.dirty = {} /\ ~s.closed
    BY <2>3, <2>4, OldKeeps
  <2> QED BY <2>2, <2>5
<1>10. CASE ~key.old
  <2>1. Direct(k, personal) = [Stored(k, key) EXCEPT !.checked = c]
    BY <1>2, <1>8, <1>10
  <2>2. PICK s : s = [Stored(k, key) EXCEPT !.checked = c]
    OBVIOUS
  <2>3. CacheInv(s, w, events, keyPlan) /\ SetsAside(k, s) /\ s.dirty = {} /\ ~s.closed
    <3>1. /\ keyPlan = "api" => key.login = k.mirror
          /\ keyPlan = "team" /\ "credentials" \notin events /\ ~k.blind => key.login = w.login
      BY <1>3, <1>4
    <3>2. Storable(key, k, w, events, keyPlan)
      BY <1>4, <1>5, <3>1 DEF Storable
    <3> HIDE DEF before
    <3> QED BY <1>8, <2>2, <3>2, StoredKeeps
  <2> QED BY <2>1, <2>2, <2>3
<1> QED BY <1>9, <1>10

(* What a check leaves. *)
Good(k, x, w, events, plan) ==
    CacheInv(x, w, events, plan) /\ SetsAside(k, x) /\ x.dirty = {} /\ ~x.closed

LEMMA KeyedKeeps ==
    ASSUME NEW k, NEW w \in WorldType, NEW events, Midway(k, w, events, keyPlan),
           NEW readNow \in BOOLEAN, readNow => k.seen = w.login, keyPlan = "api" => ~readNow,
           keyPlan \in KeyPlans
    PROVE  Good(k, Keyed(k, w, readNow), w, events, keyPlan)
<1>1. k \in CacheType /\ k.mode \in BOOLEAN /\ k.force \in BOOLEAN /\ w.login \in Logins \union {Nobody}
  BY DEF Midway, CacheType, WorldType
<1>2. CASE keyPlan = "team"
  <2> DEFINE must == ~readNow \/ k.force \/ Stale(k, k.seen)
             r == IF readNow \/ k.resolving # NoMint THEN k ELSE [k EXCEPT !.seen = w.login]
  <2>1. Keyed(k, w, readNow) = Minted(r, must)
    BY <1>2 DEF Keyed
  <2>2. /\ SameState(r, k) /\ r.mirror = k.mirror
        /\ IF k.resolving = NoMint THEN r.seen = w.login ELSE r.seen = k.seen
    BY <1>1 DEF SameState, CacheType
  <2>3. must \in BOOLEAN /\ (~must => r.minted # NoKey /\ r.bears = w.login)
    BY <2>2 DEF Stale, SameState
  <2> HIDE DEF must, r
  <2>4. Midway(r, w, events, keyPlan)
    <3>1. "config" \notin events => r.mirror = w.mirror
      BY <2>2 DEF Midway
    <3> QED BY <2>2, <3>1, SameMidway
  <2>5. Good(r, Minted(r, must), w, events, keyPlan)
    <3>1. r.resolving = NoMint => r.seen = w.login
      BY <2>2 DEF SameState
    <3> QED BY <1>2, <2>3, <2>4, <3>1, MintedKeeps DEF Good
  <2> QED BY <2>1, <2>2, <2>5 DEF Good, SetsAside, SameState
<1>3. CASE keyPlan = "individual" /\ k.mode
  <2>1. Keyed(k, w, readNow) = Minted(k, Stale(k, k.seen))
    BY <1>3 DEF Keyed
  <2>2. Stale(k, k.seen) \in BOOLEAN /\ (~Stale(k, k.seen) => k.minted # NoKey)
    BY DEF Stale
  <2> HIDE DEF Stale
  <2> QED BY <1>3, <2>1, <2>2, MintedKeeps DEF Good
<1>4. CASE keyPlan # "team" /\ ~(keyPlan = "individual" /\ k.mode)
  <2> DEFINE personal == IF readNow THEN OnDisk(w) ELSE Nobody
  <2>1. Keyed(k, w, readNow) = Direct(k, personal)
    BY <1>4 DEF Keyed
  <2>2. personal \in Logins \union {Nobody} /\ (keyPlan = "api" => personal = Nobody)
    BY <1>1 DEF OnDisk
  <2> HIDE DEF personal
  <2> QED BY <1>4, <2>1, <2>2, DirectKeeps DEF Good
<1> QED BY <1>2, <1>3, <1>4

LEMMA CheckedKeeps ==
    ASSUME NEW k, NEW w \in WorldType, NEW events, CacheInv(k, w, events, keyPlan), ~k.closed,
           keyPlan \in KeyPlans
    PROVE  Good(k, Checked(k, w), w, events, keyPlan)
<1> DEFINE changed == k.dirty
           k1 == [k EXCEPT !.dirty = {}, !.begun = TRUE]
           next == Selection(w)
           again == Reselects(k1, changed)
           moved == again /\ next # k1.picked
           k2 == IF moved THEN [Bumped(k1) EXCEPT !.picked = next] ELSE k1
           readNow == keyPlan # "api" /\ (moved \/ "credentials" \in changed)
           k3 == IF readNow THEN Read(k2, w) ELSE k2
           reroute == \/ moved \/ "config" \in changed \/ k2.route = "none"
                      \/ readNow /\ (k3.seen # k2.seen \/ k3.mode # k2.mode)
           k4 == IF reroute THEN Routed(k3, w) ELSE k3
<1>1. Checked(k, w) = IF again /\ next = Nobody THEN Fails([k1 EXCEPT !.picked = Nobody])
                      ELSE IF k4.route = "bad" THEN Fails(k4) ELSE Keyed(k4, w, readNow)
  BY DEF Checked
<1>2. /\ k1 \in CacheType /\ k1.dirty = {} /\ k1.picked = k.picked /\ k1.closed = k.closed
      /\ k1.credential = k.credential /\ k1.minted = k.minted /\ k1.snapshot = k.snapshot
      /\ k1.resolving = k.resolving /\ k1.orphan = k.orphan /\ k1.mirror = k.mirror
      /\ k1.seen = k.seen /\ k1.bears = k.bears /\ k1.blind = k.blind
  BY DEF CacheInv, CacheType
<1>3. CASE again /\ next = Nobody
  <2>1. Checked(k, w) = Fails([k1 EXCEPT !.picked = Nobody])
    BY <1>1, <1>3
  <2> QED BY <2>1, Unselected DEF Good
<1>4. CASE ~(again /\ next = Nobody)
  <2> HIDE DEF k1
  <2>1. next \in Families \union {Nobody} /\ (next # Nobody => next = w.setting)
    BY SelectionNamed
  <2>2. ~again => k1.picked # Nobody /\ "setting" \notin changed
    BY DEF Reselects
  <2> HIDE DEF next, again
  <2>3. CASE moved
    <3>1. next # Nobody
      BY <1>4, <2>3
    <3> DEFINE b == Bumped(k1)
    <3>2. /\ b \in CacheType /\ b.dirty = {} /\ b.closed = k.closed
          /\ b.credential = NoKey /\ b.minted = NoKey /\ b.snapshot = NoKey /\ b.resolving = NoMint
          /\ b.orphan = Orphaned(k1)
      BY <1>2, BumpedKeeps
    <3>3. Orphaned(k1) = Orphaned(k)
      BY <1>2 DEF Orphaned
    <3> HIDE DEF b
    <3>4. k2 = [b EXCEPT !.picked = next]
      BY <2>3 DEF b
    <3>5. /\ k2 \in CacheType /\ k2.dirty = {} /\ k2.closed = k.closed /\ k2.picked = next
          /\ k2.credential = NoKey /\ k2.minted = NoKey /\ k2.snapshot = NoKey /\ k2.resolving = NoMint
          /\ k2.orphan = Orphaned(k)
      BY <2>1, <3>2, <3>3, <3>4 DEF CacheType
    <3> HIDE DEF k2
    <3>6. /\ SetsAside(k, k2) /\ OfChannel(k2)
          /\ OfTeam(k2, w, TRUE) /\ OfTeam(k2, w, "credentials" \notin events)
      BY <3>5 DEF SetsAside, OfChannel, OfTeam, Orphaned
    <3>7. SameState(k3, k2)
      BY <3>5, ReadSame DEF SameState
    <3>8. SameState(k4, k2) /\ k4.mirror = w.mirror /\ (readNow => k4.seen = w.login)
      <4>1. k4 = Routed(k3, w) /\ k3 \in CacheType
        BY <2>3, <3>7 DEF SameState
      <4>2. readNow => k3.seen = w.login
        BY <3>5 DEF Read, CacheType
      <4>3. SameState(k4, k3) /\ k4.mirror = w.mirror /\ k4.seen = k3.seen
        <5> HIDE DEF k3
        <5>1. Routed(k3, w).seen = k3.seen
          BY <4>1 DEF Routed, CacheType
        <5> HIDE DEF k4
        <5> QED BY <4>1, <5>1, RoutedSame
      <4> HIDE DEF k3, k4, readNow
      <4> QED BY <3>7, <4>2, <4>3 DEF SameState
    <3> HIDE DEF k3, k4
    <3>9. Midway(k4, w, events, keyPlan) /\ SetsAside(k, k4)
      BY <2>1, <3>1, <3>5, <3>6, <3>8 DEF Midway, SameState, OfChannel, OfTeam, SetsAside
    <3> QED BY <1>1, <1>4, <3>8, <3>9, KeyedKeeps, FailsKeeps DEF Good, SetsAside
  <2>4. CASE ~moved
    <3>1. k2 = k1 /\ k1.picked # Nobody
      BY <1>4, <2>2, <2>4
    <3> HIDE DEF k2
    <3>2. "setting" \notin events => k1.picked = w.setting
      BY <1>2, <2>1, <2>2, <2>4, <3>1, <1>4 DEF CacheInv, Follows
    <3>3. "config" \notin events \union changed => k1.mirror = w.mirror
      BY <1>2, <3>1 DEF CacheInv, Follows
    <3>4. /\ OfChannel(k1) /\ (k1.snapshot # NoKey => k1.credential # NoKey)
          /\ keyPlan = "team" => OfTeam(k1, w, "credentials" \notin events)
          /\ keyPlan = "team" /\ readNow /\ ~k1.blind => k1.resolving = NoMint
          /\ keyPlan \in {"start", "api"} => k1.resolving = NoMint
          /\ SetsAside(k, k1)
      <4>1. keyPlan = "team" /\ readNow => "credentials" \in k.dirty
        BY <2>4
      <4> HIDE DEF readNow
      <4> QED BY <1>2, <3>1, <4>1 DEF CacheInv, OfChannel, Rests, Follows, OfTeam, TeamRests, SetsAside
    <3>5. /\ SameState(k3, k1) /\ k3.mirror = k1.mirror
          /\ IF readNow THEN k3.seen = w.login ELSE k3.seen = k1.seen
      <4>1. readNow => Read(k1, w).seen = w.login
        BY <1>2 DEF Read, CacheType
      <4> QED BY <1>2, <3>1, <4>1, ReadSame DEF SameState
    <3>6. /\ SameState(k4, k1) /\ ("config" \notin events => k4.mirror = w.mirror)
          /\ IF readNow THEN k4.seen = w.login ELSE k4.seen = k1.seen
      <4>1. k3 \in CacheType
        BY <3>5 DEF SameState
      <4> HIDE DEF k3
      <4>2. Routed(k3, w).seen = k3.seen /\ SameState(Routed(k3, w), k3) /\ Routed(k3, w).mirror = w.mirror
        BY <4>1, RoutedSame DEF Routed, CacheType
      <4>3. CASE reroute
        <5>1. k4 = Routed(k3, w)
          BY <4>3
        <5> HIDE DEF k4, readNow
        <5> QED BY <3>5, <4>2, <5>1 DEF SameState
      <4>4. CASE ~reroute
        <5>1. k4 = k3 /\ "config" \notin changed
          BY <4>4
        <5> HIDE DEF k4, readNow
        <5> QED BY <3>3, <3>5, <5>1
      <4> QED BY <4>3, <4>4
    <3> HIDE DEF k3, k4
    <3>7. Midway(k4, w, events, keyPlan) /\ SetsAside(k, k4)
      <4>1. Midway(k1, w, {"config"} \union events, keyPlan)
        BY <1>2, <3>1, <3>2, <3>4 DEF Midway
      <4> HIDE DEF readNow
      <4>2. keyPlan = "team" /\ ~k1.blind /\ k1.resolving # NoMint => k4.seen = k1.seen
        BY <3>4, <3>6
      <4>3. Midway(k4, w, {"config"} \union events, keyPlan)
        BY <3>6, <4>1, <4>2, SameMidway
      <4> QED BY <3>4, <3>6, <4>3 DEF Midway, SameState, SetsAside
    <3> QED BY <1>1, <1>4, <3>6, <3>7, KeyedKeeps, FailsKeeps DEF Good, SetsAside
  <2> QED BY <2>3, <2>4
<1> QED BY <1>3, <1>4

(* A key that grew old, and the check it asks for. *)
LEMMA OldRests ==
    ASSUME NEW k, NEW w, NEW events, NEW plan, CacheInv(k, w, events, plan), k.snapshot # NoKey
    PROVE  CacheInv(Old(k), w, events, plan) /\ SetsAside(k, Old(k))
<1> DEFINE o == Old(k)
           s == [k.snapshot EXCEPT !.old = TRUE]
           c == [k.credential EXCEPT !.old = TRUE]
           b == k.minted.old \/ k.minted # NoKey
           m == [k.minted EXCEPT !.old = b]
<1>1. k \in CacheType /\ k.snapshot \in KeyType /\ k.credential \in KeyType /\ k.minted \in KeyType
  BY DEF CacheInv, CacheType
<1>2. /\ s \in KeyType /\ s.family = k.snapshot.family /\ s.login = k.snapshot.login /\ s # NoKey
      /\ c \in KeyType /\ c.family = k.credential.family /\ c # NoKey
      /\ b \in BOOLEAN
  BY <1>1 DEF KeyType, NoKey
<1>3. m \in KeyType /\ m.family = k.minted.family /\ m.login = k.minted.login /\ (k.minted = NoKey => m = NoKey)
  <2>1. k.minted = NoKey => b = FALSE
    BY DEF NoKey
  <2> HIDE DEF b
  <2> QED BY <1>1, <1>2, <2>1 DEF KeyType, NoKey
<1>4. o = [k EXCEPT !.snapshot = s, !.credential = c, !.minted = m]
  BY <1>1 DEF Old, CacheType
<1> HIDE DEF s, c, m, o
<1>5. /\ o \in CacheType /\ o.picked = k.picked /\ o.failed = k.failed /\ o.dirty = k.dirty
      /\ o.closed = k.closed /\ o.credential = c /\ o.snapshot = s /\ o.minted = m
      /\ o.resolving = k.resolving /\ o.orphan = k.orphan /\ o.mirror = k.mirror
      /\ o.seen = k.seen /\ o.bears = k.bears /\ o.blind = k.blind
  BY <1>1, <1>2, <1>3, <1>4 DEF CacheType
<1>6. k.credential # NoKey
  BY DEF CacheInv, Rests
<1> QED BY <1>2, <1>3, <1>5, <1>6 DEF CacheInv, OfChannel, Rests, Follows, OfTeam, TeamRests, SetsAside, o

LEMMA ExpiredKeeps ==
    ASSUME NEW k, CacheInv(k, keyWorld, keyEvents, keyPlan), keyWorld \in WorldType, keyPlan \in KeyPlans
    PROVE  \/ Expired(k) = k
           \/ Good(k, Expired(k), keyWorld, keyEvents, keyPlan)
<1> SUFFICES ASSUME ~(k.snapshot = NoKey \/ ~k.snapshot.old \/ k.checked)
             PROVE  Good(k, Expired(k), keyWorld, keyEvents, keyPlan)
  BY DEF Expired
<1> DEFINE d == k.dirty \union {"config"} \union IF keyPlan = "team" THEN {"credentials"} ELSE {}
           f == k.force \/ keyPlan = "team"
           m == [k EXCEPT !.checked = TRUE, !.force = f, !.dirty = d]
<1>1. k \in CacheType /\ ~k.closed /\ k.dirty \subseteq d
  BY DEF CacheInv, Rests, CacheType
<1>2. Expired(k) = Checked(m, keyWorld)
  BY <1>1 DEF Expired, CacheType
<1>3. d \in SUBSET Files /\ f \in BOOLEAN
  BY <1>1 DEF CacheType, Files
<1> HIDE DEF d, f
<1>4. /\ m \in CacheType /\ m.picked = k.picked /\ m.failed = k.failed /\ m.dirty = d
      /\ m.closed = k.closed /\ m.credential = k.credential /\ m.snapshot = k.snapshot /\ m.minted = k.minted
      /\ m.resolving = k.resolving /\ m.orphan = k.orphan /\ m.mirror = k.mirror
      /\ m.seen = k.seen /\ m.bears = k.bears /\ m.blind = k.blind
  BY <1>1, <1>3 DEF CacheType
<1> HIDE DEF m
<1>5. CacheInv(m, keyWorld, keyEvents, keyPlan) /\ ~m.closed
  BY <1>1, <1>4 DEF CacheInv, OfChannel, Rests, Follows, OfTeam, TeamRests
<1>6. Good(m, Checked(m, keyWorld), keyWorld, keyEvents, keyPlan)
  BY <1>5, CheckedKeeps
<1> QED BY <1>2, <1>4, <1>6 DEF Good, SetsAside

-----------------------------------------------------------------------------
(* Those who wait.                                                         *)

LEMMA WokenWait ==
    ASSUME NEW callers, NEW k, NEW x, CallersOK(callers, k), SetsAside(k, x)
    PROVE  CallersOK(Woken(Moved(callers, k, x), x), x)
<1> DEFINE m == Moved(callers, k, x)
           v == Woken(m, x)
<1>1. ASSUME NEW c \in KeyClients
      PROVE  /\ m[c] \in {"idle", "waiting", "promise", "orphan"}
             /\ m[c] = "promise" => x.resolving # NoMint
             /\ m[c] = "orphan" => x.orphan
  BY DEF Moved, CallersOK, SetsAside
<1> HIDE DEF m
<1>2. ASSUME NEW c \in KeyClients
      PROVE  /\ v[c] \in {"idle", "promise", "orphan"}
             /\ v[c] = "promise" => x.resolving # NoMint
             /\ v[c] = "orphan" => x.orphan
  BY <1>1 DEF Woken
<1>3. v \in [KeyClients -> {"idle", "waiting", "promise", "orphan"}]
  <2>1. v = [c \in KeyClients |-> v[c]]
    BY DEF Woken
  <2> HIDE DEF v
  <2> QED BY <1>2, <2>1
<1> HIDE DEF v
<1>4. CallersOK(v, x)
  BY <1>2, <1>3 DEF CallersOK
<1> QED BY <1>4 DEF v, m

LEMMA MovedWait ==
    ASSUME NEW callers, NEW k, NEW x, CallersOK(callers, k), SetsAside(k, x), x.dirty # {}
    PROVE  CallersOK(Moved(callers, k, x), x)
<1> DEFINE m == Moved(callers, k, x)
<1>1. ASSUME NEW c \in KeyClients
      PROVE  /\ m[c] \in {"idle", "waiting", "promise", "orphan"}
             /\ m[c] = "promise" => x.resolving # NoMint
             /\ m[c] = "orphan" => x.orphan
  BY DEF Moved, CallersOK, SetsAside
<1>2. m = [c \in KeyClients |-> m[c]]
  BY DEF Moved
<1> HIDE DEF m
<1>3. CallersOK(m, x)
  BY <1>1, <1>2 DEF CallersOK
<1> QED BY <1>3 DEF m

LEMMA StillWait ==
    ASSUME NEW callers, NEW k, CallersOK(callers, k)
    PROVE  Moved(callers, k, k) = callers
BY DEF Moved, CallersOK

(* Those whose promise is over go on, and so do those who waited. *)
LEMMA EndsWait ==
    ASSUME NEW callers, NEW k, NEW x, CallersOK(callers, k), NEW stage \in {"promise", "orphan"},
           stage # "promise" => x.resolving = k.resolving,
           stage # "orphan" => x.orphan = k.orphan
    PROVE  CallersOK(Ends(callers, stage, x), x)
<1> DEFINE v == Ends(callers, stage, x)
<1>1. ASSUME NEW c \in KeyClients
      PROVE  /\ v[c] \in {"idle", "promise", "orphan"}
             /\ v[c] = "promise" => x.resolving # NoMint
             /\ v[c] = "orphan" => x.orphan
  BY DEF Ends, Woken, CallersOK
<1>2. v = [c \in KeyClients |-> v[c]]
  BY DEF Ends
<1> HIDE DEF v
<1>3. CallersOK(v, x)
  BY <1>1, <1>2 DEF CallersOK
<1> QED BY <1>3 DEF v

-----------------------------------------------------------------------------
(* The steps.                                                              *)

LEMMA WriteFollows ==
    ASSUME KeyInv, NEW w \in WorldType, NEW f \in Files, Writes(w, f),
           f # "setting" => w.setting = keyWorld.setting,
           f # "credentials" => w.login = keyWorld.login,
           f # "config" => w.mirror = keyWorld.mirror
    PROVE  KeyInv'
<1>1. /\ keyWorld' = w /\ keyEvents' = keyEvents \union {f} /\ keyWrites' = keyWrites + 1 /\ keyWrites < MaxWrites
      /\ UNCHANGED <<keyPlan, cache, keyCaller>>
  BY DEF Writes
<1>2. CacheInv(cache, w, keyEvents \union {f}, keyPlan)
  BY DEF KeyInv, CacheInv, Follows, OfTeam, TeamRests
<1>3. keyWrites' \in 0..MaxWrites
  BY <1>1, KeyAssumption DEF KeyInv, KeyAssumption
<1> QED BY <1>1, <1>2, <1>3 DEF KeyInv

LEMMA WorldFollows ==
    ASSUME KeyInv,
           \/ \E f \in Families \union {Nobody} : Selects(f)
           \/ \E l \in Logins \union {Nobody} : LogsIn(l)
           \/ \E l \in Logins : Mirrors(l)
           \/ Reroutes
    PROVE  KeyInv'
<1>1. keyWorld \in WorldType
  BY DEF KeyInv
<1>2. CASE \E f \in Families \union {Nobody} : Selects(f)
  <2>1. PICK f \in Families \union {Nobody} : Selects(f)
    BY <1>2
  <2>2. PICK w : w = [keyWorld EXCEPT !.setting = f]
    OBVIOUS
  <2>3. w \in WorldType /\ w.login = keyWorld.login /\ w.mirror = keyWorld.mirror
    BY <1>1, <2>2 DEF WorldType
  <2>4. Writes(w, "setting")
    BY <2>1, <2>2 DEF Selects
  <2> QED BY <2>3, <2>4, WriteFollows DEF Files
<1>3. CASE \E l \in Logins \union {Nobody} : LogsIn(l)
  <2>1. PICK l \in Logins \union {Nobody} : LogsIn(l)
    BY <1>3
  <2>2. PICK w : w = [keyWorld EXCEPT !.login = l]
    OBVIOUS
  <2>3. w \in WorldType /\ w.setting = keyWorld.setting /\ w.mirror = keyWorld.mirror
    BY <1>1, <2>2 DEF WorldType
  <2>4. Writes(w, "credentials")
    BY <2>1, <2>2 DEF LogsIn
  <2> QED BY <2>3, <2>4, WriteFollows DEF Files
<1>4. CASE \E l \in Logins : Mirrors(l)
  <2>1. PICK l \in Logins : Mirrors(l)
    BY <1>4
  <2>2. PICK w : w = [keyWorld EXCEPT !.mirror = l]
    OBVIOUS
  <2>3. w \in WorldType /\ w.setting = keyWorld.setting /\ w.login = keyWorld.login
    BY <1>1, <2>2 DEF WorldType
  <2>4. Writes(w, "config")
    BY <2>1, <2>2 DEF Mirrors
  <2> QED BY <2>3, <2>4, WriteFollows DEF Files
<1>5. CASE Reroutes
  <2>1. PICK w : w = [keyWorld EXCEPT !.route = ~@]
    OBVIOUS
  <2>2. w \in WorldType /\ w.setting = keyWorld.setting /\ w.login = keyWorld.login /\ w.mirror = keyWorld.mirror
    BY <1>1, <2>1 DEF WorldType
  <2>3. Writes(w, "config")
    BY <1>5, <2>1 DEF Reroutes
  <2> QED BY <2>2, <2>3, WriteFollows DEF Files
<1> QED BY <1>2, <1>3, <1>4, <1>5

(* An event that names its file. *)
LEMMA NamedFollows ==
    ASSUME KeyInv, NEW f \in Files, Event(f), cache' = Dirtied(cache, f) PROVE KeyInv'
<1> DEFINE events == keyEvents \ {f}
           k == Noticed(cache, f, keyWorld)
           d == k.dirty \union {f}
           x == [k EXCEPT !.dirty = d]
<1>1. cache \in CacheType /\ keyWorld \in WorldType /\ CacheInv(cache, keyWorld, keyEvents, keyPlan)
      /\ NoKey \in KeyType
  BY DEF KeyInv, CacheInv, NoKey, KeyType
<1>2. CASE Ignored(cache, f)
  <2>1. CacheInv(cache, keyWorld, events, keyPlan)
    BY <1>2 DEF KeyInv, CacheInv, Rests, Follows, OfTeam, TeamRests, Ignored
  <2>2. /\ cache' = cache /\ keyCaller' = Moved(keyCaller, cache, cache) /\ keyEvents' = events
        /\ UNCHANGED <<keyPlan, keyWorld, keyWrites>>
    BY <1>2 DEF Event, Dirtied
  <2> QED BY <2>1, <2>2, StillWait DEF KeyInv
<1>3. CASE ~Ignored(cache, f)
  <2>1. /\ k \in CacheType /\ k.picked = cache.picked /\ k.closed = cache.closed /\ k.dirty = cache.dirty
        /\ k.failed = cache.failed /\ k.mirror = cache.mirror
        /\ SetsAside(cache, k) /\ OfChannel(k)
        /\ k.snapshot = NoKey \/ (k.snapshot = cache.snapshot /\ k.credential = cache.credential)
        /\ keyPlan = "team" => OfTeam(k, keyWorld, "credentials" \notin events)
        /\ keyPlan = "team" => TeamRests(k, keyWorld, "credentials" \notin events)
        /\ keyPlan = "team" /\ f = "credentials" /\ k.picked # Nobody => k.resolving = NoMint
        /\ k.resolving = cache.resolving \/ k.resolving = NoMint
    <3>1. CASE f = "credentials" /\ keyPlan = "team" /\ cache.picked # Nobody
      <4> DEFINE b == TeamBumped(cache)
      <4>1. k = b
        BY <3>1 DEF Noticed
      <4>2. /\ b \in CacheType
            /\ b.dirty = cache.dirty /\ b.picked = cache.picked /\ b.mirror = cache.mirror
            /\ b.failed = cache.failed /\ b.closed = cache.closed
            /\ b.credential = NoKey /\ b.minted = NoKey /\ b.snapshot = NoKey /\ b.resolving = NoMint
            /\ b.orphan = Orphaned(cache)
        BY <1>1, TeamBumpedKeeps
      <4> HIDE DEF b, k
      <4> QED BY <4>1, <4>2 DEF OfChannel, OfTeam, TeamRests, SetsAside, Orphaned
    <3>2. CASE ~(f = "credentials" /\ keyPlan = "team" /\ cache.picked # Nobody) /\ k = cache
      <4> HIDE DEF k
      <4> QED BY <1>1, <3>2 DEF CacheInv, Follows, OfTeam, TeamRests, SetsAside
    <3>3. CASE f = "setting" /\ k = [cache EXCEPT !.snapshot = NoKey, !.credential = NoKey]
      <4> DEFINE b == [cache EXCEPT !.snapshot = NoKey, !.credential = NoKey]
      <4>1. /\ b \in CacheType /\ b.resolving = cache.resolving /\ b.orphan = cache.orphan
            /\ b.dirty = cache.dirty /\ b.picked = cache.picked /\ b.mirror = cache.mirror
            /\ b.failed = cache.failed /\ b.closed = cache.closed /\ b.minted = cache.minted
            /\ b.credential = NoKey /\ b.snapshot = NoKey
            /\ b.seen = cache.seen /\ b.bears = cache.bears /\ b.blind = cache.blind
        BY <1>1 DEF CacheType
      <4> HIDE DEF b, k
      <4>2. k = b
        BY <3>3 DEF b
      <4>3. keyPlan = "team" => /\ OfTeam(b, keyWorld, "credentials" \notin events)
                                /\ TeamRests(b, keyWorld, "credentials" \notin events)
        BY <1>1, <3>3, <4>1 DEF CacheInv, Follows, OfTeam, TeamRests
      <4>4. OfChannel(b)
        BY <1>1, <4>1 DEF CacheInv, OfChannel
      <4> QED BY <3>3, <4>1, <4>2, <4>3, <4>4 DEF SetsAside
    <3>4. CASE f = "setting" /\ k = Bumped(cache)
      <4> DEFINE b == Bumped(cache)
      <4>2. /\ b \in CacheType
            /\ b.dirty = cache.dirty /\ b.picked = cache.picked /\ b.mirror = cache.mirror
            /\ b.failed = cache.failed /\ b.closed = cache.closed
            /\ b.credential = NoKey /\ b.minted = NoKey /\ b.snapshot = NoKey /\ b.resolving = NoMint
            /\ b.orphan = Orphaned(cache)
        BY <1>1, BumpedKeeps
      <4> HIDE DEF b, k
      <4>1. k = b
        BY <3>4 DEF b
      <4> QED BY <4>1, <4>2 DEF OfChannel, OfTeam, TeamRests, SetsAside, Orphaned
    <3> QED BY <3>1, <3>2, <3>3, <3>4 DEF Noticed
  <2>2. cache' = x /\ keyCaller' = Moved(keyCaller, cache, x) /\ keyEvents' = events
        /\ UNCHANGED <<keyPlan, keyWorld, keyWrites>>
    <3>1. k.dirty = cache.dirty /\ k \in CacheType
      BY <2>1
    <3>2. cache' = x
      BY <1>3, <3>1 DEF Dirtied
    <3> HIDE DEF x
    <3> QED BY <3>2 DEF Event
  <2>3. /\ d \in SUBSET Files /\ f \in d /\ cache.dirty \subseteq d
        /\ "credentials" \in d => f = "credentials" \/ "credentials" \in k.dirty
    BY <2>1 DEF CacheType
  <2> HIDE DEF k, d
  <2>4. /\ x \in CacheType /\ x.picked = k.picked /\ x.failed = k.failed /\ x.dirty = d
        /\ x.closed = k.closed /\ x.credential = k.credential /\ x.snapshot = k.snapshot /\ x.minted = k.minted
        /\ x.resolving = k.resolving /\ x.orphan = k.orphan /\ x.mirror = k.mirror
        /\ x.seen = k.seen /\ x.bears = k.bears /\ x.blind = k.blind
    BY <2>1, <2>3 DEF CacheType
  <2> HIDE DEF x
  <2>5. OfChannel(x) /\ Rests(x)
    BY <1>1, <2>1, <2>4 DEF CacheInv, OfChannel, Rests
  <2>6. Follows(x, keyWorld, events, keyPlan)
    <3>1. "setting" \notin events \union d => "setting" \notin keyEvents \union cache.dirty
      BY <2>3
    <3>2. "config" \notin events \union d => "config" \notin keyEvents \union cache.dirty
      BY <2>3
    <3>3. keyPlan = "team" => OfTeam(x, keyWorld, "credentials" \notin events)
      BY <2>1, <2>4 DEF OfTeam
    <3>4. keyPlan = "team" => TeamRests(x, keyWorld, "credentials" \notin events)
      BY <2>1, <2>3, <2>4 DEF TeamRests
    <3> HIDE DEF events
    <3> QED BY <1>1, <2>1, <2>4, <3>1, <3>2, <3>3, <3>4 DEF CacheInv, Follows
  <2>7. CallersOK(keyCaller', x)
    <3>1. SetsAside(cache, x) /\ x.dirty # {}
      BY <2>1, <2>3, <2>4 DEF SetsAside
    <3> QED BY <2>2, <3>1, MovedWait DEF KeyInv
  <2>8. keyEvents' \subseteq Files
    BY <2>2 DEF KeyInv
  <2> QED BY <2>2, <2>4, <2>5, <2>6, <2>7, <2>8 DEF KeyInv, CacheInv
<1> QED BY <1>2, <1>3

(* An event without a name: every file is dirty, and nothing is dropped. *)
LEMMA NamelessFollows ==
    ASSUME KeyInv, NEW f \in Files, Event(f), cache' = DirtiedBlindly(cache) PROVE KeyInv'
<1> DEFINE events == keyEvents \ {f}
           b == cache.blind \/ cache.resolving # NoMint
           x == [cache EXCEPT !.dirty = Files, !.blind = b]
<1>1. cache \in CacheType /\ CacheInv(cache, keyWorld, keyEvents, keyPlan)
  BY DEF KeyInv, CacheInv
<1>2. keyCaller' = Moved(keyCaller, cache, cache') /\ keyEvents' = events
      /\ UNCHANGED <<keyPlan, keyWorld, keyWrites>> /\ keyEvents' \subseteq Files
  BY DEF Event, KeyInv, Dirtied
<1>3. CASE cache.closed
  <2>1. CacheInv(cache, keyWorld, events, keyPlan)
    BY <1>1, <1>3 DEF CacheInv, Rests, Follows, OfTeam, TeamRests
  <2>2. cache' = cache
    BY <1>3 DEF DirtiedBlindly
  <2> QED BY <1>2, <2>1, <2>2, StillWait DEF KeyInv
<1>4. CASE ~cache.closed
  <2>1. cache' = x
    BY <1>1, <1>4 DEF DirtiedBlindly, CacheType
  <2>2. b \in BOOLEAN /\ (~b => ~cache.blind /\ cache.resolving = NoMint)
    BY <1>1 DEF CacheType
  <2> HIDE DEF b
  <2>3. /\ x \in CacheType /\ x.picked = cache.picked /\ x.failed = cache.failed /\ x.dirty = Files
        /\ x.closed = cache.closed /\ x.credential = cache.credential /\ x.snapshot = cache.snapshot
        /\ x.minted = cache.minted
        /\ x.resolving = cache.resolving /\ x.orphan = cache.orphan /\ x.mirror = cache.mirror
        /\ x.seen = cache.seen /\ x.bears = cache.bears /\ x.blind = b
    BY <1>1, <2>2 DEF CacheType
  <2> HIDE DEF x
  <2>4. CacheInv(x, keyWorld, events, keyPlan)
    BY <1>1, <2>2, <2>3 DEF CacheInv, OfChannel, Rests, Follows, OfTeam, TeamRests, Files
  <2>5. SetsAside(cache, x) /\ x.dirty # {}
    BY <2>3 DEF SetsAside, Files
  <2>6. CallersOK(keyCaller', x)
    BY <1>2, <2>1, <2>5, MovedWait DEF KeyInv
  <2> QED BY <1>2, <2>1, <2>4, <2>6 DEF KeyInv
<1> QED BY <1>3, <1>4

LEMMA EventFollows ==
    ASSUME KeyInv, NEW f \in Files, Event(f) PROVE KeyInv'
<1>1. cache' = Dirtied(cache, f) \/ cache' = DirtiedBlindly(cache)
  BY DEF Event
<1> QED BY <1>1, NamedFollows, NamelessFollows

(* A check, by the timer or by a caller, and the callers it wakes. *)
LEMMA GoodFollows ==
    ASSUME KeyInv, NEW x, Good(cache, x, keyWorld, keyEvents, keyPlan), cache' = x,
           UNCHANGED <<keyPlan, keyWorld, keyEvents>>, keyWrites' \in 0..MaxWrites,
           CallersOK(keyCaller', x)
    PROVE  KeyInv'
BY DEF KeyInv, Good

LEMMA CheckFollows ==
    ASSUME KeyInv, Check \/ Expire PROVE KeyInv'
<1>1. CacheInv(cache, keyWorld, keyEvents, keyPlan) /\ keyWorld \in WorldType /\ keyPlan \in KeyPlans
      /\ CallersOK(keyCaller, cache)
  BY DEF KeyInv
<1>2. CASE Check
  <2> DEFINE x == Checked(cache, keyWorld)
  <2>1. cache' = x /\ keyCaller' = Woken(Moved(keyCaller, cache, x), x) /\ ~cache.closed
        /\ UNCHANGED <<keyPlan, keyWorld, keyEvents, keyWrites>>
    BY <1>2 DEF Check, CheckTo
  <2>2. Good(cache, x, keyWorld, keyEvents, keyPlan)
    BY <1>1, <2>1, CheckedKeeps
  <2> HIDE DEF x
  <2>3. CallersOK(keyCaller', x)
    BY <1>1, <2>1, <2>2, WokenWait DEF Good
  <2> QED BY <2>1, <2>2, <2>3, GoodFollows DEF KeyInv
<1>3. CASE Expire
  <2> DEFINE o == Old(cache)
             x == Expired(o)
  <2>1. /\ cache' = x /\ keyCaller' = Woken(Moved(keyCaller, cache, x), x) /\ cache.snapshot # NoKey
        /\ keyWrites' = keyWrites + 1 /\ keyWrites < MaxWrites
        /\ UNCHANGED <<keyPlan, keyWorld, keyEvents>>
    BY <1>3 DEF Expire, CheckTo
  <2>2. CacheInv(o, keyWorld, keyEvents, keyPlan) /\ SetsAside(cache, o)
        /\ o.resolving = cache.resolving /\ o.orphan = cache.orphan
    <3>1. o.resolving = cache.resolving /\ o.orphan = cache.orphan
      BY <1>1 DEF Old, CacheInv, CacheType
    <3> QED BY <1>1, <2>1, <3>1, OldRests
  <2> HIDE DEF o
  <2>3. x = o \/ Good(o, x, keyWorld, keyEvents, keyPlan)
    BY <1>1, <2>2, ExpiredKeeps
  <2> HIDE DEF x
  <2>4. CacheInv(x, keyWorld, keyEvents, keyPlan) /\ SetsAside(cache, x)
    BY <2>2, <2>3 DEF Good, SetsAside
  <2>5. CallersOK(keyCaller', x)
    BY <1>1, <2>1, <2>4, WokenWait
  <2>6. keyWrites' \in 0..MaxWrites
    BY <2>1, KeyAssumption DEF KeyInv, KeyAssumption
  <2> QED BY <2>1, <2>4, <2>5, <2>6 DEF KeyInv
<1> QED BY <1>2, <1>3

(* One more caller waits for what there is to wait for. *)
LEMMA OneMore ==
    ASSUME NEW callers, NEW x, CallersOK(callers, x), NEW c \in KeyClients, NEW v,
           v \in {"idle", "waiting", "promise"},
           v = "waiting" => x.dirty # {}, v = "promise" => x.resolving # NoMint
    PROVE  CallersOK([callers EXCEPT ![c] = v], x)
BY DEF CallersOK

LEMMA GetFollows ==
    ASSUME KeyInv, NEW c \in KeyClients, Get(c) \/ Refreshed(c) PROVE KeyInv'
<1>1. CacheInv(cache, keyWorld, keyEvents, keyPlan) /\ keyWorld \in WorldType /\ keyPlan \in KeyPlans
      /\ CallersOK(keyCaller, cache)
  BY DEF KeyInv
<1>2. CASE Get(c)
  <2> DEFINE x == IF cache.closed THEN cache ELSE IF ~cache.begun THEN Checked(cache, keyWorld) ELSE Expired(cache)
             others == IF x = cache THEN keyCaller ELSE Woken(Moved(keyCaller, cache, x), x)
             waits == IF (x.snapshot = NoKey \/ x.failed) /\ x.dirty # {} THEN "waiting"
                      ELSE IF ~x.failed /\ x.resolving # NoMint THEN "promise" ELSE "idle"
  <2>1. cache' = x /\ keyCaller' = [others EXCEPT ![c] = waits]
        /\ UNCHANGED <<keyPlan, keyWorld, keyEvents, keyWrites>>
    BY <1>2 DEF Get
  <2>2. x = cache \/ Good(cache, x, keyWorld, keyEvents, keyPlan)
    BY <1>1, CheckedKeeps, ExpiredKeeps
  <2> HIDE DEF x
  <2>3. CacheInv(x, keyWorld, keyEvents, keyPlan)
    BY <1>1, <2>2 DEF Good
  <2>4. CallersOK(others, x)
    BY <1>1, <2>2, WokenWait DEF Good
  <2>5. /\ waits \in {"idle", "waiting", "promise"} /\ (waits = "waiting" => x.dirty # {})
        /\ waits = "promise" => x.resolving # NoMint
    OBVIOUS
  <2> HIDE DEF others, waits
  <2>6. CallersOK(keyCaller', x)
    BY <2>1, <2>4, <2>5, OneMore
  <2> QED BY <2>1, <2>3, <2>6 DEF KeyInv
<1>3. CASE Refreshed(c)
  <2> DEFINE m == [cache EXCEPT !.dirty = Files]
             x == Checked(m, keyWorld)
             others == Woken(Moved(keyCaller, cache, x), x)
             waits == IF ~x.failed /\ x.resolving # NoMint THEN "promise" ELSE "idle"
  <2>1. cache' = x /\ keyCaller' = [others EXCEPT ![c] = waits] /\ ~cache.closed
        /\ cache.resolving = NoMint
        /\ UNCHANGED <<keyPlan, keyWorld, keyEvents, keyWrites>>
    BY <1>3 DEF Refreshed
  <2>2. /\ m \in CacheType /\ m.picked = cache.picked /\ m.failed = cache.failed /\ m.dirty = Files
        /\ m.closed = cache.closed /\ m.credential = cache.credential /\ m.snapshot = cache.snapshot
        /\ m.minted = cache.minted
        /\ m.resolving = cache.resolving /\ m.orphan = cache.orphan /\ m.mirror = cache.mirror
        /\ m.seen = cache.seen /\ m.bears = cache.bears /\ m.blind = cache.blind
    BY <1>1 DEF CacheType, CacheInv
  <2> HIDE DEF m
  <2>3. CacheInv(m, keyWorld, keyEvents, keyPlan) /\ ~m.closed
    BY <1>1, <2>1, <2>2 DEF CacheInv, OfChannel, Rests, Follows, OfTeam, TeamRests, CacheType
  <2>4. Good(m, x, keyWorld, keyEvents, keyPlan)
    BY <1>1, <2>3, CheckedKeeps
  <2> HIDE DEF x
  <2>5. CacheInv(x, keyWorld, keyEvents, keyPlan) /\ SetsAside(cache, x)
    BY <2>2, <2>4 DEF Good, SetsAside
  <2>6. CallersOK(others, x)
    BY <1>1, <2>5, WokenWait
  <2>7. waits \in {"idle", "promise"} /\ (waits = "promise" => x.resolving # NoMint)
    OBVIOUS
  <2> HIDE DEF others, waits
  <2>8. CallersOK(keyCaller', x)
    BY <2>1, <2>6, <2>7, OneMore
  <2> QED BY <2>1, <2>5, <2>8 DEF KeyInv
<1> QED BY <1>2, <1>3

LEMMA PromiseFollows ==
    ASSUME KeyInv, Resolve \/ ResolveFails \/ Late PROVE KeyInv'
<1>1. CacheInv(cache, keyWorld, keyEvents, keyPlan) /\ cache \in CacheType /\ CallersOK(keyCaller, cache)
      /\ NoKey \in KeyType /\ NoMint \in MintType
  BY DEF KeyInv, CacheInv, NoKey, NoMint, KeyType, MintType
<1>2. CASE Resolve /\ cache.route = "ok" /\ cache.picked # Nobody
  <2> DEFINE key == KeyOf(cache.resolving.family, cache.resolving.login)
             tells == IF keyPlan = "team" THEN cache.seen ELSE key.login
             x == Stored([cache EXCEPT !.resolving = NoMint, !.credential = key, !.minted = key,
                                       !.bears = tells], key)
  <2>1. cache' = x /\ keyCaller' = Ends(keyCaller, "promise", x) /\ cache.resolving # NoMint
        /\ UNCHANGED <<keyPlan, keyWorld, keyEvents, keyWrites>>
    BY <1>2 DEF Resolve
  <2>2. key \in KeyType /\ key.family = cache.resolving.family /\ key.login = cache.resolving.login
    BY <1>1 DEF KeyOf, KeyType, MintType, CacheType
  <2>0. tells \in Logins \union {Nobody} /\ (keyPlan = "team" => tells = cache.seen)
    BY <1>1, <2>2 DEF KeyType, CacheType
  <2> HIDE DEF key, tells
  <2>3. /\ x \in CacheType /\ x.picked = cache.picked /\ x.failed = FALSE /\ x.dirty = cache.dirty
        /\ x.closed = cache.closed /\ x.credential = key /\ x.snapshot = key /\ x.minted = key
        /\ x.resolving = NoMint /\ x.orphan = cache.orphan /\ x.mirror = cache.mirror
        /\ x.seen = cache.seen /\ x.bears = tells /\ x.blind = cache.blind
    BY <1>1, <2>0, <2>2 DEF Stored, CacheType
  <2> HIDE DEF x
  <2>4. CacheInv(x, keyWorld, keyEvents, keyPlan)
    BY <1>1, <1>2, <2>0, <2>1, <2>2, <2>3 DEF CacheInv, OfChannel, Rests, Follows, OfTeam, TeamRests
  <2>5. CallersOK(keyCaller', x)
    BY <1>1, <2>1, <2>3, EndsWait
  <2> QED BY <2>1, <2>4, <2>5 DEF KeyInv
<1>3. CASE (Resolve /\ ~(cache.route = "ok" /\ cache.picked # Nobody)) \/ ResolveFails
  <2> PICK x : /\ x = cache' /\ keyCaller' = Ends(keyCaller, "promise", x) /\ cache.resolving # NoMint
               /\ UNCHANGED <<keyPlan, keyWorld, keyEvents, keyWrites>>
    BY <1>3 DEF Resolve, ResolveFails
  <2>1. /\ x \in CacheType /\ x.picked = cache.picked /\ x.failed = TRUE /\ x.dirty = cache.dirty
        /\ x.closed = cache.closed /\ x.credential = NoKey /\ x.snapshot = NoKey /\ x.minted = NoKey
        /\ x.resolving = NoMint /\ x.orphan = cache.orphan /\ x.mirror = cache.mirror
        /\ x.seen = cache.seen /\ x.blind = cache.blind
    <3>1. CASE Resolve /\ ~(cache.route = "ok" /\ cache.picked # Nobody)
      <4> DEFINE key == KeyOf(cache.resolving.family, cache.resolving.login)
                 tells == IF keyPlan = "team" THEN cache.seen ELSE key.login
                 k == [cache EXCEPT !.resolving = NoMint, !.credential = key, !.minted = key,
                                    !.bears = tells]
      <4>1. x = [Drops(k) EXCEPT !.minted = NoKey]
        BY <3>1 DEF Resolve
      <4>2. key \in KeyType /\ tells \in Logins \union {Nobody}
        BY <1>1 DEF KeyOf, KeyType, MintType, CacheType
      <4> HIDE DEF key, tells
      <4>3. /\ k \in CacheType /\ k.picked = cache.picked /\ k.dirty = cache.dirty
            /\ k.closed = cache.closed /\ k.resolving = NoMint /\ k.orphan = cache.orphan /\ k.mirror = cache.mirror
            /\ k.seen = cache.seen /\ k.blind = cache.blind
        BY <1>1, <4>2 DEF CacheType
      <4> HIDE DEF k
      <4>4. /\ Drops(k) \in CacheType /\ Drops(k).picked = k.picked /\ Drops(k).failed = TRUE
            /\ Drops(k).dirty = k.dirty /\ Drops(k).closed = k.closed /\ Drops(k).credential = NoKey
            /\ Drops(k).snapshot = NoKey /\ Drops(k).resolving = k.resolving
            /\ Drops(k).orphan = k.orphan /\ Drops(k).mirror = k.mirror
            /\ Drops(k).seen = k.seen /\ Drops(k).blind = k.blind
        BY <1>1, <4>3 DEF Drops, CacheType
      <4> QED BY <1>1, <4>1, <4>3, <4>4 DEF CacheType
    <3>2. CASE ResolveFails
      BY <1>1, <3>2 DEF ResolveFails, Drops, CacheType
    <3> QED BY <1>3, <3>1, <3>2
  <2>2. CacheInv(x, keyWorld, keyEvents, keyPlan)
    BY <1>1, <2>1 DEF CacheInv, OfChannel, Rests, Follows, OfTeam, TeamRests
  <2>3. CallersOK(keyCaller', x)
    BY <1>1, <2>1, EndsWait
  <2> QED BY <2>2, <2>3 DEF KeyInv
<1>4. CASE Late
  <2> DEFINE x == [cache EXCEPT !.orphan = FALSE]
  <2>1. cache' = x /\ keyCaller' = Ends(keyCaller, "orphan", cache)
        /\ UNCHANGED <<keyPlan, keyWorld, keyEvents, keyWrites>>
    BY <1>4 DEF Late
  <2>2. /\ x \in CacheType /\ x.picked = cache.picked /\ x.failed = cache.failed /\ x.dirty = cache.dirty
        /\ x.closed = cache.closed /\ x.credential = cache.credential /\ x.snapshot = cache.snapshot
        /\ x.minted = cache.minted /\ x.resolving = cache.resolving /\ x.mirror = cache.mirror
        /\ x.seen = cache.seen /\ x.bears = cache.bears /\ x.blind = cache.blind
    BY <1>1 DEF CacheType
  <2>3. CacheInv(x, keyWorld, keyEvents, keyPlan)
    <3> HIDE DEF x
    <3> QED BY <1>1, <2>2 DEF CacheInv, OfChannel, Rests, Follows, OfTeam, TeamRests
  <2>4. Ends(keyCaller, "orphan", cache) = Ends(keyCaller, "orphan", x)
    BY <2>2 DEF Ends, Woken
  <2> HIDE DEF x
  <2>5. CallersOK(keyCaller', x)
    BY <1>1, <2>1, <2>2, <2>4, EndsWait
  <2> QED BY <2>1, <2>3, <2>5 DEF KeyInv
<1> QED BY <1>2, <1>3, <1>4

LEMMA StopFollows ==
    ASSUME KeyInv, Stop PROVE KeyInv'
<1>1. CacheInv(cache, keyWorld, keyEvents, keyPlan) /\ cache \in CacheType /\ CallersOK(keyCaller, cache)
  BY DEF KeyInv, CacheInv
<1> DEFINE x == [Fresh0 EXCEPT !.dirty = {}, !.failed = TRUE, !.closed = TRUE,
                               !.begun = cache.begun, !.orphan = Orphaned(cache)]
<1>2. cache' = x /\ keyCaller' = Woken(Moved(keyCaller, cache, x), x)
      /\ UNCHANGED <<keyPlan, keyWorld, keyEvents, keyWrites>>
  BY DEF Stop
<1>3. /\ x \in CacheType /\ x.picked = Nobody /\ x.failed = TRUE /\ x.dirty = {}
      /\ x.credential = NoKey /\ x.snapshot = NoKey /\ x.minted = NoKey
      /\ x.resolving = NoMint /\ x.orphan = Orphaned(cache)
  <2>1. Orphaned(cache) \in BOOLEAN /\ cache.begun \in BOOLEAN
    BY <1>1 DEF Orphaned, CacheType
  <2>2. NoKey \in KeyType /\ NoMint \in MintType
    BY DEF NoKey, NoMint, KeyType, MintType
  <2> QED BY <2>1, <2>2 DEF Fresh0, CacheType
<1> HIDE DEF x
<1>4. CacheInv(x, keyWorld, keyEvents, keyPlan) /\ SetsAside(cache, x)
  BY <1>3 DEF CacheInv, OfChannel, Rests, Follows, OfTeam, TeamRests, SetsAside, Orphaned
<1>5. CallersOK(keyCaller', x)
  BY <1>1, <1>2, <1>4, WokenWait
<1> QED BY <1>2, <1>4, <1>5 DEF KeyInv

LEMMA KeyInvInit == KeyInit => KeyInv
<1> SUFFICES ASSUME KeyInit PROVE KeyInv
  OBVIOUS
<1>1. /\ Fresh0 \in CacheType /\ Fresh0.picked = Nobody /\ Fresh0.dirty = Files
      /\ Fresh0.credential = NoKey /\ Fresh0.snapshot = NoKey /\ Fresh0.minted = NoKey
      /\ Fresh0.resolving = NoMint
  <2>1. NoKey \in KeyType /\ NoMint \in MintType
    BY DEF NoKey, NoMint, KeyType, MintType
  <2> QED BY <2>1 DEF Fresh0, CacheType
<1>2. CacheInv(Fresh0, keyWorld, keyEvents, keyPlan)
  BY <1>1 DEF CacheInv, OfChannel, Rests, Follows, OfTeam, TeamRests
<1>3. CallersOK(keyCaller, Fresh0)
  BY DEF KeyInit, CallersOK
<1>4. 0 \in 0..MaxWrites
  BY KeyAssumption DEF KeyAssumption
<1>5. keyWorld \in WorldType
  BY DEF KeyInit, WorldType
<1> QED BY <1>2, <1>3, <1>4, <1>5 DEF KeyInit, KeyInv

LEMMA KeyInvStep == KeyInv /\ [KeyNext]_keyVars => KeyInv'
<1> SUFFICES ASSUME KeyInv, [KeyNext]_keyVars PROVE KeyInv'
  OBVIOUS
<1>1. CASE UNCHANGED keyVars
  BY <1>1 DEF keyVars, KeyInv
<1>2. CASE \E f \in Files : Event(f)
  BY <1>2, EventFollows
<1>3. CASE \E c \in KeyClients : Get(c) \/ Refreshed(c)
  BY <1>3, GetFollows
<1> QED BY <1>1, <1>2, <1>3, WorldFollows, CheckFollows, PromiseFollows, StopFollows DEF KeyNext

(* Once every write was noticed and checked, the key a plan serves is of   *)
(* the channel selected and, for a team and an API key, of the account the *)
(* files name; and no caller waits for a check or a promise that is gone:  *)
(* whatever the order of writes, events, checks and answers in             *)
(* createZcodeConfigCache.                                                 *)
THEOREM KeysFollow == KeySpec => []KeyFollows
<1>1. KeyInv => KeyFollows
  <2> SUFFICES ASSUME KeyInv PROVE KeyFollows
    OBVIOUS
  <2>1. ASSUME Settled, ~cache.failed, cache.snapshot # NoKey
        PROVE  /\ cache.snapshot.family = keyWorld.setting
               /\ keyPlan \in {"team", "api"} =>
                     cache.snapshot.login = Wanted \/ (keyPlan = "team" /\ cache.blind)
    <3>1. cache.picked # Nobody /\ cache.picked = keyWorld.setting
      BY <2>1 DEF Settled, KeyInv, CacheInv, Rests, Follows
    <3>2. cache.snapshot.family = keyWorld.setting
      BY <2>1, <3>1 DEF KeyInv, CacheInv, OfChannel
    <3> QED BY <2>1, <3>1, <3>2 DEF Settled, KeyInv, CacheInv, Follows, TeamRests, Wanted
  <2> QED BY <2>1 DEF KeyFollows, KeyInv, CallersOK
<1> QED BY <1>1, KeyInvInit, KeyInvStep, PTL DEF KeySpec

(* The cache holds keys of accounts, each caller waits for one thing. *)
THEOREM KeyTypes == KeySpec => []KeyTypeOK
<1>1. KeyInv => KeyTypeOK
  BY DEF KeyInv, KeyTypeOK, CacheInv, CacheType, CallersOK
<1> QED BY <1>1, KeyInvInit, KeyInvStep, PTL DEF KeySpec

-----------------------------------------------------------------------------
(* The catalog: it is a projection of the snapshots published last, and a *)
(* listing nothing disturbs has read what the caches answer.              *)

(* What a reader of the catalog collects. *)
SnapValues == Snapshots \union {Absent}
GotType    == UNION {[D -> SnapValues] : D \in SUBSET AllRoutes}
ReaderType == [mode : {"none", "list", "refresh", "reload"}, due : SUBSET AllRoutes, got : GotType,
               calm : BOOLEAN, first : BOOLEAN]

OfferTypes ==
    /\ policy \in {"dynamic", "manual"}
    /\ held \in [AllRoutes -> SnapValues \union {BrokenCache}]
    /\ providers \in {BrokenCache} \union SUBSET KeyRoutes
    /\ PlanRoutes \subseteq routes /\ routes \subseteq AllRoutes
    /\ snaps \in [AllRoutes -> SnapValues]
    /\ reading \in [Readers -> ReaderType]
    /\ {served, catalogFile, codex} \subseteq SUBSET (AllRoutes \X ZcodeModels)

(* The file is what is served, and Codex lists nothing beside it. *)
Imposed ==
    /\ served = Projection(published)
    /\ published # NoPublication => catalogFile = served
    /\ codex \subseteq catalogFile

(* A listing that nothing disturbed has read of every route what its cache *)
(* answers, or has it before it.                                           *)
Answer(h, r) == IF h[r] \notin {Absent, BrokenCache} THEN h[r] ELSE Absent
ReadsTrue(rd, p, rs, now, h) ==
    (rd.mode = "list" /\ rd.calm) =>
        /\ p = "dynamic" /\ rs = now /\ rd.due \union DOMAIN rd.got = rs
        /\ \A r \in DOMAIN rd.got : rd.got[r] = Answer(h, r)

CalmReads == \A c \in Readers : ReadsTrue(reading[c], policy, routes, Now, held)

OfferInv == OfferTypes /\ Imposed /\ CalmReads

LEMMA GotIn ==
    ASSUME NEW D \in SUBSET AllRoutes, NEW f \in [D -> SnapValues]
    PROVE  f \in GotType /\ DOMAIN f = D
BY DEF GotType

LEMMA GotOut ==
    ASSUME NEW f \in GotType
    PROVE  DOMAIN f \subseteq AllRoutes /\ f \in [DOMAIN f -> SnapValues]
BY DEF GotType

LEMMA NowType == OfferTypes => PlanRoutes \subseteq Now /\ Now \subseteq AllRoutes
BY DEF OfferTypes, Now, AllRoutes

LEMMA SyncType ==
    ASSUME OfferTypes
    PROVE  /\ Synchronized(reading) \in [Readers -> ReaderType]
           /\ \A c \in Readers :
                 /\ Synchronized(reading)[c].mode = reading[c].mode
                 /\ Synchronized(reading)[c].calm = reading[c].calm
                 /\ Synchronized(reading)[c].due = reading[c].due
                 /\ DOMAIN Synchronized(reading)[c].got = DOMAIN reading[c].got \cap Now
                 /\ \A r \in DOMAIN Synchronized(reading)[c].got :
                       Synchronized(reading)[c].got[r] = reading[c].got[r]
<1> SUFFICES ASSUME NEW c \in Readers
             PROVE  LET n == Synchronized(reading)[c] IN
                    /\ n \in ReaderType /\ n.mode = reading[c].mode /\ n.calm = reading[c].calm
                    /\ n.due = reading[c].due /\ DOMAIN n.got = DOMAIN reading[c].got \cap Now
                    /\ \A r \in DOMAIN n.got : n.got[r] = reading[c].got[r]
  BY DEF Synchronized
<1> DEFINE old == reading[c].got
           cut == [r \in DOMAIN old \cap Now |-> old[r]]
<1>1. reading[c] \in ReaderType /\ old \in GotType
  BY DEF OfferTypes, ReaderType
<1>2. cut \in GotType /\ DOMAIN cut = DOMAIN old \cap Now /\ \A r \in DOMAIN cut : cut[r] = old[r]
  <2>1. DOMAIN old \subseteq AllRoutes /\ old \in [DOMAIN old -> SnapValues]
    BY <1>1, GotOut
  <2>2. cut \in [DOMAIN old \cap Now -> SnapValues]
    BY <2>1
  <2> QED BY <2>1, <2>2, GotIn
<1>3. Synchronized(reading)[c] = [reading[c] EXCEPT !.got = cut]
  BY DEF Synchronized
<1> HIDE DEF cut
<1> QED BY <1>1, <1>2, <1>3 DEF ReaderType

LEMMA KeptType == OfferTypes /\ (\A r \in AllRoutes : TRUE) => Kept(Now) \in [AllRoutes -> SnapValues]
BY DEF OfferTypes, Kept, SnapValues

-----------------------------------------------------------------------------
(* A publication is what the routes hold, and imposes itself.               *)
LEMMA ProjectionType ==
    ASSUME NEW rs \in SUBSET AllRoutes, NEW s \in [AllRoutes -> SnapValues]
    PROVE  Projection(From(rs, s)) \in SUBSET (AllRoutes \X ZcodeModels)
<1> DEFINE p == From(rs, s)
<1>1. p.routes = rs /\ \A r \in rs : p.snaps[r] = s[r]
  BY DEF From
<1>2. \A r \in rs : s[r] # Absent => {r} \X s[r] \subseteq AllRoutes \X ZcodeModels
  BY DEF SnapValues, Snapshots
<1> HIDE DEF p
<1> SUFFICES ASSUME NEW x \in Projection(p) PROVE x \in AllRoutes \X ZcodeModels
  BY DEF p
<1>3. PICK r \in p.routes : p.snaps[r] # Absent /\ x \in {r} \X p.snaps[r]
  BY DEF Projection
<1> QED BY <1>1, <1>2, <1>3

LEMMA Publishing ==
    ASSUME OfferTypes, Imposed, NEW rs \in SUBSET AllRoutes, NEW s \in [AllRoutes -> SnapValues], NEW force,
           NEW listed \in SUBSET codex, PublishTo(rs, s, force, listed)
    PROVE  /\ Imposed' /\ published' = From(rs, s)
           /\ {served', catalogFile', codex'} \subseteq SUBSET (AllRoutes \X ZcodeModels)
<1> DEFINE p == From(rs, s)
           models == Projection(p)
<1>1. models \in SUBSET (AllRoutes \X ZcodeModels)
  BY ProjectionType
<1>2. CASE Unchanged(p, force)
  <2>1. /\ codex' = listed /\ published' = published /\ served' = served /\ catalogFile' = catalogFile
        /\ published = p
    BY <1>2 DEF PublishTo, Unchanged
  <2>2. Projection(published') = Projection(published)
    BY <2>1
  <2> QED BY <2>1, <2>2 DEF Imposed, OfferTypes
<1>3. CASE ~Unchanged(p, force)
  <2>1. /\ published' = p /\ served' = models /\ catalogFile' = models
        /\ codex' = IF models = catalogFile THEN listed ELSE listed \cap models
    BY <1>3 DEF PublishTo
  <2>2. Projection(published') = models
    BY <2>1
  <2> HIDE DEF p, models
  <2> QED BY <1>1, <2>1, <2>2 DEF Imposed, OfferTypes, p
<1> QED BY <1>2, <1>3

LEMMA Unpublished ==
    ASSUME OfferTypes, Imposed, UNCHANGED <<published, served, catalogFile, codex>>
    PROVE  Imposed' /\ {served', catalogFile', codex'} \subseteq SUBSET (AllRoutes \X ZcodeModels)
<1>1. Projection(published') = Projection(published)
  OBVIOUS
<1> QED BY <1>1 DEF Imposed, OfferTypes

-----------------------------------------------------------------------------
(* Steps.                                                                   *)
LEMMA DisturbedCalms ==
    ASSUME OfferTypes, reading' = Disturbed(reading)
    PROVE  reading' \in [Readers -> ReaderType] /\ CalmReads'
<1>1. \A c \in Readers : reading'[c] = [reading[c] EXCEPT !.calm = FALSE] /\ reading[c] \in ReaderType
  BY DEF OfferTypes, Disturbed
<1>2. \A c \in Readers : reading'[c] \in ReaderType /\ ~reading'[c].calm
  BY <1>1 DEF ReaderType
<1>3. reading' \in [Readers -> ReaderType]
  BY <1>2 DEF Disturbed
<1> QED BY <1>2, <1>3 DEF CalmReads, ReadsTrue

LEMMA CacheKeeps ==
    ASSUME OfferInv, NEW r \in AllRoutes, NEW v \in SnapValues \union {BrokenCache}, NEW tells,
           CacheChanges(r, v, tells)
    PROVE  OfferInv'
<1> USE DEF OfferInv
<1>1. reading' \in [Readers -> ReaderType] /\ CalmReads'
  BY DisturbedCalms DEF CacheChanges
<1>2. held' \in [AllRoutes -> SnapValues \union {BrokenCache}]
  BY DEF CacheChanges, OfferTypes
<1>3. UNCHANGED <<policy, providers, routes>>
  BY DEF CacheChanges
<1>4. CASE r \in routes /\ policy = "dynamic" /\ v # BrokenCache /\ tells
  <2>1. snaps' = [snaps EXCEPT ![r] = v] /\ PublishTo(routes, snaps', FALSE, codex)
    BY <1>4 DEF CacheChanges
  <2>2. snaps' \in [AllRoutes -> SnapValues]
    BY <1>4, <2>1 DEF OfferTypes
  <2>3. Imposed' /\ {served', catalogFile', codex'} \subseteq SUBSET (AllRoutes \X ZcodeModels)
    BY <2>1, <2>2, Publishing DEF OfferTypes
  <2> QED BY <1>1, <1>2, <1>3, <2>2, <2>3 DEF OfferTypes
<1>5. CASE ~(r \in routes /\ policy = "dynamic" /\ v # BrokenCache /\ tells)
  <2>1. UNCHANGED <<snaps, published, served, catalogFile, codex>>
    BY <1>5 DEF CacheChanges
  <2> QED BY <1>1, <1>2, <1>3, <2>1, Unpublished DEF OfferTypes
<1> QED BY <1>4, <1>5

LEMMA WorldKeeps ==
    ASSUME OfferInv,
           (\E ps \in {BrokenCache} \union SUBSET KeyRoutes : ProvidersChange(ps))
           \/ (\E f \in {"yes", "no", "unknown"} : LogChanges(f))
    PROVE  OfferInv'
<1>1. /\ reading' = Disturbed(reading) /\ UNCHANGED <<policy, held, routes, snaps, published, served, catalogFile, codex>>
      /\ providers' \in {BrokenCache} \union SUBSET KeyRoutes
  BY DEF ProvidersChange, LogChanges, OfferInv, OfferTypes
<1> QED BY <1>1, DisturbedCalms, Unpublished DEF OfferInv, OfferTypes

LEMMA SameReads ==
    ASSUME CalmReads, UNCHANGED <<policy, held, providers, routes, reading>>
    PROVE  CalmReads'
<1>1. Now' = Now
  BY DEF Now
<1> QED BY <1>1 DEF CalmReads

LEMMA FetchesKeep == ASSUME OfferInv, CodexFetches PROVE OfferInv'
<1>1. UNCHANGED <<policy, held, providers, routes, snaps, published, served, catalogFile, reading>> /\ codex' = served
  BY DEF CodexFetches
<1>2. served \subseteq catalogFile
  <2>1. CASE published = NoPublication
    <3>1. Projection(NoPublication) = {}
      BY DEF Projection, NoPublication
    <3> QED BY <2>1, <3>1 DEF OfferInv, Imposed
  <2> QED BY <2>1 DEF OfferInv, Imposed
<1>3. Projection(published') = Projection(published)
  BY <1>1
<1>4. Imposed'
  BY <1>1, <1>2, <1>3 DEF OfferInv, Imposed
<1>5. OfferTypes'
  BY <1>1 DEF OfferInv, OfferTypes
<1> QED BY <1>1, <1>4, <1>5, SameReads DEF OfferInv

(* The routes become those of the providers there are now; whoever was not *)
(* disturbed knows them.                                                   *)
LEMMA SyncedReads ==
    ASSUME OfferInv, routes' = Now, UNCHANGED <<policy, held, providers>>, NEW c \in Readers,
           reading'[c] = Synchronized(reading)[c]
    PROVE  ReadsTrue(reading'[c], policy', routes', Now', held')
<1>1. Now' = Now /\ Now \subseteq AllRoutes /\ ReadsTrue(reading[c], policy, routes, Now, held)
  BY NowType DEF Now, OfferInv, CalmReads
<1>2. /\ reading'[c].mode = reading[c].mode /\ reading'[c].calm = reading[c].calm
      /\ reading'[c].due = reading[c].due
      /\ DOMAIN reading'[c].got = DOMAIN reading[c].got \cap Now
      /\ \A r \in DOMAIN reading'[c].got : reading'[c].got[r] = reading[c].got[r]
      /\ DOMAIN reading[c].got \subseteq AllRoutes
  BY SyncType, GotOut DEF OfferInv, OfferTypes, ReaderType
<1> QED BY <1>1, <1>2 DEF ReadsTrue

LEMMA RequestedKeeps == ASSUME OfferInv, Requested PROVE OfferInv'
<1> USE DEF OfferInv
<1>1. /\ routes' = Now /\ snaps' = Kept(Now) /\ PublishTo(Now, snaps', FALSE, codex)
      /\ reading' = Synchronized(reading) /\ UNCHANGED <<policy, held, providers>>
  BY DEF Requested
<1>2. snaps' \in [AllRoutes -> SnapValues] /\ Now \in SUBSET AllRoutes /\ PlanRoutes \subseteq Now
  BY <1>1, KeptType, NowType
<1>3. Imposed' /\ {served', catalogFile', codex'} \subseteq SUBSET (AllRoutes \X ZcodeModels)
  BY <1>1, <1>2, Publishing
<1>4. reading' \in [Readers -> ReaderType]
  BY <1>1, SyncType
<1>5. CalmReads'
  <2>1. \A c \in Readers : ReadsTrue(reading'[c], policy', routes', Now', held')
    BY <1>1, SyncedReads
  <2> QED BY <2>1 DEF CalmReads
<1>6. OfferTypes'
  BY <1>1, <1>2, <1>3, <1>4 DEF OfferTypes
<1> QED BY <1>3, <1>5, <1>6

LEMMA BeginKeeps ==
    ASSUME OfferInv, NEW c \in Readers, NEW mode \in {"list", "refresh", "reload"}, BeginRead(c, mode)
    PROVE  OfferInv'
<1> USE DEF OfferInv
<1>1. UNCHANGED <<policy, held, providers>>
  BY DEF BeginRead
<1>2. CASE policy = "manual" /\ (mode = "list" \/ providers = BrokenCache)
  <2>1. UNCHANGED <<routes, snaps, published, served, catalogFile, codex, reading>>
    BY <1>2 DEF BeginRead
  <2> QED BY <1>1, <2>1, Unpublished, SameReads DEF OfferTypes
<1>3. CASE ~(policy = "manual" /\ (mode = "list" \/ providers = BrokenCache))
  <2> DEFINE new == [mode |-> mode, due |-> Now, got |-> [r \in {} |-> Absent], calm |-> TRUE,
                     first |-> published' = NoPublication]
  <2>1. /\ routes' = Now /\ snaps' = Kept(Now)
        /\ reading' = [Synchronized(reading) EXCEPT ![c] = new]
    BY <1>3 DEF BeginRead
  <2>2. snaps' \in [AllRoutes -> SnapValues] /\ Now \in SUBSET AllRoutes /\ PlanRoutes \subseteq Now
    BY <2>1, KeptType, NowType
  <2>3. Imposed' /\ {served', catalogFile', codex'} \subseteq SUBSET (AllRoutes \X ZcodeModels)
    <3>1. CASE Now # routes /\ policy = "dynamic"
      <4>1. PublishTo(Now, snaps', FALSE, codex)
        BY <1>3, <3>1, <2>1 DEF BeginRead
      <4> QED BY <4>1, <2>2, Publishing
    <3>2. CASE ~(Now # routes /\ policy = "dynamic")
      <4>1. UNCHANGED <<published, served, catalogFile, codex>>
        BY <1>3, <3>2 DEF BeginRead
      <4> QED BY <4>1, Unpublished
    <3> QED BY <3>1, <3>2
  <2>4. new \in ReaderType /\ new.due = Now /\ new.got = [r \in {} |-> Absent] /\ new.mode = mode
    <3>1. [r \in {} |-> Absent] \in [{} -> SnapValues]
      OBVIOUS
    <3>2. [r \in {} |-> Absent] \in GotType
      BY <3>1, GotIn
    <3> QED BY <2>2, <3>2 DEF ReaderType
  <2> HIDE DEF new
  <2>5. /\ reading' \in [Readers -> ReaderType] /\ reading'[c] = new
        /\ \A d \in Readers \ {c} : reading'[d] = Synchronized(reading)[d]
    BY <2>1, <2>4, SyncType
  <2>6. OfferTypes'
    BY <1>1, <2>1, <2>2, <2>3, <2>5 DEF OfferTypes
  <2>7. ReadsTrue(reading'[c], policy', routes', Now', held')
    <3>1. Now' = Now
      BY <1>1 DEF Now
    <3>2. mode = "list" => policy' = "dynamic"
      BY <1>1, <1>3 DEF OfferTypes
    <3>3. DOMAIN new.got = {}
      BY <2>4
    <3> QED BY <2>1, <2>4, <2>5, <3>1, <3>2, <3>3 DEF ReadsTrue
  <2>8. CalmReads'
    <3>1. \A d \in Readers \ {c} : ReadsTrue(reading'[d], policy', routes', Now', held')
      BY <1>1, <2>1, <2>5, SyncedReads
    <3> QED BY <2>7, <3>1 DEF CalmReads
  <2> QED BY <2>3, <2>6, <2>8
<1> QED BY <1>2, <1>3

(* The idle reader. *)
LEMMA IdleType == IdleReader \in ReaderType /\ IdleReader.mode = "none"
<1>1. [r \in {} |-> Absent] \in [{} -> SnapValues]
  OBVIOUS
<1>2. [r \in {} |-> Absent] \in GotType
  BY <1>1, GotIn
<1> QED BY <1>2 DEF IdleReader, ReaderType

LEMMA EndReadingTypes ==
    ASSUME OfferTypes, NEW c \in Readers, EndReading(c)
    PROVE  /\ reading' \in [Readers -> ReaderType] /\ reading'[c].mode = "none"
           /\ \A d \in Readers \ {c} : reading'[d] = reading[d]
BY IdleType DEF EndReading, OfferTypes

LEMMA ReadKeeps ==
    ASSUME OfferInv, NEW c \in Readers, NEW r \in AllRoutes, ReadRoute(c, r)
    PROVE  OfferInv' /\ (policy = "dynamic" => reading'[c].mode = reading[c].mode)
           /\ \A d \in Readers \ {c} : reading'[d] = reading[d]
<1> USE DEF OfferInv
<1>1. UNCHANGED <<policy, held, providers, routes>> /\ r \in reading[c].due
  BY DEF ReadRoute
<1>2. /\ Imposed' /\ {served', catalogFile', codex'} \subseteq SUBSET (AllRoutes \X ZcodeModels)
      /\ snaps' \in [AllRoutes -> SnapValues]
  <2>1. CASE policy = "dynamic" /\ r \in routes /\ Works(r) /\ ~Rejects(r) /\ snaps[r] # held[r]
    <3>1. snaps' = [snaps EXCEPT ![r] = held[r]] /\ PublishTo(routes, snaps', FALSE, codex)
      BY <2>1 DEF ReadRoute
    <3>2. snaps' \in [AllRoutes -> SnapValues]
      BY <2>1, <3>1 DEF OfferTypes, Works, SnapValues
    <3> QED BY <3>1, <3>2, Publishing DEF OfferTypes
  <2>2. CASE ~(policy = "dynamic" /\ r \in routes /\ Works(r) /\ ~Rejects(r) /\ snaps[r] # held[r])
    <3>1. UNCHANGED <<snaps, published, served, catalogFile, codex>>
      BY <2>2 DEF ReadRoute
    <3> QED BY <3>1, Unpublished DEF OfferTypes
  <2> QED BY <2>1, <2>2
<1>3. Now' = Now
  BY <1>1 DEF Now
<1>4. CASE Rejects(r)
  <2>1. EndReading(c) /\ policy = "manual"
    BY <1>4 DEF ReadRoute, Rejects
  <2>2. /\ reading' \in [Readers -> ReaderType] /\ reading'[c].mode = "none"
        /\ \A d \in Readers \ {c} : reading'[d] = reading[d]
    BY <2>1, EndReadingTypes
  <2>3. CalmReads'
    BY <1>1, <1>3, <2>2 DEF CalmReads, ReadsTrue
  <2> QED BY <1>1, <1>2, <2>1, <2>2, <2>3 DEF OfferTypes
<1>5. CASE ~Rejects(r)
  <2> DEFINE old == reading[c].got
             more == IF r \in routes
                     THEN [q \in DOMAIN old \union {r} |-> IF q = r THEN Result(r) ELSE old[q]] ELSE old
             new  == [reading[c] EXCEPT !.due = @ \ {r}, !.got = more]
  <2>1. reading' = [reading EXCEPT ![c] = new]
    BY <1>5 DEF ReadRoute
  <2>2. reading[c] \in ReaderType /\ old \in [DOMAIN old -> SnapValues] /\ DOMAIN old \subseteq AllRoutes
    BY GotOut DEF OfferTypes, ReaderType
  <2>3. Result(r) \in SnapValues
    BY DEF Result, Works, OfferTypes, SnapValues
  <2>4. /\ more \in GotType /\ DOMAIN more = (IF r \in routes THEN DOMAIN old \union {r} ELSE DOMAIN old)
        /\ \A q \in DOMAIN more : more[q] = IF q = r /\ r \in routes THEN Result(r) ELSE old[q]
    <3>1. CASE r \in routes
      <4>1. more \in [DOMAIN old \union {r} -> SnapValues]
        BY <2>2, <2>3, <3>1
      <4>2. DOMAIN old \union {r} \in SUBSET AllRoutes
        BY <2>2
      <4> QED BY <3>1, <4>1, <4>2, GotIn
    <3>2. CASE r \notin routes
      BY <2>2, <3>2, GotIn
    <3> QED BY <3>1, <3>2
  <2> HIDE DEF more
  <2>5. /\ new \in ReaderType /\ new.mode = reading[c].mode /\ new.calm = reading[c].calm
        /\ new.due = reading[c].due \ {r} /\ new.got = more
    BY <2>2, <2>4 DEF ReaderType
  <2> HIDE DEF new
  <2>6. /\ reading' \in [Readers -> ReaderType] /\ reading'[c] = new
        /\ \A d \in Readers \ {c} : reading'[d] = reading[d]
    BY <2>1, <2>5 DEF OfferTypes
  <2>7. OfferTypes'
    BY <1>1, <1>2, <2>6 DEF OfferTypes
  <2>8. ReadsTrue(reading'[c], policy', routes', Now', held')
    <3> SUFFICES ASSUME new.mode = "list", new.calm
                 PROVE  /\ policy = "dynamic" /\ routes = Now /\ new.due \union DOMAIN more = routes
                        /\ \A q \in DOMAIN more : more[q] = Answer(held, q)
      BY <1>1, <1>3, <2>2, <2>4, <2>5, <2>6 DEF ReadsTrue
    <3>1. /\ policy = "dynamic" /\ routes = Now /\ reading[c].due \union DOMAIN old = routes
          /\ \A q \in DOMAIN old : old[q] = Answer(held, q)
      BY <2>5 DEF CalmReads, ReadsTrue
    <3>2. r \in routes
      BY <1>1, <3>1
    <3>3. Result(r) = Answer(held, r)
      BY <3>1 DEF Result, Works, Answer
    <3> QED BY <2>4, <2>5, <3>1, <3>2, <3>3
  <2>9. CalmReads'
    <3>1. \A d \in Readers \ {c} : ReadsTrue(reading'[d], policy', routes', Now', held')
      BY <1>1, <1>3, <2>6 DEF CalmReads
    <3> QED BY <2>8, <3>1 DEF CalmReads
  <2> QED BY <1>2, <2>5, <2>6, <2>7, <2>9
<1> QED BY <1>4, <1>5

LEMMA EndKeeps ==
    ASSUME OfferInv, NEW c \in Readers, EndRead(c)
    PROVE  /\ OfferInv' /\ \A d \in Readers \ {c} : reading'[d] = reading[d]
           /\ (reading[c].mode = "list" /\ reading[c].calm) => served' = Offered
<1> USE DEF OfferInv
<1> DEFINE got == reading[c].got
           s == [r \in AllRoutes |-> IF r \in DOMAIN got THEN got[r] ELSE snaps[r]]
           none == reading[c].first /\ \A r \in routes : s[r] = Absent
<1>1. /\ UNCHANGED <<policy, held, providers, routes>> /\ EndReading(c) /\ reading[c].due = {}
      /\ snaps' = s /\ PublishTo(routes, s, reading[c].mode # "list", IF none THEN {} ELSE codex)
  BY DEF EndRead
<1>2. got \in [DOMAIN got -> SnapValues] /\ DOMAIN got \subseteq AllRoutes
  BY GotOut DEF OfferTypes, ReaderType
<1>3. s \in [AllRoutes -> SnapValues]
  BY <1>2 DEF OfferTypes
<1>4. \A r \in DOMAIN got : s[r] = got[r]
  BY <1>2
<1> HIDE DEF s, none
<1>5. /\ Imposed' /\ published' = From(routes, s)
      /\ {served', catalogFile', codex'} \subseteq SUBSET (AllRoutes \X ZcodeModels)
  <2> DEFINE listed == IF none THEN {} ELSE codex
  <2>1. listed \in SUBSET codex /\ PublishTo(routes, s, reading[c].mode # "list", listed)
    BY <1>1
  <2> HIDE DEF listed
  <2> QED BY <1>3, <2>1, Publishing DEF OfferTypes
<1>6. /\ reading' \in [Readers -> ReaderType] /\ reading'[c].mode = "none"
      /\ \A d \in Readers \ {c} : reading'[d] = reading[d]
  BY <1>1, EndReadingTypes
<1>7. OfferTypes'
  BY <1>1, <1>3, <1>5, <1>6 DEF OfferTypes
<1>8. CalmReads'
  <2>1. Now' = Now
    BY <1>1 DEF Now
  <2> QED BY <1>1, <2>1, <1>6 DEF CalmReads, ReadsTrue
<1>9. ASSUME reading[c].mode = "list", reading[c].calm PROVE served' = Offered
  <2> DEFINE w == [r \in AllRoutes |-> IF r \in routes /\ Works(r) THEN held[r] ELSE Absent]
  <2>1. DOMAIN got = routes /\ \A r \in routes : got[r] = IF Works(r) THEN held[r] ELSE Absent
    BY <1>1, <1>9 DEF CalmReads, ReadsTrue, Answer, Works
  <2>2. \A r \in routes : s[r] = w[r]
    BY <1>4, <2>1 DEF OfferTypes
  <2>3. FreePlan \in routes
    BY CatalogAssumption DEF OfferTypes
  <2>4. From(routes, s) = From(routes, w)
    <3> HIDE DEF w
    <3> QED BY <2>2, <2>3 DEF From, PlanGate
  <2>5. served' = Projection(published')
    BY <1>5 DEF Imposed
  <2> QED BY <1>5, <2>4, <2>5 DEF Offered
<1> QED BY <1>5, <1>6, <1>7, <1>8, <1>9

LEMMA ShutKeeps == ASSUME OfferInv, ShutDown PROVE OfferInv'
<1> USE DEF OfferInv
<1>1. /\ UNCHANGED <<policy, held, providers, routes, snaps, published, served, catalogFile, codex>>
      /\ reading' = [c \in Readers |-> IdleReader]
  BY DEF ShutDown
<1>2. Imposed'
  BY <1>1, Unpublished
<1>3. OfferTypes'
  BY <1>1, IdleType DEF OfferTypes
<1>4. CalmReads'
  BY <1>1, IdleType DEF CalmReads, ReadsTrue
<1> QED BY <1>2, <1>3, <1>4

LEMMA StillOffers == ASSUME OfferInv, UNCHANGED zcVars PROVE OfferInv'
<1>1. UNCHANGED <<policy, held, providers, routes, snaps, published, served, catalogFile, codex, reading>>
  BY DEF zcVars
<1> QED BY <1>1, Unpublished, SameReads DEF OfferInv, OfferTypes

LEMMA OfferInit == ZcInit => OfferInv
<1> SUFFICES ASSUME ZcInit PROVE OfferInv
  OBVIOUS
<1>1. /\ policy \in {"dynamic", "manual"} /\ held \in [AllRoutes -> SnapValues \union {BrokenCache}]
      /\ providers \in {BrokenCache} \union SUBSET KeyRoutes
      /\ PlanRoutes \subseteq routes /\ routes \subseteq AllRoutes
      /\ snaps \in [AllRoutes -> SnapValues]
  BY DEF ZcInit, SnapValues, Snapshots, AllRoutes
<1>2. \A c \in Readers : reading[c] = IdleReader \/ reading[c] = [StartReader EXCEPT !.due = routes]
  BY DEF ZcInit
<1>3. [StartReader EXCEPT !.due = routes] \in ReaderType /\ [StartReader EXCEPT !.due = routes].mode = "refresh"
  <2>1. [r \in {} |-> Absent] \in [{} -> SnapValues]
    OBVIOUS
  <2>2. [r \in {} |-> Absent] \in GotType
    BY <2>1, GotIn
  <2> QED BY <1>1, <2>2 DEF StartReader, ReaderType
<1>4. reading \in [Readers -> ReaderType] /\ CalmReads
  <2>1. \A c \in Readers : reading[c] \in ReaderType /\ reading[c].mode # "list"
    BY <1>2, <1>3, IdleType
  <2>2. reading \in [Readers -> ReaderType]
    BY <2>1 DEF ZcInit
  <2> QED BY <2>1, <2>2 DEF CalmReads, ReadsTrue
<1>5. served = {} /\ published = NoPublication /\ codex = catalogFile
      /\ catalogFile \in SUBSET (AllRoutes \X ZcodeModels)
  BY DEF ZcInit
<1>6. Imposed
  BY <1>5 DEF Imposed, Projection, NoPublication
<1> QED BY <1>1, <1>4, <1>5, <1>6 DEF OfferInv, OfferTypes

LEMMA OfferStep ==
    ASSUME OfferInv, [ZcNext]_zcVars
    PROVE  OfferInv'
<1>1. CASE \E r \in AllRoutes : \/ \E v \in {Absent} \cup Snapshots : CacheChanges(r, v, TRUE)
                                \/ \E v \in {BrokenCache} \cup Snapshots : CacheChanges(r, v, FALSE)
  BY <1>1, CacheKeeps DEF SnapValues
<1>2. CASE \E c \in Readers : \/ \E mode \in {"list", "refresh", "reload"} : BeginRead(c, mode)
                              \/ \E r \in AllRoutes : ReadRoute(c, r)
                              \/ EndRead(c)
  BY <1>2, BeginKeeps, ReadKeeps, EndKeeps
<1> QED BY <1>1, <1>2, WorldKeeps, FetchesKeep, RequestedKeeps, ShutKeeps, StillOffers DEF ZcNext

(* A listing during which nothing changed serves what the caches offer, the *)
(* log's verdict included, and no ZCode model stays in Codex's cache that is *)
(* not served: for any plans, providers, models and readers (readCatalog,   *)
(* republishFromPlans, pruneCodexCache).                                    *)
THEOREM CatalogsFollow == ZcSpec => CatalogFollows
<1> DEFINE Listed(c) == (/\ reading[c].mode = "list" /\ reading'[c].mode = "none"
                         /\ reading[c].calm /\ reading[c].due = {} /\ ~shut'
                         /\ policy = "dynamic")
           Shown == /\ published' # NoPublication => codex' \subseteq served'
                    /\ \A c \in Readers : Listed(c) => served' = Offered
<1>1. OfferInv /\ OfferInv' /\ [ZcNext]_zcVars => [Shown]_zcVars
  <2> SUFFICES ASSUME OfferInv, OfferInv', ZcNext PROVE Shown
    OBVIOUS
  <2>1. published' # NoPublication => codex' \subseteq served'
    BY DEF OfferInv, Imposed
  <2>2. ASSUME NEW c \in Readers, Listed(c) PROVE served' = Offered
    <3>1. ASSUME NEW d \in Readers, EndRead(d) PROVE served' = Offered
      BY <2>2, <3>1, EndKeeps
    <3>2. ASSUME NEW d \in Readers, NEW r \in AllRoutes, ReadRoute(d, r) PROVE FALSE
      BY <2>2, <3>2, ReadKeeps
    <3>3. ASSUME NEW d \in Readers, NEW mode \in {"list", "refresh", "reload"}, BeginRead(d, mode) PROVE FALSE
      <4> DEFINE new == [mode |-> mode, due |-> Now, got |-> [r \in {} |-> Absent], calm |-> TRUE,
                         first |-> published' = NoPublication]
      <4>1. reading[d].mode = "none" /\ c # d
        BY <2>2, <3>3 DEF BeginRead
      <4>2. reading' = reading \/ reading' = [Synchronized(reading) EXCEPT ![d] = new]
        BY <3>3 DEF BeginRead
      <4>3. reading'[c] = reading[c] \/ reading'[c] = Synchronized(reading)[c]
        BY <4>1, <4>2, SyncType DEF OfferInv
      <4> QED BY <2>2, <4>3, SyncType DEF OfferInv
    <3>4. ASSUME reading' = Disturbed(reading) PROVE FALSE
      BY <2>2, <3>4 DEF Disturbed, OfferInv, OfferTypes, ReaderType
    <3>5. ASSUME Requested PROVE FALSE
      BY <2>2, <3>5, SyncType DEF Requested, OfferInv
    <3>6. ~CodexFetches /\ ~ShutDown
      BY <2>2 DEF CodexFetches, ShutDown
    <3>7. ASSUME NEW r, NEW v, NEW tells, CacheChanges(r, v, tells) PROVE FALSE
      BY <3>4, <3>7 DEF CacheChanges
    <3>8. ASSUME NEW x, ProvidersChange(x) \/ LogChanges(x) PROVE FALSE
      BY <3>4, <3>8 DEF ProvidersChange, LogChanges
    <3> QED BY <3>1, <3>2, <3>3, <3>5, <3>6, <3>7, <3>8 DEF ZcNext
  <2> QED BY <2>1, <2>2
<1> QED BY <1>1, OfferInit, OfferStep, PTL DEF ZcSpec, CatalogFollows

(* Snapshots and what is served are of routes there are. *)
THEOREM OffersTyped == ZcSpec => []ZcTypeOK
<1>1. OfferInv => ZcTypeOK
  BY DEF OfferInv, OfferTypes, ZcTypeOK, SnapValues
<1> QED BY <1>1, OfferInit, OfferStep, PTL DEF ZcSpec
-----------------------------------------------------------------------------
(* The answers: what the client was shown, what it is about to be shown    *)
(* and what message_stop holds back make up the items there are.           *)

(* What a sequence of events tells of the items. *)
ItemsOf(events, type) == {events[k].item : k \in {j \in DOMAIN events : events[j].type = type}}

EventType  == [type : {"added", "done", "terminal"}, item : Nat]
ItemKinds  == Kinds \union {"asked", "answered"}
ItemType   == [kind : ItemKinds, status : {"in_progress", "completed", "incomplete"}]
BlockType  == [kind : Kinds, item : Nat, stopped : BOOLEAN, arrived : BOOLEAN, of : Indexes \union {0}]
BlockTypes == UNION {[D -> BlockType] : D \in SUBSET Indexes}
LegType    == [started : BOOLEAN, reason : Reasons \union {NoReason}, blocks : BlockTypes]
ToldType   == [added : SUBSET Nat, done : SUBSET Nat, hole : BOOLEAN, over : BOOLEAN]
AbsorbType == [pending : Nat, narrated : Nat, done : Nat]

AnswerTypes ==
    /\ leg \in LegType /\ output \in Seq(ItemType) /\ due \in Seq(EventType) /\ kept \in Seq(EventType)
    /\ told \in ToldType /\ absorbed \in AbsorbType /\ legs \in Nat
    /\ answer \in {"open", "running", "asking"} \union Finals

(* The client was shown or is about to be shown what there is. *)
Shows(seen, events, later, out) ==
    /\ seen.added \union ItemsOf(events, "added") \union ItemsOf(later, "added") = DOMAIN out
    /\ seen.done \union ItemsOf(events, "done") \union ItemsOf(later, "done") \subseteq DOMAIN out
    /\ \A n \in DOMAIN out : out[n].status # "in_progress" =>
          n \in seen.done \union ItemsOf(events, "done") \union ItemsOf(later, "done")

Closed(out) == \A n \in DOMAIN out : out[n].status # "in_progress"

OfKind(out, kind) == {n \in DOMAIN out : out[n].kind = kind}

(* A card for each call that was shown, but for those still to be run. *)
Answered(out, a) ==
    Cardinality(OfKind(out, "asked")) + a.done = Cardinality(OfKind(out, "answered")) + a.narrated

OpenBlock(b) == (b.kind \in {"text", "thinking", "call"} /\ ~b.stopped) \/ (b.kind = "search" /\ ~b.arrived)

(* What is in progress has its block, and is the only item of it. *)
Blocked(blocks, out) ==
    /\ \A i \in DOMAIN blocks : blocks[i].kind \in {"text", "thinking", "call", "search"} =>
          blocks[i].item \in DOMAIN out
    /\ \A i \in DOMAIN blocks : blocks[i].kind = "result" =>
          blocks[i].of \in DOMAIN blocks /\ blocks[blocks[i].of].kind = "search"
    /\ \A n \in DOMAIN out : out[n].status = "in_progress" =>
          \E i \in DOMAIN blocks : blocks[i].item = n /\ OpenBlock(blocks[i])

NoTerminal(events) == \A k \in DOMAIN events : events[k].type # "terminal"

(* The terminal event comes last and once. *)
TerminalLast(events, over) ==
    IF over THEN events = <<>>
    ELSE /\ events # <<>> /\ events[Len(events)].type = "terminal"
         /\ \A k \in 1..(Len(events) - 1) : events[k].type # "terminal"

Going == answer \in {"open", "running", "asking"}

AnsInv ==
    /\ AnswerTypes
    /\ answer # "failed" => ~told.hole /\ Shows(told, due, kept, output) /\ Answered(output, absorbed)
    /\ Going => ~told.over /\ NoTerminal(due) /\ NoTerminal(kept)
    /\ Going /\ legs < MaxContinued => absorbed.narrated = absorbed.pending
    /\ answer = "open" => kept = <<>> /\ absorbed.done = 0 /\ Blocked(leg.blocks, output)
    /\ answer = "running" => due = <<>> /\ legs < MaxContinued /\ absorbed.done <= absorbed.pending
    /\ answer = "asking" => due = <<>> /\ absorbed.narrated = absorbed.done /\ absorbed.done = 0
    /\ answer \in {"running", "asking", "completed", "incomplete"} => Closed(output)
    /\ answer \in {"completed", "incomplete"} =>
          kept = <<>> /\ absorbed.narrated = 0 /\ absorbed.done = 0 /\ TerminalLast(due, told.over)

-----------------------------------------------------------------------------
(* Sequences of events.                                                     *)
LEMMA NoItems == \A type : ItemsOf(<<>>, type) = {}
BY DEF ItemsOf

LEMMA ItemsConcat ==
    ASSUME NEW a \in Seq(EventType), NEW b \in Seq(EventType), NEW type
    PROVE  ItemsOf(a \o b, type) = ItemsOf(a, type) \union ItemsOf(b, type)
<1>1. /\ Len(a) \in Nat /\ Len(b) \in Nat /\ DOMAIN a = 1..Len(a) /\ DOMAIN b = 1..Len(b)
      /\ DOMAIN (a \o b) = 1..(Len(a) + Len(b))
  OBVIOUS
<1>2. \A k \in 1..Len(a) : (a \o b)[k] = a[k] /\ k \in DOMAIN (a \o b)
  BY <1>1
<1>3. \A k \in 1..Len(b) : (a \o b)[Len(a) + k] = b[k] /\ Len(a) + k \in DOMAIN (a \o b)
  BY <1>1
<1>4. ASSUME NEW k \in DOMAIN (a \o b), (a \o b)[k].type = type
      PROVE  (a \o b)[k].item \in ItemsOf(a, type) \union ItemsOf(b, type)
  <2>1. CASE k \in 1..Len(a)
    BY <1>1, <1>2, <1>4, <2>1 DEF ItemsOf
  <2>2. CASE k \notin 1..Len(a)
    <3>1. k - Len(a) \in 1..Len(b) /\ Len(a) + (k - Len(a)) = k
      BY <1>1, <2>2
    <3>2. (a \o b)[k] = b[k - Len(a)]
      BY <1>3, <3>1
    <3> QED BY <1>1, <1>4, <3>1, <3>2 DEF ItemsOf
  <2> QED BY <2>1, <2>2
<1>5. ItemsOf(a, type) \subseteq ItemsOf(a \o b, type)
  BY <1>1, <1>2 DEF ItemsOf
<1>6. ItemsOf(b, type) \subseteq ItemsOf(a \o b, type)
  BY <1>1, <1>3 DEF ItemsOf
<1>7. ItemsOf(a \o b, type) \subseteq ItemsOf(a, type) \union ItemsOf(b, type)
  BY <1>4 DEF ItemsOf
<1> QED BY <1>5, <1>6, <1>7

LEMMA ItemsOne ==
    ASSUME NEW e \in EventType, NEW type
    PROVE  ItemsOf(<<e>>, type) = IF e.type = type THEN {e.item} ELSE {}
BY DEF ItemsOf

LEMMA ItemsTail ==
    ASSUME NEW s \in Seq(EventType), s # <<>>, NEW type
    PROVE  ItemsOf(s, type) = (IF Head(s).type = type THEN {Head(s).item} ELSE {}) \union ItemsOf(Tail(s), type)
<1>1. /\ s = <<Head(s)>> \o Tail(s) /\ Head(s) \in EventType /\ Tail(s) \in Seq(EventType)
      /\ <<Head(s)>> \in Seq(EventType)
  OBVIOUS
<1>2. ItemsOf(<<Head(s)>> \o Tail(s), type) = ItemsOf(<<Head(s)>>, type) \union ItemsOf(Tail(s), type)
  BY <1>1, ItemsConcat, ZenonT(40)
<1> QED BY <1>1, <1>2, ItemsOne

LEMMA NoTerminals ==
    ASSUME NEW a \in Seq(EventType), NEW b \in Seq(EventType), NoTerminal(a), NoTerminal(b)
    PROVE  NoTerminal(a \o b)
BY DEF NoTerminal

LEMMA EventTypes == ASSUME NEW n \in Nat PROVE Added(n) \in EventType /\ Done(n) \in EventType
BY DEF Added, Done, EventType

LEMMA CardTells ==
    ASSUME NEW n \in Nat
    PROVE  /\ CardEvents(n) \in Seq(EventType) /\ NoTerminal(CardEvents(n))
           /\ ItemsOf(CardEvents(n), "added") = {n} /\ ItemsOf(CardEvents(n), "done") = {n}
<1>1. CardEvents(n) = <<Added(n)>> \o <<Done(n)>> /\ <<Added(n)>> \in Seq(EventType) /\ <<Done(n)>> \in Seq(EventType)
  BY EventTypes DEF CardEvents
<1>2. \A type : ItemsOf(CardEvents(n), type) = ItemsOf(<<Added(n)>>, type) \union ItemsOf(<<Done(n)>>, type)
  <2> DEFINE a == <<Added(n)>>
             b == <<Done(n)>>
  <2>1. a \in Seq(EventType) /\ b \in Seq(EventType)
    BY <1>1
  <2> HIDE DEF a, b
  <2>2. \A type : ItemsOf(a \o b, type) = ItemsOf(a, type) \union ItemsOf(b, type)
    BY <2>1, ItemsConcat
  <2> QED BY <1>1, <2>2 DEF a, b
<1>3. /\ ItemsOf(<<Added(n)>>, "added") = {n} /\ ItemsOf(<<Added(n)>>, "done") = {}
      /\ ItemsOf(<<Done(n)>>, "added") = {} /\ ItemsOf(<<Done(n)>>, "done") = {n}
  BY EventTypes, ItemsOne DEF Added, Done
<1>4. NoTerminal(CardEvents(n))
  BY DEF NoTerminal, CardEvents, Added, Done
<1>5. CardEvents(n) \in Seq(EventType)
  BY <1>1, EventTypes DEF CardEvents
<1> QED BY <1>2, <1>3, <1>4, <1>5

(* Items are closed one after the other. *)
LEMMA DoneTells ==
    ASSUME NEW m \in Nat, NEW items \in SUBSET (1..m)
    PROVE  /\ DoneEvents(items) \in Seq(EventType) /\ NoTerminal(DoneEvents(items))
           /\ ItemsOf(DoneEvents(items), "added") = {} /\ ItemsOf(DoneEvents(items), "done") = items
<1> DEFINE num == Cardinality(items)
           Lists(f) == \A n \in items : \E k \in DOMAIN f : f[k] = n
           order == CHOOSE f \in [1..num -> items] : Lists(f)
           events == DoneEvents(items)
<1>1. IsFiniteSet(items) /\ num \in Nat
  <2>1. IsFiniteSet(1..m)
    BY FS_Interval
  <2> QED BY <2>1, FS_Subset, FS_CardinalityType
<1>2. \E f \in [1..num -> items] : Lists(f)
  <2>1. ExistsBijection(1..num, items)
    BY <1>1, FS_CardinalityType
  <2>2. PICK f \in Bijection(1..num, items) : TRUE
    BY <2>1 DEF ExistsBijection
  <2> QED BY <2>2 DEF Bijection, Surjection
<1>3. order \in [1..num -> items] /\ Lists(order)
  BY <1>2
<1>4. events = [k \in 1..num |-> Done(order[k])]
  BY DEF DoneEvents
<1> HIDE DEF order, events, num
<1>5. \A k \in 1..num : events[k] = Done(order[k]) /\ order[k] \in items /\ order[k] \in Nat
  <2>1. items \subseteq Nat
    OBVIOUS
  <2> QED BY <1>3, <1>4, <2>1
<1>6. DOMAIN events = 1..num /\ \A k \in 1..num : /\ events[k] \in EventType /\ events[k].type = "done"
                                                  /\ events[k].item = order[k]
  BY <1>4, <1>5, EventTypes DEF Done
<1>7. events \in Seq(EventType)
  BY <1>1, <1>4, <1>6
<1>8. NoTerminal(events)
  BY <1>6 DEF NoTerminal
<1>9. ItemsOf(events, "added") = {}
  BY <1>6 DEF ItemsOf
<1>10. ItemsOf(events, "done") = items
  <2>1. \A n \in items : \E k \in 1..num : order[k] = n
    BY <1>3
  <2>2. ASSUME NEW n \in items PROVE n \in ItemsOf(events, "done")
    <3>1. PICK k \in 1..num : order[k] = n
      BY <2>1
    <3>2. k \in DOMAIN events /\ events[k].type = "done" /\ events[k].item = n
      BY <1>6, <3>1
    <3> QED BY <3>2 DEF ItemsOf
  <2>3. ItemsOf(events, "done") \subseteq items
    BY <1>5, <1>6 DEF ItemsOf
  <2> QED BY <2>2, <2>3
<1> QED BY <1>7, <1>8, <1>9, <1>10 DEF events

-----------------------------------------------------------------------------
(* Items and their cards.                                                   *)
LEMMA KindsFinite ==
    ASSUME NEW out \in Seq(ItemType), NEW kind
    PROVE  IsFiniteSet(OfKind(out, kind)) /\ Cardinality(OfKind(out, kind)) \in Nat
<1>1. OfKind(out, kind) \subseteq 1..Len(out) /\ Len(out) \in Nat
  BY DEF OfKind
<1>2. IsFiniteSet(1..Len(out))
  BY <1>1, FS_Interval
<1> QED BY <1>1, <1>2, FS_Subset, FS_CardinalityType

LEMMA CountAppend ==
    ASSUME NEW out \in Seq(ItemType), NEW item \in ItemType, NEW kind
    PROVE  Cardinality(OfKind(Append(out, item), kind))
              = Cardinality(OfKind(out, kind)) + IF item.kind = kind THEN 1 ELSE 0
<1> DEFINE n == Len(out) + 1
           old == OfKind(out, kind)
<1>1. n \in Nat /\ n \notin DOMAIN out /\ DOMAIN Append(out, item) = DOMAIN out \union {n}
      /\ Append(out, item)[n] = item /\ \A k \in DOMAIN out : Append(out, item)[k] = out[k]
  OBVIOUS
<1>2. OfKind(Append(out, item), kind) = old \union (IF item.kind = kind THEN {n} ELSE {})
  BY <1>1 DEF OfKind
<1>3. n \notin old /\ IsFiniteSet(old) /\ Cardinality(old) \in Nat
  BY <1>1, KindsFinite DEF OfKind
<1> HIDE DEF old, n
<1>4. Cardinality(old \union {n}) = Cardinality(old) + 1
  BY <1>3, FS_AddElement
<1>5. CASE item.kind = kind
  <2>1. OfKind(Append(out, item), kind) = old \union {n}
    BY <1>2, <1>5
  <2> QED BY <1>4, <1>5, <2>1 DEF old
<1>6. CASE item.kind # kind
  <2>1. OfKind(Append(out, item), kind) = old
    BY <1>2, <1>6
  <2> QED BY <1>3, <1>6, <2>1 DEF old
<1> QED BY <1>5, <1>6

LEMMA SameKinds ==
    ASSUME NEW a, NEW b, DOMAIN b = DOMAIN a, \A n \in DOMAIN a : b[n].kind = a[n].kind, NEW kind
    PROVE  OfKind(b, kind) = OfKind(a, kind)
BY DEF OfKind

LEMMA CardSequence ==
    ASSUME NEW out \in Seq(ItemType), NEW n \in Nat
    PROVE  LET es == [k \in 1..(2 * n) |-> CardEvent(Len(out) + 1, k)] IN
           /\ es \in Seq(EventType) /\ NoTerminal(es)
           /\ ItemsOf(es, "added") = (Len(out) + 1)..(Len(out) + n)
           /\ ItemsOf(es, "done") = (Len(out) + 1)..(Len(out) + n)
<1> DEFINE first == Len(out) + 1
           es == [k \in 1..(2 * n) |-> CardEvent(first, k)]
<1>1. first \in Nat /\ first >= 1 /\ 2 * n \in Nat
  OBVIOUS
<1>2. \A q \in Nat : (2 * q + 1) % 2 = 1 /\ (2 * q + 1) \div 2 = q /\ (2 * q) % 2 = 0 /\ (2 * q) \div 2 = q
  OBVIOUS
<1>3. \A k \in 1..(2 * n) : (\E q \in 0..(n - 1) : k = 2 * q + 1) \/ (\E q \in 1..n : k = 2 * q)
  <2> SUFFICES ASSUME NEW k \in 1..(2 * n) PROVE (\E q \in 0..(n - 1) : k = 2 * q + 1) \/ (\E q \in 1..n : k = 2 * q)
    OBVIOUS
  <2>1. k % 2 \in 0..1 /\ k \div 2 \in Nat /\ k = 2 * (k \div 2) + (k % 2)
    OBVIOUS
  <2>2. CASE k % 2 = 0
    BY <2>1, <2>2
  <2>3. CASE k % 2 = 1
    BY <2>1, <2>3
  <2> QED BY <2>1, <2>2, <2>3
<1>4. \A q \in 0..(n - 1) : CardEvent(first, 2 * q + 1) = Added(first + q)
  BY <1>2 DEF CardEvent
<1>5. \A q \in 1..n : CardEvent(first, 2 * q) = Done(first + q - 1)
  BY <1>2 DEF CardEvent
<1>8. DOMAIN es = 1..(2 * n) /\ \A k \in 1..(2 * n) : es[k] = CardEvent(first, k)
  OBVIOUS
<1> HIDE DEF first, es
<1>6. \A k \in 1..(2 * n) : \/ \E m \in first..(first + n - 1) : k = 2 * (m - first) + 1 /\ es[k] = Added(m)
                            \/ \E m \in first..(first + n - 1) : k = 2 * (m - first) + 2 /\ es[k] = Done(m)
  <2> SUFFICES ASSUME NEW k \in 1..(2 * n)
               PROVE  \/ \E m \in first..(first + n - 1) : k = 2 * (m - first) + 1 /\ es[k] = Added(m)
                      \/ \E m \in first..(first + n - 1) : k = 2 * (m - first) + 2 /\ es[k] = Done(m)
    OBVIOUS
  <2>1. CASE \E q \in 0..(n - 1) : k = 2 * q + 1
    <3>1. PICK q \in 0..(n - 1) : k = 2 * q + 1
      BY <2>1
    <3> DEFINE m == first + q
    <3>2. m \in first..(first + n - 1) /\ k = 2 * (m - first) + 1
      BY <1>1, <3>1
    <3>3. es[k] = Added(m)
      BY <1>4, <1>8, <3>1
    <3> HIDE DEF m
    <3> QED BY <3>2, <3>3
  <2>2. CASE \E q \in 1..n : k = 2 * q
    <3>1. PICK q \in 1..n : k = 2 * q
      BY <2>2
    <3> DEFINE m == first + q - 1
    <3>2. m \in first..(first + n - 1) /\ k = 2 * (m - first) + 2
      BY <1>1, <3>1
    <3>3. es[k] = Done(m)
      BY <1>5, <1>8, <3>1
    <3> HIDE DEF m
    <3> QED BY <3>2, <3>3
  <2> QED BY <1>3, <2>1, <2>2
<1>7. \A m \in first..(first + n - 1) :
         /\ 2 * (m - first) + 1 \in 1..(2 * n) /\ es[2 * (m - first) + 1] = Added(m)
         /\ 2 * (m - first) + 2 \in 1..(2 * n) /\ es[2 * (m - first) + 2] = Done(m)
  <2> SUFFICES ASSUME NEW m \in first..(first + n - 1)
               PROVE  /\ 2 * (m - first) + 1 \in 1..(2 * n) /\ es[2 * (m - first) + 1] = Added(m)
                      /\ 2 * (m - first) + 2 \in 1..(2 * n) /\ es[2 * (m - first) + 2] = Done(m)
    OBVIOUS
  <2>1. PICK q \in 0..(n - 1) : m = first + q
    <3>1. m - first \in 0..(n - 1) /\ m = first + (m - first)
      BY <1>1
    <3> QED BY <3>1
  <2>2. 2 * (m - first) + 1 = 2 * q + 1 /\ 2 * (m - first) + 2 = 2 * (q + 1) /\ q + 1 \in 1..n
        /\ first + (q + 1) - 1 = m /\ 2 * q + 1 \in 1..(2 * n) /\ 2 * (q + 1) \in 1..(2 * n)
    BY <1>1, <2>1
  <2>3. CardEvent(first, 2 * q + 1) = Added(m) /\ CardEvent(first, 2 * (q + 1)) = Done(m)
    BY <1>4, <1>5, <2>1, <2>2
  <2> QED BY <1>8, <2>2, <2>3
<1>9. \A k \in DOMAIN es : es[k] \in EventType /\ es[k].type # "terminal" /\ es[k].item \in first..(first + n - 1)
  <2>1. \A m \in first..(first + n - 1) : Added(m) \in EventType /\ Done(m) \in EventType
    BY <1>1, EventTypes
  <2> SUFFICES ASSUME NEW k \in 1..(2 * n)
               PROVE  es[k] \in EventType /\ es[k].type # "terminal" /\ es[k].item \in first..(first + n - 1)
    BY <1>8
  <2>2. CASE \E m \in first..(first + n - 1) : es[k] = Added(m)
    BY <2>1, <2>2 DEF Added
  <2>3. CASE \E m \in first..(first + n - 1) : es[k] = Done(m)
    BY <2>1, <2>3 DEF Done
  <2> QED BY <1>6, <2>2, <2>3
<1>10. es \in Seq(EventType)
  <2>1. es = [k \in 1..(2 * n) |-> es[k]]
    BY DEF es
  <2> QED BY <1>1, <1>8, <1>9, <2>1
<1>11. NoTerminal(es)
  BY <1>9 DEF NoTerminal
<1>12. ItemsOf(es, "added") = first..(first + n - 1)
  <2>1. ItemsOf(es, "added") \subseteq first..(first + n - 1)
    BY <1>9 DEF ItemsOf
  <2>2. ASSUME NEW m \in first..(first + n - 1) PROVE m \in ItemsOf(es, "added")
    <3> DEFINE k == 2 * (m - first) + 1
    <3>1. k \in 1..(2 * n) /\ es[k] = Added(m)
      BY <1>7
    <3> HIDE DEF k
    <3>2. k \in DOMAIN es /\ es[k].type = "added" /\ es[k].item = m
      BY <1>8, <3>1 DEF Added
    <3> QED BY <3>2 DEF ItemsOf
  <2> QED BY <2>1, <2>2
<1>13. ItemsOf(es, "done") = first..(first + n - 1)
  <2>1. ItemsOf(es, "done") \subseteq first..(first + n - 1)
    BY <1>9 DEF ItemsOf
  <2>2. ASSUME NEW m \in first..(first + n - 1) PROVE m \in ItemsOf(es, "done")
    <3> DEFINE k == 2 * (m - first) + 2
    <3>1. k \in 1..(2 * n) /\ es[k] = Done(m)
      BY <1>7
    <3> HIDE DEF k
    <3>2. k \in DOMAIN es /\ es[k].type = "done" /\ es[k].item = m
      BY <1>8, <3>1 DEF Done
    <3> QED BY <3>2 DEF ItemsOf
  <2> QED BY <2>1, <2>2
<1>14. first..(first + n - 1) = (Len(out) + 1)..(Len(out) + n)
  BY DEF first
<1> QED BY <1>10, <1>11, <1>12, <1>13, <1>14 DEF es, first

LEMMA CardsTell ==
    ASSUME NEW out \in Seq(ItemType), NEW events \in Seq(EventType), NoTerminal(events), NEW n \in Nat,
           NEW c, c = Cards(out, events, n)
    PROVE  /\ c[1] \in Seq(ItemType) /\ c[2] \in Seq(EventType) /\ NoTerminal(c[2])
           /\ DOMAIN c[1] = DOMAIN out \union ((Len(out) + 1)..(Len(out) + n))
           /\ \A k \in DOMAIN out : c[1][k] = out[k]
           /\ \A k \in (Len(out) + 1)..(Len(out) + n) : c[1][k].status = "completed"
           /\ Cardinality(OfKind(c[1], "asked")) = Cardinality(OfKind(out, "asked"))
           /\ Cardinality(OfKind(c[1], "answered")) = Cardinality(OfKind(out, "answered")) + n
           /\ ItemsOf(c[2], "added") = ItemsOf(events, "added") \union ((Len(out) + 1)..(Len(out) + n))
           /\ ItemsOf(c[2], "done") = ItemsOf(events, "done") \union ((Len(out) + 1)..(Len(out) + n))
<1> DEFINE cards == [k \in 1..n |-> ResultCard]
           es == [k \in 1..(2 * n) |-> CardEvent(Len(out) + 1, k)]
           more == (Len(out) + 1)..(Len(out) + n)
<1>1. c[1] = out \o cards /\ c[2] = events \o es
  BY DEF Cards
<1>2. /\ es \in Seq(EventType) /\ NoTerminal(es) /\ ItemsOf(es, "added") = more /\ ItemsOf(es, "done") = more
  BY CardSequence
<1> HIDE DEF es
<1>3. /\ c[2] \in Seq(EventType) /\ NoTerminal(c[2])
      /\ ItemsOf(c[2], "added") = ItemsOf(events, "added") \union more
      /\ ItemsOf(c[2], "done") = ItemsOf(events, "done") \union more
  BY <1>1, <1>2, ItemsConcat, NoTerminals
<1>4. ResultCard \in ItemType /\ ResultCard.status = "completed" /\ ResultCard.kind = "answered"
  BY DEF ResultCard, ItemType, ItemKinds
<1>5. cards \in Seq(ItemType) /\ Len(cards) = n /\ \A k \in 1..n : cards[k] = ResultCard
  BY <1>4
<1> HIDE DEF cards
<1>6. /\ c[1] \in Seq(ItemType) /\ DOMAIN c[1] = 1..(Len(out) + n) /\ DOMAIN out = 1..Len(out) /\ Len(out) \in Nat
  <2>1. \A a, b \in Seq(ItemType) : a \o b \in Seq(ItemType) /\ DOMAIN (a \o b) = 1..(Len(a) + Len(b))
    OBVIOUS
  <2>2. c[1] \in Seq(ItemType) /\ DOMAIN c[1] = 1..(Len(out) + n)
    BY <1>1, <1>5, <2>1
  <2> QED BY <2>2
<1>7. DOMAIN c[1] = DOMAIN out \union more /\ DOMAIN out \intersect more = {}
  BY <1>6
<1>8. \A k \in DOMAIN out : c[1][k] = out[k]
  BY <1>1, <1>5
<1>9. \A k \in more : c[1][k] = ResultCard
  <2> SUFFICES ASSUME NEW k \in more PROVE c[1][k] = ResultCard
    OBVIOUS
  <2>1. k - Len(out) \in 1..n /\ k \in 1..(Len(out) + n) /\ k > Len(out)
    BY <1>6
  <2>2. (out \o cards)[k] = cards[k - Len(out)]
    BY <1>5, <1>6, <2>1
  <2> QED BY <1>1, <1>5, <2>1, <2>2
<1> HIDE DEF more
<1>10. OfKind(c[1], "asked") = OfKind(out, "asked")
  BY <1>4, <1>7, <1>8, <1>9 DEF OfKind
<1>11. OfKind(c[1], "answered") = OfKind(out, "answered") \union more
  BY <1>4, <1>7, <1>8, <1>9 DEF OfKind
<1>12. Cardinality(OfKind(c[1], "answered")) = Cardinality(OfKind(out, "answered")) + n
  <2> DEFINE old == OfKind(out, "answered")
  <2>1. IsFiniteSet(old) /\ Cardinality(old) \in Nat
    BY KindsFinite
  <2>2. IsFiniteSet(more) /\ Cardinality(more) = n
    BY <1>6, FS_Interval DEF more
  <2>3. old \intersect more = {}
    BY <1>7 DEF OfKind
  <2> HIDE DEF old
  <2>4. Cardinality(old \union more) = Cardinality(old) + Cardinality(more) - Cardinality({})
    BY <2>1, <2>2, <2>3, FS_Union
  <2>5. Cardinality({}) = 0
    BY FS_EmptySet
  <2>6. Cardinality(old \union more) = Cardinality(old) + n
    BY <2>1, <2>2, <2>4, <2>5
  <2> QED BY <1>11, <2>6 DEF old
<1>13. /\ Cardinality(OfKind(c[1], "asked")) = Cardinality(OfKind(out, "asked"))
       /\ \A k \in more : c[1][k].status = "completed"
  BY <1>4, <1>9, <1>10
<1> QED BY ONLY <1>3, <1>6, <1>7, <1>8, <1>12, <1>13 DEF more

-----------------------------------------------------------------------------
(* Steps.                                                                   *)
LEMMA MarkedType ==
    ASSUME NEW out \in Seq(ItemType), NEW status
    PROVE  /\ Marked(out, status) \in Seq(ItemType)
           /\ Closed(out) => Marked(out, status) = out
<1>1. \A n \in DOMAIN out : out[n] \in ItemType
  OBVIOUS
<1>2. \A n \in DOMAIN out : Marked(out, status)[n] \in ItemType
  BY <1>1 DEF Marked, ItemType
<1>3. DOMAIN out = 1..Len(out) /\ Len(out) \in Nat
  OBVIOUS
<1>4. Marked(out, status) \in Seq(ItemType)
  <2>1. Marked(out, status) = [n \in 1..Len(out) |-> Marked(out, status)[n]]
    BY <1>3 DEF Marked
  <2> DEFINE marked == Marked(out, status)
  <2>2. \A n \in 1..Len(out) : marked[n] \in ItemType
    BY <1>2, <1>3
  <2>3. marked = [n \in 1..Len(out) |-> marked[n]]
    BY <2>1
  <2> HIDE DEF marked
  <2>4. marked \in Seq(ItemType)
    BY <1>3, <2>2, <2>3
  <2> QED BY <2>4 DEF marked
<1>5. ASSUME Closed(out) PROVE Marked(out, status) = out
  BY <1>5 DEF Marked, Closed
<1> QED BY <1>4, <1>5

LEMMA TerminalTells ==
    /\ Terminal \in EventType /\ <<Terminal>> \in Seq(EventType)
    /\ ItemsOf(<<Terminal>>, "added") = {} /\ ItemsOf(<<Terminal>>, "done") = {}
<1>1. Terminal \in EventType
  BY DEF Terminal, EventType
<1>2. \A type : ItemsOf(<<Terminal>>, type) = IF Terminal.type = type THEN {Terminal.item} ELSE {}
  BY <1>1, ItemsOne
<1>3. Terminal.type = "terminal"
  BY DEF Terminal
<1>4. <<Terminal>> \in Seq(EventType)
  BY <1>1
<1> QED BY <1>1, <1>2, <1>3, <1>4

(* A failed answer promises nothing. *)
LEMMA FailedInv == AnswerTypes /\ answer = "failed" => AnsInv
BY DEF AnsInv, Going

LEMMA ThrowKeeps == ASSUME AnsInv, Throw PROVE AnsInv'
<1>1. AnswerTypes
  BY DEF AnsInv
<1>2. /\ answer' = "failed" /\ output' = Marked(output, "failed") /\ due' = <<>> \o <<Terminal>> /\ kept' = <<>>
      /\ told' = [told EXCEPT !.hole = @ \/ kept # <<>>] /\ UNCHANGED <<leg, absorbed, legs>>
  BY DEF Throw, Finishes
<1>3. output' \in Seq(ItemType) /\ due' \in Seq(EventType) /\ kept' \in Seq(EventType)
  BY <1>1, <1>2, MarkedType, TerminalTells DEF AnswerTypes
<1>4. told' \in ToldType
  BY <1>1, <1>2 DEF AnswerTypes, ToldType
<1>5. AnswerTypes'
  BY <1>1, <1>2, <1>3, <1>4 DEF AnswerTypes, Finals
<1> QED BY <1>2, <1>5, FailedInv DEF AnsInv, Going

LEMMA LeaveKeeps == ASSUME AnsInv, Leave PROVE AnsInv'
<1>1. AnswerTypes
  BY DEF AnsInv
<1>2. /\ answer' = "failed" /\ output' = Marked(output, "failed") /\ due' = <<>> /\ kept' = <<>>
      /\ told' = [told EXCEPT !.over = TRUE] /\ UNCHANGED <<leg, absorbed, legs>>
  BY DEF Leave
<1>3. output' \in Seq(ItemType) /\ told' \in ToldType
  BY <1>1, <1>2, MarkedType DEF AnswerTypes, ToldType
<1>4. AnswerTypes'
  BY <1>1, <1>2, <1>3 DEF AnswerTypes, Finals
<1> QED BY <1>2, <1>4 DEF AnsInv, Going

(* A frame that is taken. *)
LEMMA FrameKeeps ==
    ASSUME AnsInv, Reads, answer' = answer, UNCHANGED <<told, kept, legs>>, leg' \in LegType,
           output' \in Seq(ItemType), due' \in Seq(EventType), NoTerminal(due'), Blocked(leg'.blocks, output'),
           Shows(told, due', <<>>, output'), absorbed' \in AbsorbType, absorbed'.done = 0,
           legs < MaxContinued => absorbed'.narrated = absorbed'.pending, Answered(output', absorbed')
    PROVE  AnsInv'
<1>1. answer = "open" /\ kept = <<>> /\ ~told.over /\ ~told.hole
  BY DEF Reads, AnsInv, Going
<1>2. AnswerTypes'
  BY DEF AnsInv, AnswerTypes
<1>3. Shows(told', due', kept', output')
  BY <1>1
<1>4. NoTerminal(kept')
  BY <1>1 DEF NoTerminal
<1> QED BY <1>1, <1>2, <1>3, <1>4 DEF AnsInv, Going

LEMMA LegTyped ==
    ASSUME AnsInv
    PROVE  /\ leg.blocks \in BlockTypes /\ Used \subseteq Indexes /\ leg.blocks \in [Used -> BlockType]
           /\ leg = [started |-> leg.started, reason |-> leg.reason, blocks |-> leg.blocks]
           /\ leg.started \in BOOLEAN /\ leg.reason \in Reasons \union {NoReason}
BY DEF AnsInv, AnswerTypes, LegType, BlockTypes, Used

(* Nothing but the start or the reason. *)
LEMMA QuietKeeps ==
    ASSUME AnsInv, Reads, Quiet, UNCHANGED <<output, due>>, leg' \in LegType, leg'.blocks = leg.blocks
    PROVE  AnsInv'
<1>1. due = <<>> /\ answer = "open"
  BY DEF Reads
<1>2. /\ Shows(told, due', <<>>, output') /\ Answered(output', absorbed') /\ absorbed' \in AbsorbType
      /\ Blocked(leg'.blocks, output') /\ absorbed'.done = 0
      /\ legs < MaxContinued => absorbed'.narrated = absorbed'.pending
  BY <1>1 DEF AnsInv, AnswerTypes, Going, Quiet
<1>3. output' \in Seq(ItemType) /\ due' \in Seq(EventType) /\ NoTerminal(due')
  BY <1>1 DEF AnsInv, AnswerTypes, NoTerminal
<1> QED BY <1>2, <1>3, FrameKeeps DEF Quiet

LEMMA StartKeeps == ASSUME AnsInv, MessageStart PROVE AnsInv'
<1>1. CASE leg.started
  BY <1>1, ThrowKeeps DEF MessageStart
<1>2. CASE ~leg.started
  <2>1. leg' = [leg EXCEPT !.started = TRUE] /\ Reads /\ Quiet /\ UNCHANGED <<output, due>>
    BY <1>2 DEF MessageStart
  <2>2. leg' \in LegType /\ leg'.blocks = leg.blocks
    BY <2>1, LegTyped DEF LegType
  <2> QED BY <2>1, <2>2, QuietKeeps
<1> QED BY <1>1, <1>2

LEMMA DeltaKeeps ==
    ASSUME AnsInv, NEW i, NEW fits, Delta(i, fits) \/ (\E r \in Reasons : MessageDelta(r)) PROVE AnsInv'
<1>1. CASE Throw
  BY <1>1, ThrowKeeps
<1>2. CASE Delta(i, fits) /\ ~Throw
  <2>1. Reads /\ Quiet /\ UNCHANGED <<leg, output, due>>
    BY <1>2 DEF Delta
  <2> QED BY <2>1, LegTyped, QuietKeeps DEF LegType
<1>3. ASSUME NEW r \in Reasons, MessageDelta(r), ~Throw PROVE AnsInv'
  <2>1. leg' = [leg EXCEPT !.reason = r] /\ Reads /\ Quiet /\ UNCHANGED <<output, due>>
    BY <1>3 DEF MessageDelta
  <2>2. leg' \in LegType /\ leg'.blocks = leg.blocks
    BY <2>1, LegTyped DEF LegType
  <2> QED BY <2>1, <2>2, QuietKeeps
<1> QED BY <1>1, <1>2, <1>3

(* A block is added. *)
LEMMA PutTyped ==
    ASSUME AnsInv, NEW i \in Indexes, i \notin Used, NEW b \in BlockType, Put(i, b)
    PROVE  /\ leg' \in LegType /\ DOMAIN leg'.blocks = Used \union {i} /\ leg'.blocks[i] = b
           /\ \A j \in Used : leg'.blocks[j] = leg.blocks[j]
<1> DEFINE new == [j \in Used \union {i} |-> IF j = i THEN b ELSE leg.blocks[j]]
<1>1. new \in [Used \union {i} -> BlockType] /\ Used \union {i} \in SUBSET Indexes
  BY LegTyped
<1>2. new \in BlockTypes
  BY <1>1 DEF BlockTypes
<1>3. DOMAIN new = Used \union {i} /\ new[i] = b /\ \A j \in Used : new[j] = leg.blocks[j]
  OBVIOUS
<1>4. leg' = [leg EXCEPT !.blocks = new]
  BY DEF Put
<1> HIDE DEF new
<1>5. leg' \in LegType /\ leg'.blocks = new
  BY <1>2, <1>4, LegTyped DEF LegType
<1> QED BY <1>3, <1>5

LEMMA BlockTyped ==
    ASSUME NEW kind \in Kinds, NEW n \in Nat, NEW j \in Indexes
    PROVE  Block(kind, n) \in BlockType /\ [Block(kind, n) EXCEPT !.of = j] \in BlockType
BY DEF Block, BlockType

LEMMA BlockStartKeeps ==
    ASSUME AnsInv, NEW i \in Indexes, NEW kind \in Kinds, BlockStart(i, kind) PROVE AnsInv'
<1>1. Reads /\ due = <<>> /\ answer = "open"
  BY DEF BlockStart, Reads
<1>2. Blocked(leg.blocks, output) /\ Shows(told, <<>>, <<>>, output) /\ output \in Seq(ItemType)
      /\ absorbed \in AbsorbType /\ absorbed.done = 0 /\ Answered(output, absorbed)
      /\ (legs < MaxContinued => absorbed.narrated = absorbed.pending)
  BY <1>1 DEF AnsInv, AnswerTypes, Going
<1>3. CASE ~leg.started \/ i \in Used
  BY <1>3, ThrowKeeps DEF BlockStart
<1> DEFINE aside == kind \in {"gateway", "unknown"} \/ (kind = "result" /\ OpenSearches = {})
<1>4. CASE leg.started /\ i \notin Used /\ aside
  <2> DEFINE b == Block(IF kind = "gateway" THEN kind ELSE "unknown", 0)
  <2>1. Put(i, b) /\ Quiet /\ UNCHANGED <<output, due>>
    BY <1>4 DEF BlockStart
  <2>2. b \in BlockType /\ b.kind \in {"gateway", "unknown"}
    BY DEF Block, BlockType, Kinds
  <2> HIDE DEF b
  <2>3. leg' \in LegType /\ Blocked(leg'.blocks, output')
    BY <1>2, <1>4, <2>1, <2>2, PutTyped DEF Blocked, Used
  <2> QED BY <1>1, <1>2, <2>1, <2>3, FrameKeeps DEF Quiet, NoTerminal
<1>5. CASE leg.started /\ i \notin Used /\ ~aside /\ kind = "result"
  <2>1. PICK j \in OpenSearches : Put(i, [Block(kind, 0) EXCEPT !.of = j])
    BY <1>5 DEF BlockStart
  <2>2. Quiet /\ UNCHANGED <<output, due>>
    BY <1>5 DEF BlockStart
  <2> DEFINE b == [Block(kind, 0) EXCEPT !.of = j]
  <2>3. j \in Used /\ leg.blocks[j].kind = "search" /\ j \in Indexes
    BY LegTyped DEF OpenSearches
  <2>4. b \in BlockType /\ b.kind = "result" /\ b.of = j
    BY <1>5, <2>3 DEF Block, BlockType, Kinds
  <2>5. Put(i, b)
    BY <2>1
  <2> HIDE DEF b
  <2>6. /\ leg' \in LegType /\ DOMAIN leg'.blocks = Used \union {i} /\ leg'.blocks[i] = b
        /\ \A k \in Used : leg'.blocks[k] = leg.blocks[k]
    BY <1>5, <2>4, <2>5, PutTyped
  <2>7. Blocked(leg'.blocks, output')
    BY <1>2, <1>5, <2>2, <2>3, <2>4, <2>6 DEF Blocked, Used
  <2> QED BY <1>1, <1>2, <2>2, <2>6, <2>7, FrameKeeps DEF Quiet, NoTerminal
<1>6. CASE leg.started /\ i \notin Used /\ ~aside /\ kind # "result"
  <2> DEFINE n == Len(output) + 1
             b == Block(kind, n)
             item == [kind |-> kind, status |-> "in_progress"]
  <2>1. Put(i, b) /\ Quiet /\ output' = Append(output, item) /\ due' = <<Added(n)>>
    BY <1>6 DEF BlockStart, Emit
  <2>2. n \in Nat /\ DOMAIN output' = DOMAIN output \union {n} /\ n \notin DOMAIN output
        /\ output'[n] = item /\ \A k \in DOMAIN output : output'[k] = output[k]
    BY <1>2, <2>1
  <2>3. item \in ItemType /\ output' \in Seq(ItemType)
    BY <1>2, <2>1 DEF ItemType, ItemKinds
  <2>4. b \in BlockType /\ b.item = n /\ b.kind = kind /\ ~b.stopped /\ ~b.arrived
    BY <2>2 DEF Block, BlockType
  <2>5. kind \in {"text", "thinking", "call", "search"}
    BY <1>6 DEF Kinds
  <2>6. OpenBlock(b)
    BY <2>4, <2>5 DEF OpenBlock
  <2>7. due' \in Seq(EventType) /\ NoTerminal(due') /\ ItemsOf(due', "added") = {n} /\ ItemsOf(due', "done") = {}
    <3>1. Added(n) \in EventType /\ Added(n).type = "added" /\ Added(n).item = n
      BY <2>2, EventTypes DEF Added
    <3> DEFINE e == Added(n)
    <3> HIDE DEF e, n
    <3>2. ItemsOf(<<e>>, "added") = {n} /\ ItemsOf(<<e>>, "done") = {}
      BY <3>1, ItemsOne DEF e
    <3>3. <<e>> \in Seq(EventType) /\ NoTerminal(<<e>>)
      BY <3>1 DEF NoTerminal, e
    <3> QED BY <2>1, <3>2, <3>3 DEF e
  <2>8. Answered(output', absorbed')
    <3>1. item.kind = kind /\ absorbed' = absorbed
      BY <2>1 DEF Quiet
    <3>2. \A k \in {"asked", "answered"} : Cardinality(OfKind(output', k)) = Cardinality(OfKind(output, k)) + 0
      BY <1>2, <2>1, <2>3, <2>5, <3>1, CountAppend
    <3>3. \A k \in {"asked", "answered"} : Cardinality(OfKind(output', k)) = Cardinality(OfKind(output, k))
      BY <1>2, <3>2, KindsFinite
    <3> QED BY <1>2, <3>1, <3>3 DEF Answered
  <2> HIDE DEF b, n, item
  <2>9. leg' \in LegType /\ Blocked(leg'.blocks, output')
    <3>1. /\ leg' \in LegType /\ DOMAIN leg'.blocks = Used \union {i} /\ leg'.blocks[i] = b
          /\ \A j \in Used : leg'.blocks[j] = leg.blocks[j]
      BY <1>6, <2>1, <2>4, PutTyped
    <3> QED BY <1>2, <1>6, <2>2, <2>4, <2>5, <2>6, <3>1 DEF Blocked, Used
  <2>10. Shows(told, due', <<>>, output')
    BY <1>2, <2>2, <2>7, NoItems DEF Shows, item
  <2> QED BY <1>1, <1>2, <2>1, <2>3, <2>7, <2>8, <2>9, <2>10, FrameKeeps DEF Quiet
<1> QED BY <1>3, <1>4, <1>5, <1>6

(* One field of a block changes. *)
LEMMA BlockChanges ==
    ASSUME AnsInv, NEW i \in Used, NEW b \in BlockType, leg' = [leg EXCEPT !.blocks[i] = b]
    PROVE  /\ leg' \in LegType /\ DOMAIN leg'.blocks = Used /\ leg'.blocks[i] = b
           /\ \A j \in Used \ {i} : leg'.blocks[j] = leg.blocks[j]
<1> DEFINE new == [leg.blocks EXCEPT ![i] = b]
<1>1. new \in [Used -> BlockType] /\ Used \in SUBSET Indexes
  BY LegTyped
<1>2. new \in BlockTypes
  BY <1>1 DEF BlockTypes
<1>3. DOMAIN new = Used /\ new[i] = b /\ \A j \in Used \ {i} : new[j] = leg.blocks[j]
  BY LegTyped DEF Used
<1>4. leg' = [leg EXCEPT !.blocks = new]
  OBVIOUS
<1> HIDE DEF new
<1>5. leg' \in LegType /\ leg'.blocks = new
  BY <1>2, <1>4, LegTyped DEF LegType
<1> QED BY <1>3, <1>5

LEMMA Stopping ==
    ASSUME AnsInv, NEW i \in Used, Stopped(i)
    PROVE  /\ leg' \in LegType /\ DOMAIN leg'.blocks = Used
           /\ leg'.blocks[i] = [leg.blocks[i] EXCEPT !.stopped = TRUE]
           /\ \A j \in Used \ {i} : leg'.blocks[j] = leg.blocks[j]
<1> DEFINE b == [leg.blocks[i] EXCEPT !.stopped = TRUE]
<1>1. b \in BlockType
  BY LegTyped DEF BlockType
<1>2. leg' = [leg EXCEPT !.blocks[i] = b]
  BY DEF Stopped
<1> HIDE DEF b
<1>3. /\ leg' \in LegType /\ DOMAIN leg'.blocks = Used /\ leg'.blocks[i] = b
      /\ \A j \in Used \ {i} : leg'.blocks[j] = leg.blocks[j]
  BY <1>1, <1>2, BlockChanges
<1> QED BY <1>3 DEF b

(* Blocks and items that differ in one item that is closed. *)
LEMMA SameBlocks ==
    ASSUME NEW old, NEW new, NEW a, NEW b, NEW n, Blocked(old, a), DOMAIN new = DOMAIN old, DOMAIN b = DOMAIN a,
           \A j \in DOMAIN old : new[j].kind = old[j].kind /\ new[j].item = old[j].item /\ new[j].of = old[j].of,
           \A j \in DOMAIN old : OpenBlock(old[j]) => OpenBlock(new[j]) \/ old[j].item = n,
           \A k \in DOMAIN a : b[k].status = "in_progress" => a[k].status = "in_progress" /\ k # n
    PROVE  Blocked(new, b)
<1>1. \A i \in DOMAIN new : new[i].kind \in {"text", "thinking", "call", "search"} => new[i].item \in DOMAIN b
  BY DEF Blocked
<1>2. ASSUME NEW i \in DOMAIN new, new[i].kind = "result"
      PROVE  new[i].of \in DOMAIN new /\ new[new[i].of].kind = "search"
  <2>1. old[i].of \in DOMAIN old /\ old[old[i].of].kind = "search"
    BY <1>2 DEF Blocked
  <2> QED BY <1>2, <2>1
<1>3. ASSUME NEW k \in DOMAIN b, b[k].status = "in_progress"
      PROVE  \E i \in DOMAIN new : new[i].item = k /\ OpenBlock(new[i])
  <2>1. PICK i \in DOMAIN old : old[i].item = k /\ OpenBlock(old[i])
    BY <1>3 DEF Blocked
  <2> QED BY <1>3, <2>1
<1> QED BY <1>1, <1>2, <1>3 DEF Blocked

(* An item is closed. *)
LEMMA ClosingKeeps ==
    ASSUME AnsInv, Reads, Quiet, NEW n \in DOMAIN output, ClosesItem(n, "completed"), Emit(<<Done(n)>>),
           leg' \in LegType, DOMAIN leg'.blocks = Used,
           \A j \in Used : /\ leg'.blocks[j].kind = leg.blocks[j].kind
                           /\ leg'.blocks[j].item = leg.blocks[j].item
                           /\ leg'.blocks[j].of = leg.blocks[j].of
                           /\ OpenBlock(leg.blocks[j]) => OpenBlock(leg'.blocks[j]) \/ leg.blocks[j].item = n
    PROVE  AnsInv'
<1>1. due = <<>> /\ answer = "open" /\ output \in Seq(ItemType) /\ absorbed' = absorbed
  BY DEF Reads, AnsInv, AnswerTypes, Quiet
<1>2. Blocked(leg.blocks, output) /\ Shows(told, <<>>, <<>>, output) /\ Answered(output, absorbed)
      /\ absorbed \in AbsorbType /\ absorbed.done = 0
      /\ (legs < MaxContinued => absorbed.narrated = absorbed.pending)
  BY <1>1 DEF AnsInv, AnswerTypes, Going
<1>3. output' = [output EXCEPT ![n].status = "completed"]
  BY DEF ClosesItem
<1>4. output[n] \in ItemType /\ n \in Nat
  BY <1>1
<1>5. [output[n] EXCEPT !.status = "completed"] \in ItemType
  BY <1>4 DEF ItemType
<1>6. /\ output' \in Seq(ItemType) /\ DOMAIN output' = DOMAIN output
      /\ \A k \in DOMAIN output : output'[k].kind = output[k].kind
      /\ output'[n].status = "completed" /\ \A k \in DOMAIN output \ {n} : output'[k] = output[k]
  <2>1. output' = [output EXCEPT ![n] = [output[n] EXCEPT !.status = "completed"]]
    BY <1>3
  <2>2. output' \in Seq(ItemType)
    BY <1>1, <1>5, <2>1
  <2>3. DOMAIN output' = DOMAIN output /\ output'[n] = [output[n] EXCEPT !.status = "completed"]
        /\ \A k \in DOMAIN output \ {n} : output'[k] = output[k]
    BY <1>1, <2>1
  <2>4. output'[n].kind = output[n].kind /\ output'[n].status = "completed"
    BY <1>4, <2>3 DEF ItemType
  <2> QED BY <2>2, <2>3, <2>4
<1>7. Answered(output', absorbed')
  BY <1>1, <1>2, <1>6, SameKinds DEF Answered
<1>8. Blocked(leg'.blocks, output')
  <2> DEFINE old == leg.blocks
             new == leg'.blocks
             out == output'
  <2>1. /\ Blocked(old, output) /\ DOMAIN new = DOMAIN old /\ DOMAIN out = DOMAIN output
        /\ \A j \in DOMAIN old : new[j].kind = old[j].kind /\ new[j].item = old[j].item /\ new[j].of = old[j].of
        /\ \A j \in DOMAIN old : OpenBlock(old[j]) => OpenBlock(new[j]) \/ old[j].item = n
        /\ \A k \in DOMAIN output : out[k].status = "in_progress" => output[k].status = "in_progress" /\ k # n
    BY <1>2, <1>6 DEF Used
  <2> HIDE DEF old, new, out
  <2>2. Blocked(new, out)
    BY <2>1, SameBlocks, SMTT(40)
  <2> QED BY <2>2 DEF new, out
<1>9. due' \in Seq(EventType) /\ NoTerminal(due') /\ ItemsOf(due', "added") = {} /\ ItemsOf(due', "done") = {n}
  <2> DEFINE e == Done(n)
  <2>1. e \in EventType /\ e.type = "done" /\ e.item = n
    BY <1>4, EventTypes DEF Done
  <2>2. due' = <<e>>
    BY DEF Emit
  <2> HIDE DEF e
  <2>3. ItemsOf(<<e>>, "added") = {} /\ ItemsOf(<<e>>, "done") = {n}
    BY <2>1, ItemsOne
  <2> QED BY <2>1, <2>2, <2>3 DEF NoTerminal
<1>10. Shows(told, due', <<>>, output')
  <2>1. told.added = DOMAIN output /\ told.done \subseteq DOMAIN output
        /\ \A k \in DOMAIN output : output[k].status # "in_progress" => k \in told.done
    BY <1>2, NoItems DEF Shows
  <2>2. \A k \in DOMAIN output' : output'[k].status # "in_progress" => k \in told.done \union {n}
    BY <1>6, <2>1
  <2> QED BY <1>6, <1>9, <2>1, <2>2, NoItems DEF Shows
<1> QED BY <1>1, <1>2, <1>6, <1>7, <1>8, <1>9, <1>10, FrameKeeps DEF Quiet

LEMMA StillOpen ==
    ASSUME NEW old, NEW new, NEW out, Blocked(old, out), DOMAIN new = DOMAIN old,
           \A j \in DOMAIN old : /\ new[j].kind = old[j].kind /\ new[j].item = old[j].item /\ new[j].of = old[j].of
                                 /\ OpenBlock(old[j]) => OpenBlock(new[j])
    PROVE  Blocked(new, out)
<1>1. \A i \in DOMAIN new : new[i].kind \in {"text", "thinking", "call", "search"} => new[i].item \in DOMAIN out
  BY DEF Blocked
<1>2. ASSUME NEW i \in DOMAIN new, new[i].kind = "result"
      PROVE  new[i].of \in DOMAIN new /\ new[new[i].of].kind = "search"
  <2>1. old[i].of \in DOMAIN old /\ old[old[i].of].kind = "search"
    BY <1>2 DEF Blocked
  <2> QED BY <1>2, <2>1
<1>3. ASSUME NEW k \in DOMAIN out, out[k].status = "in_progress"
      PROVE  \E i \in DOMAIN new : new[i].item = k /\ OpenBlock(new[i])
  <2>1. PICK i \in DOMAIN old : old[i].item = k /\ OpenBlock(old[i])
    BY <1>3 DEF Blocked
  <2> QED BY <1>3, <2>1
<1> QED BY <1>1, <1>2, <1>3 DEF Blocked

LEMMA UnclosedBlocks ==
    ASSUME NEW i \in Used, Blocked(leg.blocks, output), DOMAIN leg'.blocks = Used,
           leg'.blocks[i].kind = leg.blocks[i].kind, leg'.blocks[i].item = leg.blocks[i].item,
           leg'.blocks[i].of = leg.blocks[i].of, OpenBlock(leg.blocks[i]) => OpenBlock(leg'.blocks[i]),
           \A j \in Used \ {i} : leg'.blocks[j] = leg.blocks[j]
    PROVE  Blocked(leg'.blocks, output)
<1> DEFINE old == leg.blocks
           new == leg'.blocks
<1>1. \A j \in DOMAIN old : /\ new[j].kind = old[j].kind /\ new[j].item = old[j].item /\ new[j].of = old[j].of
                            /\ OpenBlock(old[j]) => OpenBlock(new[j])
  BY DEF Used
<1>2. Blocked(old, output) /\ DOMAIN new = DOMAIN old
  BY DEF Used
<1> HIDE DEF old, new
<1>3. Blocked(new, output)
  BY <1>1, <1>2, StillOpen
<1> QED BY <1>3 DEF new

LEMMA BlockStopKeeps ==
    ASSUME AnsInv, NEW i \in Indexes, NEW whole \in BOOLEAN, BlockStop(i, whole) PROVE AnsInv'
<1> DEFINE b == leg.blocks[i]
           s == leg.blocks[b.of]
<1>1. Reads /\ due = <<>> /\ answer = "open"
  BY DEF BlockStop, Reads
<1>2. Blocked(leg.blocks, output) /\ Shows(told, <<>>, <<>>, output) /\ output \in Seq(ItemType)
      /\ absorbed \in AbsorbType /\ absorbed.done = 0 /\ Answered(output, absorbed)
      /\ (legs < MaxContinued => absorbed.narrated = absorbed.pending)
  BY <1>1 DEF AnsInv, AnswerTypes, Going
<1>3. CASE Throw
  BY <1>3, ThrowKeeps
<1> SUFFICES ASSUME ~Throw PROVE AnsInv'
  BY <1>3
<1>4. i \in Used /\ b \in BlockType
  BY LegTyped DEF BlockStop
<1>5. CASE b.kind = "unknown"
  <2>1. UNCHANGED <<leg, output, due>> /\ Quiet
    BY <1>4, <1>5 DEF BlockStop
  <2> QED BY <1>1, <2>1, LegTyped, QuietKeeps DEF LegType
<1>6. CASE b.kind = "search"
  <2>1. Stopped(i) /\ UNCHANGED <<output, due>> /\ Quiet
    BY <1>4, <1>6 DEF BlockStop
  <2>2. /\ leg' \in LegType /\ DOMAIN leg'.blocks = Used
        /\ leg'.blocks[i] = [b EXCEPT !.stopped = TRUE] /\ \A j \in Used \ {i} : leg'.blocks[j] = leg.blocks[j]
    BY <1>4, <2>1, Stopping
  <2>3. leg'.blocks[i].kind = b.kind /\ leg'.blocks[i].item = b.item /\ leg'.blocks[i].of = b.of
        /\ (OpenBlock(b) => OpenBlock(leg'.blocks[i]))
    BY <1>4, <1>6, <2>2 DEF BlockType, OpenBlock
  <2>4. Blocked(leg'.blocks, output)
    BY <1>2, <1>4, <2>2, <2>3, UnclosedBlocks
  <2> QED BY <1>1, <1>2, <2>1, <2>2, <2>4, FrameKeeps DEF Quiet, NoTerminal
<1>7. CASE b.kind = "result"
  <2>1. b.of \in Used /\ s.kind = "search" /\ s \in BlockType
    BY <1>2, <1>4, <1>7, LegTyped DEF Blocked, Used
  <2>2. CASE s.arrived
    <3>1. UNCHANGED <<leg, output, due>> /\ Quiet
      BY <1>4, <1>7, <2>2 DEF BlockStop
    <3> QED BY <1>1, <3>1, LegTyped, QuietKeeps DEF LegType
  <2>3. CASE ~s.arrived
    <3> DEFINE c == [s EXCEPT !.arrived = TRUE]
    <3>1. /\ leg' = [leg EXCEPT !.blocks[b.of] = c] /\ ClosesItem(s.item, "completed")
          /\ Emit(<<Done(s.item)>>) /\ Quiet
      BY <1>4, <1>7, <2>3 DEF BlockStop
    <3>2. c \in BlockType /\ c.kind = s.kind /\ c.item = s.item /\ c.of = s.of
      BY <2>1 DEF BlockType
    <3> HIDE DEF c
    <3>3. /\ leg' \in LegType /\ DOMAIN leg'.blocks = Used /\ leg'.blocks[b.of] = c
          /\ \A j \in Used \ {b.of} : leg'.blocks[j] = leg.blocks[j]
      BY <2>1, <3>1, <3>2, BlockChanges
    <3>4. s.item \in DOMAIN output
      BY <1>2, <2>1 DEF Blocked, Used
    <3> QED BY <1>1, <3>1, <3>2, <3>3, <3>4, ClosingKeeps, SMTT(40)
  <2> QED BY <2>2, <2>3
<1>8. CASE b.kind = "gateway"
  <2> DEFINE shown == legs < MaxContinued
             n == Len(output) + 1
             one == IF shown THEN 1 ELSE 0
             item == [kind |-> "asked", status |-> "completed"]
  <2>1. /\ Stopped(i) /\ output' = (IF shown THEN Append(output, item) ELSE output)
        /\ due' = (IF shown THEN CardEvents(n) ELSE <<>>)
        /\ absorbed' = [absorbed EXCEPT !.pending = @ + 1, !.narrated = @ + one]
        /\ UNCHANGED <<kept, told, legs, answer>>
    BY <1>4, <1>8 DEF BlockStop, Emit, Card
  <2>2. /\ leg' \in LegType /\ DOMAIN leg'.blocks = Used
        /\ leg'.blocks[i] = [b EXCEPT !.stopped = TRUE] /\ \A j \in Used \ {i} : leg'.blocks[j] = leg.blocks[j]
    BY <1>4, <2>1, Stopping
  <2>3. leg'.blocks[i].kind = b.kind /\ leg'.blocks[i].item = b.item /\ leg'.blocks[i].of = b.of
        /\ (OpenBlock(b) => OpenBlock(leg'.blocks[i]))
    BY <1>4, <1>8, <2>2 DEF BlockType, OpenBlock
  <2>4. Blocked(leg'.blocks, output)
    BY <1>2, <1>4, <2>2, <2>3, UnclosedBlocks
  <2>5. absorbed' \in AbsorbType /\ absorbed'.done = 0 /\ absorbed'.narrated = absorbed.narrated + one
        /\ absorbed'.pending = absorbed.pending + 1
    <3>1. one \in Nat
      OBVIOUS
    <3> HIDE DEF one
    <3>2. absorbed.pending \in Nat /\ absorbed.narrated \in Nat
      BY <1>2 DEF AbsorbType
    <3> DEFINE p == absorbed.pending + 1
               m == absorbed.narrated + one
    <3>3. p \in Nat /\ m \in Nat
      BY <3>1, <3>2
    <3>4. absorbed' = [absorbed EXCEPT !.pending = p, !.narrated = m]
      BY <2>1
    <3> HIDE DEF p, m
    <3>5. absorbed' \in AbsorbType /\ absorbed'.done = 0 /\ absorbed'.narrated = m /\ absorbed'.pending = p
      BY <1>2, <3>3, <3>4 DEF AbsorbType
    <3> QED BY <3>5 DEF p, m
  <2>6. CASE shown
    <3>1. output' = Append(output, item) /\ due' = CardEvents(n) /\ n \in Nat /\ item \in ItemType
      BY <2>1, <2>6, <1>2 DEF ItemType, ItemKinds
    <3>2. output' \in Seq(ItemType) /\ DOMAIN output' = DOMAIN output \union {n} /\ n \notin DOMAIN output
          /\ output'[n] = item /\ \A k \in DOMAIN output : output'[k] = output[k]
      BY <1>2, <3>1
    <3>3. due' \in Seq(EventType) /\ NoTerminal(due') /\ ItemsOf(due', "added") = {n} /\ ItemsOf(due', "done") = {n}
      BY <3>1, CardTells
    <3>4. Answered(output', absorbed')
      <4>1. Cardinality(OfKind(output', "asked")) = Cardinality(OfKind(output, "asked")) + 1
        BY <1>2, <3>1, CountAppend
      <4>2. Cardinality(OfKind(output', "answered")) = Cardinality(OfKind(output, "answered")) + 0
        BY <1>2, <3>1, CountAppend
      <4>3. /\ Cardinality(OfKind(output, "asked")) \in Nat /\ Cardinality(OfKind(output, "answered")) \in Nat
            /\ absorbed.narrated \in Nat
        BY <1>2, KindsFinite DEF AbsorbType
      <4> QED BY <1>2, <2>5, <2>6, <4>1, <4>2, <4>3 DEF Answered
    <3>5. item.status = "completed"
      OBVIOUS
    <3> HIDE DEF n, item
    <3>6. Shows(told, due', <<>>, output')
      BY <1>2, <3>2, <3>3, <3>5, NoItems DEF Shows
    <3>7. Blocked(leg'.blocks, output')
      BY <2>4, <3>2, <3>5 DEF Blocked
    <3> QED BY <1>1, <1>2, <2>1, <2>2, <2>5, <2>6, <3>2, <3>3, <3>4, <3>6, <3>7, FrameKeeps
  <2>7. CASE ~shown
    <3>1. output' = output /\ due' = <<>>
      BY <2>1, <2>7
    <3>2. Answered(output', absorbed')
      <4>1. absorbed'.narrated = absorbed.narrated
        BY <1>2, <2>5, <2>7 DEF AbsorbType
      <4> QED BY <1>2, <2>5, <3>1, <4>1 DEF Answered
    <3> QED BY <1>1, <1>2, <2>1, <2>2, <2>4, <2>5, <2>7, <3>1, <3>2, FrameKeeps DEF NoTerminal
  <2> QED BY <2>6, <2>7
<1>9. CASE b.kind \in {"text", "thinking", "call"}
  <2>1. Stopped(i) /\ ClosesItem(b.item, "completed") /\ Emit(<<Done(b.item)>>) /\ Quiet
    BY <1>4, <1>9 DEF BlockStop
  <2>2. /\ leg' \in LegType /\ DOMAIN leg'.blocks = Used
        /\ leg'.blocks[i] = [b EXCEPT !.stopped = TRUE] /\ \A j \in Used \ {i} : leg'.blocks[j] = leg.blocks[j]
    BY <1>4, <2>1, Stopping
  <2>3. leg'.blocks[i].kind = b.kind /\ leg'.blocks[i].item = b.item /\ leg'.blocks[i].of = b.of
    BY <1>4, <2>2 DEF BlockType
  <2>4. b.item \in DOMAIN output
    BY <1>2, <1>4, <1>9 DEF Blocked, Used
  <2> QED BY <1>1, <2>1, <2>2, <2>3, <2>4, ClosingKeeps, ZenonT(40)
<1> QED BY <1>4, <1>5, <1>6, <1>7, <1>8, <1>9 DEF BlockType, Kinds

(* What is still in progress when every block has stopped are searches. *)
LEMMA Resting ==
    ASSUME AnsInv, Reads, Unstopped = {}, NEW status \in {"completed", "incomplete"}
    PROVE  /\ Unanswered \in SUBSET (1..Len(output))
           /\ Searched(status) \in Seq(ItemType) /\ DOMAIN Searched(status) = DOMAIN output /\ Closed(Searched(status))
           /\ \A n \in DOMAIN output : Searched(status)[n].kind = output[n].kind
           /\ \A n \in DOMAIN output : n \in told.done \union Unanswered
           /\ told.added = DOMAIN output /\ told.done \subseteq DOMAIN output
<1> DEFINE out == Searched(status)
<1>1. /\ due = <<>> /\ kept = <<>> /\ Blocked(leg.blocks, output) /\ output \in Seq(ItemType)
      /\ Shows(told, <<>>, <<>>, output)
  BY DEF Reads, AnsInv, AnswerTypes, Going
<1>2. DOMAIN output = 1..Len(output) /\ Len(output) \in Nat /\ \A n \in DOMAIN output : output[n] \in ItemType
  BY <1>1
<1>3. Unanswered \subseteq DOMAIN output
  BY <1>1 DEF Unanswered, OpenSearches, Blocked, Used
<1>4. ASSUME NEW n \in DOMAIN output, output[n].status = "in_progress" PROVE n \in Unanswered
  <2>1. PICK i \in Used : leg.blocks[i].item = n /\ OpenBlock(leg.blocks[i])
    BY <1>1, <1>4 DEF Blocked, Used
  <2>2. i \in OpenSearches
    BY <2>1 DEF Unstopped, OpenSearches, OpenBlock
  <2> QED BY <2>1, <2>2 DEF Unanswered
<1>5. ASSUME NEW n \in DOMAIN output
      PROVE  out[n] \in ItemType /\ out[n].status # "in_progress" /\ out[n].kind = output[n].kind
  <2>1. CASE n \in Unanswered
    <3>1. out[n] = [output[n] EXCEPT !.status = status]
      BY <2>1 DEF Searched
    <3> HIDE DEF out
    <3> QED BY <1>2, <3>1 DEF ItemType
  <2>2. CASE n \notin Unanswered
    <3>1. out[n] = output[n]
      BY <2>2 DEF Searched
    <3> QED BY <1>2, <1>4, <2>2, <3>1
  <2> QED BY <2>1, <2>2
<1>6. DOMAIN out = DOMAIN output /\ out = [n \in 1..Len(output) |-> out[n]]
  BY <1>2 DEF Searched
<1> HIDE DEF out
<1>7. out \in Seq(ItemType) /\ Closed(out)
  BY <1>2, <1>5, <1>6 DEF Closed
<1>8. told.added = DOMAIN output /\ told.done \subseteq DOMAIN output
      /\ \A n \in DOMAIN output : output[n].status # "in_progress" => n \in told.done
  BY <1>1, NoItems DEF Shows
<1> QED BY <1>2, <1>3, <1>4, <1>5, <1>6, <1>7, <1>8 DEF out

LEMMA StopKeeps == ASSUME AnsInv, MessageStop PROVE AnsInv'
<1> DEFINE events == DoneEvents(Unanswered)
           status == IF leg.reason = "max_tokens" THEN "incomplete" ELSE "completed"
           out == Searched(status)
           goesOn == leg.reason = "tool_use" /\ absorbed.pending > 0 /\ legs < MaxContinued
           cards == Unexecuted(out, events)
<1>1. CASE Throw
  BY <1>1, ThrowKeeps
<1> SUFFICES ASSUME ~Throw PROVE AnsInv'
  BY <1>1
<1>2. Reads /\ due = <<>> /\ answer = "open" /\ Unstopped = {}
  BY DEF MessageStop, Reads
<1>3. /\ kept = <<>> /\ output \in Seq(ItemType) /\ absorbed \in AbsorbType /\ absorbed.done = 0
      /\ ~told.over /\ ~told.hole /\ Answered(output, absorbed)
      /\ (legs < MaxContinued => absorbed.narrated = absorbed.pending)
  BY <1>2 DEF AnsInv, AnswerTypes, Going
<1>4. status \in {"completed", "incomplete"}
  OBVIOUS
<1>5. /\ Unanswered \in SUBSET (1..Len(output))
      /\ out \in Seq(ItemType) /\ DOMAIN out = DOMAIN output /\ Closed(out)
      /\ \A n \in DOMAIN output : out[n].kind = output[n].kind
      /\ \A n \in DOMAIN output : n \in told.done \union Unanswered
      /\ told.added = DOMAIN output /\ told.done \subseteq DOMAIN output
  BY <1>2, <1>4, Resting
<1>6. /\ events \in Seq(EventType) /\ NoTerminal(events) /\ ItemsOf(events, "added") = {}
      /\ ItemsOf(events, "done") = Unanswered
  <2>1. Len(output) \in Nat
    BY <1>3
  <2> QED BY <1>5, <2>1, DoneTells
<1>7. Len(out) = Len(output)
  BY <1>3, <1>5
<1>8. \A kind : OfKind(out, kind) = OfKind(output, kind)
  BY <1>5, SameKinds
<1>9. Answered(out, absorbed)
  BY <1>3, <1>8 DEF Answered
<1>10. CASE goesOn
  <2>1. /\ answer' = "running" /\ output' = out /\ kept' = events
        /\ UNCHANGED <<leg, due, told, absorbed, legs>>
    BY <1>2, <1>10 DEF MessageStop
  <2> HIDE DEF out, events
  <2>2. AnswerTypes'
    BY <1>5, <1>6, <2>1 DEF AnsInv, AnswerTypes
  <2>3. Shows(told', due', kept', output')
    <3>1. DOMAIN out = DOMAIN output /\ Unanswered \subseteq DOMAIN output
      BY <1>3, <1>5
    <3> QED BY <1>2, <1>5, <1>6, <2>1, <3>1, NoItems DEF Shows
  <2>4. NoTerminal(due') /\ NoTerminal(kept')
    BY <1>2, <1>6, <2>1 DEF NoTerminal
  <2>5. absorbed'.done <= absorbed'.pending
    BY <1>3, <2>1 DEF AbsorbType
  <2> QED BY <1>2, <1>3, <1>5, <1>9, <1>10, <2>1, <2>2, <2>3, <2>4, <2>5 DEF AnsInv, Going
<1>11. CASE ~goesOn
  <2>1. /\ Finishes(status, cards[1], cards[2])
        /\ absorbed' = [pending |-> 0, narrated |-> 0, done |-> 0]
        /\ UNCHANGED <<leg, told, legs>>
    BY <1>2, <1>11 DEF MessageStop
  <2> DEFINE more == (Len(out) + 1)..(Len(out) + absorbed.narrated)
  <2>2. absorbed.narrated \in Nat
    BY <1>3 DEF AbsorbType
  <2>3. cards = Cards(out, events, absorbed.narrated)
    BY DEF Unexecuted
  <2> HIDE DEF out, events, cards
  <2>4. /\ cards[1] \in Seq(ItemType) /\ cards[2] \in Seq(EventType) /\ NoTerminal(cards[2])
        /\ DOMAIN cards[1] = DOMAIN out \union more
        /\ \A k \in DOMAIN out : cards[1][k] = out[k]
        /\ \A k \in more : cards[1][k].status = "completed"
        /\ Cardinality(OfKind(cards[1], "asked")) = Cardinality(OfKind(out, "asked"))
        /\ Cardinality(OfKind(cards[1], "answered")) = Cardinality(OfKind(out, "answered")) + absorbed.narrated
        /\ ItemsOf(cards[2], "added") = ItemsOf(events, "added") \union more
        /\ ItemsOf(cards[2], "done") = ItemsOf(events, "done") \union more
    BY <1>5, <1>6, <2>2, <2>3, CardsTell, SMTT(40)
  <2> HIDE DEF more, status
  <2>5. Closed(cards[1])
    BY <1>5, <2>4 DEF Closed
  <2>6. /\ output' = cards[1] /\ answer' = status /\ due' = cards[2] \o <<Terminal>> /\ kept' = <<>>
    BY <2>1, <2>4, <2>5, MarkedType DEF Finishes
  <2>7. /\ due' \in Seq(EventType)
        /\ ItemsOf(due', "added") = more /\ ItemsOf(due', "done") = Unanswered \union more
    <3> DEFINE c == cards[2]
               t == <<Terminal>>
               u == Unanswered
    <3>1. c \in Seq(EventType) /\ t \in Seq(EventType) /\ due' = c \o t
          /\ ItemsOf(t, "added") = {} /\ ItemsOf(t, "done") = {}
          /\ ItemsOf(c, "added") = more /\ ItemsOf(c, "done") = u \union more
      BY <1>6, <2>4, <2>6, TerminalTells
    <3> HIDE DEF c, t, u
    <3>2. \A type : ItemsOf(c \o t, type) = ItemsOf(c, type) \union ItemsOf(t, type)
      BY <3>1, ItemsConcat
    <3>3. c \o t \in Seq(EventType)
      BY <3>1
    <3>4. ItemsOf(c \o t, "added") = more /\ ItemsOf(c \o t, "done") = u \union more
      <4>1. ItemsOf(c \o t, "added") = ItemsOf(c, "added") \union ItemsOf(t, "added")
            /\ ItemsOf(c \o t, "done") = ItemsOf(c, "done") \union ItemsOf(t, "done")
        BY <3>2
      <4>2. \A x : x \union {} = x
        OBVIOUS
      <4> QED BY <3>1, <4>1, <4>2, Zenon
    <3> QED BY <3>1, <3>3, <3>4, Zenon DEF u
  <2>8. TerminalLast(due', told'.over)
    <3>1. Len(cards[2]) \in Nat /\ Len(due') = Len(cards[2]) + 1 /\ due'[Len(due')] = Terminal /\ due' # <<>>
          /\ \A k \in 1..Len(cards[2]) : due'[k] = cards[2][k]
      BY <2>4, <2>6, TerminalTells
    <3>2. \A k \in 1..(Len(due') - 1) : due'[k].type # "terminal"
      BY <2>4, <3>1 DEF NoTerminal
    <3> QED BY <1>3, <2>1, <3>1, <3>2 DEF TerminalLast, Terminal
  <2>9. Shows(told', due', kept', output')
    <3>1. told.added = DOMAIN out /\ told.done \subseteq DOMAIN out /\ Unanswered \subseteq DOMAIN out
          /\ \A n \in DOMAIN out : n \in told.done \union Unanswered
      BY <1>3, <1>5
    <3>2. told' = told
      BY <2>1
    <3> QED BY <2>4, <2>6, <2>7, <3>1, <3>2, NoItems DEF Shows
  <2>10. Answered(output', absorbed')
    <3>1. Cardinality(OfKind(out, "asked")) = Cardinality(OfKind(out, "answered")) + absorbed.narrated
      <4>1. Cardinality(OfKind(out, "asked")) \in Nat
        BY <1>5, KindsFinite
      <4> QED BY <1>3, <1>9, <4>1 DEF Answered
    <3>2. Cardinality(OfKind(cards[1], "asked")) = Cardinality(OfKind(cards[1], "answered"))
      BY <2>4, <3>1
    <3>3. Cardinality(OfKind(cards[1], "asked")) \in Nat
      BY <2>4, KindsFinite
    <3> QED BY <2>1, <2>6, <3>2, <3>3 DEF Answered
  <2>11. absorbed' \in AbsorbType /\ absorbed'.narrated = 0 /\ absorbed'.done = 0
    BY <2>1 DEF AbsorbType
  <2>12. AnswerTypes'
    BY <1>4, <2>1, <2>4, <2>6, <2>7, <2>11 DEF AnsInv, AnswerTypes, Finals
  <2> QED BY <1>3, <1>4, <2>1, <2>5, <2>6, <2>8, <2>9, <2>10, <2>11, <2>12 DEF AnsInv, Going
<1> QED BY <1>10, <1>11

(* A call was executed, or failed: its card. *)
LEMMA ExecutesKeeps == ASSUME AnsInv, Executes PROVE AnsInv'
<1> DEFINE n == Len(output) + 1
           item == [kind |-> "answered", status |-> "completed"]
           es == CardEvents(n)
           d == absorbed.done + 1
<1>1. /\ answer = "running" /\ absorbed.done < absorbed.pending /\ output' = Append(output, item)
      /\ kept' = kept \o es /\ absorbed' = [absorbed EXCEPT !.done = d]
      /\ UNCHANGED <<leg, due, told, legs, answer>>
  BY DEF Executes, Card
<1>2. /\ due = <<>> /\ legs < MaxContinued /\ Closed(output) /\ ~told.over /\ ~told.hole
      /\ Shows(told, due, kept, output) /\ Answered(output, absorbed) /\ NoTerminal(due) /\ NoTerminal(kept)
      /\ output \in Seq(ItemType) /\ kept \in Seq(EventType) /\ absorbed \in AbsorbType
      /\ absorbed.narrated = absorbed.pending
  BY <1>1 DEF AnsInv, AnswerTypes, Going
<1>3. absorbed.done \in Nat /\ absorbed.pending \in Nat /\ absorbed.narrated \in Nat /\ d \in Nat /\ d <= absorbed.pending
  BY <1>1, <1>2 DEF AbsorbType
<1>4. item \in ItemType /\ item.status = "completed" /\ item.kind = "answered" /\ n \in Nat
  BY <1>2 DEF ItemType, ItemKinds
<1>5. /\ output' \in Seq(ItemType) /\ DOMAIN output' = DOMAIN output \union {n}
      /\ output'[n] = item /\ \A k \in DOMAIN output : output'[k] = output[k]
  BY <1>1, <1>2, <1>4
<1>6. es \in Seq(EventType) /\ NoTerminal(es) /\ ItemsOf(es, "added") = {n} /\ ItemsOf(es, "done") = {n}
  BY <1>4, CardTells
<1>7. d = absorbed.done + 1
  OBVIOUS
<1>8. Cardinality(OfKind(output', "asked")) = Cardinality(OfKind(output, "asked")) + 0
  BY <1>1, <1>2, <1>4, CountAppend
<1>9. Cardinality(OfKind(output', "answered")) = Cardinality(OfKind(output, "answered")) + 1
  BY <1>1, <1>2, <1>4, CountAppend
<1> HIDE DEF n, item, es, d
<1>10. absorbed' \in AbsorbType /\ absorbed'.done = d /\ absorbed'.narrated = absorbed.narrated
       /\ absorbed'.pending = absorbed.pending
  BY <1>1, <1>2, <1>3 DEF AbsorbType
<1>11. Answered(output', absorbed')
  <2>1. Cardinality(OfKind(output, "asked")) \in Nat /\ Cardinality(OfKind(output, "answered")) \in Nat
    BY <1>2, KindsFinite
  <2> DEFINE x == Cardinality(OfKind(output, "asked"))
             y == Cardinality(OfKind(output, "answered"))
  <2>2. x \in Nat /\ y \in Nat /\ x + absorbed.done = y + absorbed.narrated
    BY <1>2, <2>1 DEF Answered
  <2>3. Cardinality(OfKind(output', "asked")) = x + 0 /\ Cardinality(OfKind(output', "answered")) = y + 1
    BY <1>8, <1>9
  <2> HIDE DEF x, y
  <2>4. x + 0 + d = y + 1 + absorbed.narrated
    BY <1>3, <1>7, <2>2
  <2> QED BY <1>10, <2>3, <2>4 DEF Answered
<1>12. kept' \in Seq(EventType) /\ NoTerminal(kept')
  BY <1>1, <1>2, <1>6, NoTerminals
<1>13. \A type : ItemsOf(kept', type) = ItemsOf(kept, type) \union ItemsOf(es, type)
  BY <1>1, <1>2, <1>6, ItemsConcat
<1>14. ItemsOf(kept', "added") = ItemsOf(kept, "added") \union {n} /\ ItemsOf(kept', "done") = ItemsOf(kept, "done") \union {n}
  BY <1>6, <1>13
<1>15. Shows(told', due', kept', output')
  BY <1>1, <1>2, <1>5, <1>14 DEF Shows
<1>16. Closed(output')
  BY <1>2, <1>4, <1>5 DEF Closed
<1>17. AnswerTypes'
  BY <1>1, <1>5, <1>10, <1>12 DEF AnsInv, AnswerTypes
<1> QED BY <1>1, <1>2, <1>3, <1>10, <1>11, <1>12, <1>15, <1>16, <1>17 DEF AnsInv, Going

(* Every call was executed: the next leg is asked for. *)
LEMMA AsksKeeps == ASSUME AnsInv, Asks PROVE AnsInv'
<1>1. /\ answer = "running" /\ absorbed.done = absorbed.pending /\ answer' = "asking"
      /\ absorbed' = [pending |-> 0, narrated |-> 0, done |-> 0] /\ legs' = legs + 1
      /\ UNCHANGED <<leg, output, due, kept, told>>
  BY DEF Asks
<1>2. /\ due = <<>> /\ legs < MaxContinued /\ legs \in Nat /\ Closed(output) /\ ~told.over /\ ~told.hole
      /\ Shows(told, due, kept, output) /\ Answered(output, absorbed) /\ NoTerminal(due) /\ NoTerminal(kept)
      /\ output \in Seq(ItemType) /\ absorbed \in AbsorbType /\ absorbed.narrated = absorbed.pending
  BY <1>1 DEF AnsInv, AnswerTypes, Going
<1>3. absorbed' \in AbsorbType /\ absorbed'.done = 0 /\ absorbed'.narrated = 0 /\ absorbed'.pending = 0
  BY <1>1 DEF AbsorbType
<1>4. Answered(output', absorbed')
  <2>1. Cardinality(OfKind(output, "asked")) \in Nat /\ Cardinality(OfKind(output, "answered")) \in Nat
    BY <1>2, KindsFinite
  <2>2. absorbed.done \in Nat /\ absorbed.narrated = absorbed.done
    BY <1>1, <1>2 DEF AbsorbType
  <2>3. Cardinality(OfKind(output, "asked")) = Cardinality(OfKind(output, "answered"))
    BY <1>2, <2>1, <2>2 DEF Answered
  <2> QED BY <1>1, <1>3, <2>1, <2>3 DEF Answered
<1>5. legs' \in Nat
  BY <1>1, <1>2
<1>6. AnswerTypes'
  BY <1>1, <1>3, <1>5 DEF AnsInv, AnswerTypes
<1> QED BY <1>1, <1>2, <1>3, <1>4, <1>6 DEF AnsInv, Going

(* A leg without blocks. *)
LEMMA NewLegTyped ==
    /\ NewLeg \in LegType
    /\ \A out : Closed(out) => Blocked(NewLeg.blocks, out)
<1> DEFINE none == [i \in {} |-> 0]
<1>1. none \in [{} -> BlockType] /\ {} \in SUBSET Indexes
  OBVIOUS
<1>2. none \in BlockTypes /\ DOMAIN none = {}
  BY <1>1 DEF BlockTypes
<1>3. NewLeg = [started |-> FALSE, reason |-> NoReason, blocks |-> none]
  BY DEF NewLeg
<1> HIDE DEF none
<1>4. NewLeg \in LegType /\ NewLeg.blocks = none
  BY <1>2, <1>3 DEF LegType
<1>5. ASSUME NEW out, Closed(out) PROVE Blocked(none, out)
  BY <1>2, <1>5 DEF Blocked, Closed
<1> QED BY <1>4, <1>5

(* What message_stop had produced is sent, and the next leg is read. *)
LEMMA StartLegKeeps == ASSUME AnsInv, StartLeg PROVE AnsInv'
<1>1. /\ answer = "asking" /\ answer' = "open" /\ leg' = NewLeg /\ due' = kept /\ kept' = <<>>
      /\ UNCHANGED <<output, told, absorbed, legs>>
  BY DEF StartLeg
<1>2. /\ due = <<>> /\ absorbed.narrated = absorbed.done /\ absorbed.done = 0 /\ Closed(output)
      /\ ~told.over /\ ~told.hole /\ Shows(told, due, kept, output) /\ Answered(output, absorbed)
      /\ NoTerminal(due) /\ NoTerminal(kept) /\ kept \in Seq(EventType)
      /\ legs < MaxContinued => absorbed.narrated = absorbed.pending
  BY <1>1 DEF AnsInv, AnswerTypes, Going
<1>3. leg' \in LegType /\ Blocked(leg'.blocks, output')
  BY <1>1, <1>2, NewLegTyped
<1>4. kept' \in Seq(EventType) /\ NoTerminal(kept')
  BY <1>1 DEF NoTerminal
<1>5. Shows(told', due', kept', output')
  BY <1>1, <1>2, NoItems DEF Shows
<1>6. AnswerTypes'
  BY <1>1, <1>2, <1>3, <1>4 DEF AnsInv, AnswerTypes
<1> QED BY <1>1, <1>2, <1>3, <1>4, <1>5, <1>6 DEF AnsInv, Going

(* The client takes an event. *)
LEMMA PullKeeps == ASSUME AnsInv, Pull PROVE AnsInv'
<1> DEFINE e == Head(due)
           t == Tail(due)
<1>1. /\ due # <<>> /\ ~told.over /\ due' = t
      /\ told' = CASE e.type = "added" -> [told EXCEPT !.added = @ \cup {e.item}]
                   [] e.type = "done" -> [told EXCEPT !.done = @ \cup {e.item}]
                   [] OTHER -> [told EXCEPT !.over = TRUE]
      /\ UNCHANGED <<leg, output, kept, absorbed, legs, answer>>
  BY DEF Pull
<1>2. due \in Seq(EventType) /\ told \in ToldType
  BY DEF AnsInv, AnswerTypes
<1>3. /\ e \in EventType /\ t \in Seq(EventType) /\ due[1] = e /\ Len(due) \in Nat /\ Len(due) >= 1 /\ Len(t) = Len(due) - 1
      /\ \A k \in 1..Len(t) : t[k] = due[k + 1] /\ k + 1 \in 1..Len(due)
      /\ DOMAIN due = 1..Len(due) /\ DOMAIN t = 1..Len(t)
  BY <1>1, <1>2
<1>4. \A type : ItemsOf(due, type) = (IF e.type = type THEN {e.item} ELSE {}) \union ItemsOf(t, type)
  BY <1>1, <1>2, ItemsTail
<1> HIDE DEF e, t
<1>5. e.type \in {"added", "done", "terminal"} /\ e.item \in Nat
  BY <1>3 DEF EventType
<1>6. /\ told' \in ToldType /\ told'.hole = told.hole
      /\ told'.added = told.added \union (IF e.type = "added" THEN {e.item} ELSE {})
      /\ told'.done = told.done \union (IF e.type = "done" THEN {e.item} ELSE {})
      /\ told'.over = (e.type = "terminal")
  <2>1. told.over = FALSE
    BY <1>1, <1>2 DEF ToldType
  <2>2. CASE e.type = "added"
    BY <1>1, <1>2, <1>5, <2>1, <2>2 DEF ToldType
  <2>3. CASE e.type = "done"
    BY <1>1, <1>2, <1>5, <2>1, <2>3 DEF ToldType
  <2>4. CASE e.type = "terminal"
    BY <1>1, <1>2, <1>5, <2>1, <2>4 DEF ToldType
  <2> QED BY <1>5, <2>2, <2>3, <2>4
<1>7. Shows(told, due, kept, output) => Shows(told', due', kept', output')
  <2>1. /\ told'.added \union ItemsOf(t, "added") = told.added \union ItemsOf(due, "added")
        /\ told'.done \union ItemsOf(t, "done") = told.done \union ItemsOf(due, "done")
    BY <1>4, <1>6
  <2> QED BY <1>1, <2>1 DEF Shows
<1>8. AnswerTypes'
  BY <1>1, <1>3, <1>6 DEF AnsInv, AnswerTypes
<1>9. ASSUME Going PROVE ~told'.over /\ NoTerminal(due')
  <2>1. NoTerminal(due)
    BY <1>9 DEF AnsInv
  <2>2. e.type # "terminal"
    BY <1>3, <2>1 DEF NoTerminal
  <2> QED BY <1>1, <1>3, <1>6, <2>1, <2>2, ZenonT(40) DEF NoTerminal
<1>10. ASSUME answer \in {"completed", "incomplete"} PROVE TerminalLast(due', told'.over)
  <2>1. /\ due[Len(due)].type = "terminal" /\ \A k \in 1..(Len(due) - 1) : due[k].type # "terminal"
    BY <1>1, <1>10 DEF AnsInv, TerminalLast
  <2>2. CASE Len(due) = 1
    <3>1. e.type = "terminal" /\ Len(t) = 0
      BY <1>3, <2>1, <2>2
    <3>2. t = <<>>
      BY <1>3, <3>1
    <3> QED BY <1>1, <1>6, <3>1, <3>2 DEF TerminalLast
  <2>3. CASE Len(due) > 1
    <3>1. e.type # "terminal"
      BY <1>3, <2>1, <2>3
    <3>2. Len(t) \in Nat /\ Len(t) >= 1 /\ Len(t) + 1 = Len(due) /\ t # <<>>
      BY <1>3, <2>3
    <3>3. t[Len(t)].type = "terminal"
      BY <1>3, <2>1, <3>2
    <3>4. \A k \in 1..(Len(t) - 1) : t[k].type # "terminal"
      <4> SUFFICES ASSUME NEW k \in 1..(Len(t) - 1) PROVE t[k].type # "terminal"
        OBVIOUS
      <4>1. k + 1 \in 1..(Len(due) - 1) /\ k \in 1..Len(t)
        BY <3>2
      <4> QED BY <1>3, <2>1, <4>1
    <3> QED BY <1>1, <1>6, <3>1, <3>2, <3>3, <3>4 DEF TerminalLast
  <2> QED BY <1>3, <2>2, <2>3
<1>11. answer \notin {"running", "asking"}
  BY <1>1 DEF AnsInv
<1> QED BY <1>1, <1>6, <1>7, <1>8, <1>9, <1>10, <1>11 DEF AnsInv, Going

(* Nothing happens. *)
LEMMA AnswerStutters == ASSUME AnsInv, UNCHANGED answerVars PROVE AnsInv'
<1>1. leg' = leg /\ output' = output /\ due' = due /\ kept' = kept /\ told' = told /\ absorbed' = absorbed
      /\ legs' = legs /\ answer' = answer
  BY DEF answerVars
<1> QED BY <1>1 DEF AnsInv, AnswerTypes, Going

LEMMA AnswerStarts == AnswerInit => AnsInv
<1> SUFFICES ASSUME AnswerInit PROVE AnsInv
  OBVIOUS
<1>1. /\ leg = NewLeg /\ output = <<>> /\ due = <<>> /\ kept = <<>> /\ legs = 0 /\ answer = "open"
      /\ told = [added |-> {}, done |-> {}, hole |-> FALSE, over |-> FALSE]
      /\ absorbed = [pending |-> 0, narrated |-> 0, done |-> 0]
  BY DEF AnswerInit
<1>2. output \in Seq(ItemType) /\ due \in Seq(EventType) /\ kept \in Seq(EventType) /\ Closed(output) /\ DOMAIN output = {}
  BY <1>1 DEF Closed
<1>3. leg \in LegType /\ Blocked(leg.blocks, output)
  BY <1>1, <1>2, NewLegTyped
<1>4. told \in ToldType /\ told.added = {} /\ told.done = {} /\ ~told.hole /\ ~told.over
  BY <1>1 DEF ToldType
<1>5. absorbed \in AbsorbType /\ absorbed.done = 0 /\ absorbed.narrated = 0 /\ absorbed.pending = 0
  BY <1>1 DEF AbsorbType
<1>6. Answered(output, absorbed)
  <2>1. OfKind(output, "asked") = {} /\ OfKind(output, "answered") = {}
    BY <1>2 DEF OfKind
  <2> QED BY <1>5, <2>1 DEF Answered
<1>7. Shows(told, due, kept, output) /\ NoTerminal(due) /\ NoTerminal(kept)
  BY <1>1, <1>2, <1>4, NoItems DEF Shows, NoTerminal
<1>8. AnswerTypes
  BY <1>1, <1>2, <1>3, <1>4, <1>5 DEF AnswerTypes
<1> QED BY <1>1, <1>3, <1>4, <1>5, <1>6, <1>7, <1>8 DEF AnsInv, Going

LEMMA AnswerSteps == ASSUME AnsInv, AnswerNext PROVE AnsInv'
<1>1. CASE MessageStart
  BY <1>1, StartKeeps
<1>2. ASSUME NEW i \in Indexes, NEW kind \in Kinds, BlockStart(i, kind) PROVE AnsInv'
  BY <1>2, BlockStartKeeps
<1>3. ASSUME NEW i \in Indexes, NEW b \in BOOLEAN, Delta(i, b) PROVE AnsInv'
  BY <1>3, DeltaKeeps
<1>4. ASSUME NEW i \in Indexes, NEW b \in BOOLEAN, BlockStop(i, b) PROVE AnsInv'
  BY <1>4, BlockStopKeeps
<1>5. CASE \E r \in Reasons : MessageDelta(r)
  BY <1>5, DeltaKeeps
<1>6. CASE MessageStop
  BY <1>6, StopKeeps
<1>7. CASE Executes
  BY <1>7, ExecutesKeeps
<1>8. CASE Asks
  BY <1>8, AsksKeeps
<1>9. CASE StartLeg
  BY <1>9, StartLegKeeps
<1>10. CASE LegFails \/ ErrorFrame
  BY <1>10, ThrowKeeps DEF LegFails, ErrorFrame
<1>11. CASE Pull
  BY <1>11, PullKeeps
<1>12. CASE Leave
  BY <1>12, LeaveKeeps
<1> QED BY <1>1, <1>2, <1>3, <1>4, <1>5, <1>6, <1>7, <1>8, <1>9, <1>10, <1>11, <1>12 DEF AnswerNext

LEMMA AnswerSafe == AnsInv => AnswerCloses
<1> SUFFICES ASSUME AnsInv, answer \in {"completed", "incomplete"}, told.over PROVE AnswerCloses
  BY DEF AnswerCloses
<1>1. /\ ~told.hole /\ Shows(told, due, kept, output) /\ Answered(output, absorbed) /\ Closed(output)
      /\ kept = <<>> /\ absorbed.narrated = 0 /\ absorbed.done = 0 /\ due = <<>> /\ output \in Seq(ItemType)
  BY DEF AnsInv, AnswerTypes, TerminalLast
<1>2. told.added = DOMAIN output /\ told.done = told.added
  BY <1>1, NoItems DEF Shows, Closed
<1>3. Count("asked") = Cardinality(OfKind(output, "asked")) /\ Count("answered") = Cardinality(OfKind(output, "answered"))
  BY DEF Count, OfKind
<1>4. Cardinality(OfKind(output, "asked")) = Cardinality(OfKind(output, "answered"))
  <2>1. Cardinality(OfKind(output, "asked")) \in Nat /\ Cardinality(OfKind(output, "answered")) \in Nat
    BY <1>1, KindsFinite
  <2> QED BY <1>1, <2>1 DEF Answered
<1> QED BY <1>1, <1>2, <1>3, <1>4 DEF AnswerCloses, Closed

(* A ZCode answer that completed has closed every item it added, in          *)
(* every leg, has sent every event, and has a result card for every call     *)
(* it showed (message_stop, startLeg and finish of response.ts), for any     *)
(* number of blocks, continuations and items.                                *)
THEOREM AnswersClose == AnswerSpec => []AnswerCloses
<1>1. AnsInv /\ [AnswerNext]_answerVars => AnsInv'
  BY AnswerSteps, AnswerStutters
<1> QED BY <1>1, AnswerStarts, AnswerSafe, PTL DEF AnswerSpec
=============================================================================
