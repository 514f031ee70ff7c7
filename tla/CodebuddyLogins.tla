-------------------------- MODULE CodebuddyLogins --------------------------
(***************************************************************************)
(* Logins and requests of the CodeBuddy plugin (packages/codebuddy/src/    *)
(* credentials.ts and index.ts).  CodeBuddy's own programs keep their      *)
(* logins as files in one directory and rotate them; the plugin only       *)
(* reads.  It works from a snapshot of the directory, taken again after an *)
(* event of a watcher, which may be lost, and when a request gets into     *)
(* trouble.  One turn of the event loop is a step: a scan is not           *)
(* interrupted by a write.                                                 *)
(***************************************************************************)
EXTENDS Integers, FiniteSets

CONSTANTS
    Files,          \* names of .info files, numbered in the order of the alphabet
    Records,        \* logins that may be found in them
    Uids,           \* accounts, NoUid among them
    Locks,          \* values of codebuddyAccount the user may configure
    Requests,
    MaxWrites,      \* bound on changes of the directory
    MaxLosses,      \* bound on watchers that die or watch a replaced directory
    Absent, Broken, \* contents of a file that is no login
    NoUid, None

Regions  == {"cn", "intl"}
Products == {"cli", "work"}

(* A login as it is written has a uid, which may be NoUid, a region, a     *)
(* product, the time of its last refresh, the file's mtime, a token, and   *)
(* whether its end will come: expires.                                     *)
Logins == [uid : Uids, region : Regions, product : Products, refresh : Nat, mtime : Nat,
           token : Nat, expires : BOOLEAN]

LoginsAssumption ==
    /\ Files \subseteq Nat /\ IsFiniteSet(Files)
    /\ Records \subseteq Logins
    /\ None \notin Locks
    /\ \A l \in Locks : l.kind \notin {"auto", "uid", "account"} => l.kind = "file" /\ l.file \in Files
    /\ {Absent, Broken, None} \cap Records = {} /\ Absent # Broken /\ None \notin Files
    /\ Absent # None /\ Broken # None /\ None \notin Logins
    /\ \A u \in Uids, r \in Regions, p \in Products :
          None # [kind |-> "account", uid |-> u, region |-> r, product |-> p]
    /\ MaxWrites \in Nat /\ MaxLosses \in Nat

ASSUME LoginsAssumption

VARIABLES
    dir,        \* the directory, as the programs have written it
    snap,       \* the directory as of the last scan: byProfile, byUid, byAccount
    late,       \* have logins that expire done so?
    watching,   \* does a watcher see the directory?
    due,        \* is the timer of 100 ms set?
    lock,       \* the configured account
    closed,
    req,        \* requests
    writes, losses

loginVars == <<dir, snap, late, watching, due, lock, closed, req, writes, losses>>

Contents == Records \union {Absent, Broken}

-----------------------------------------------------------------------------
(* Which login.                                                            *)

Found(d) == {f \in Files : d[f] \in Records}

Fresher(a, b) == a.refresh > b.refresh \/ (a.refresh = b.refresh /\ a.mtime > b.mtime)

(* Files are read in the order of their names, and one replaces another    *)
(* only if it is fresher.                                                  *)
Outlasts(d, S, f) == \A g \in S \ {f} : Fresher(d[f], d[g]) \/ (f < g /\ ~Fresher(d[g], d[f]))

Newest(d, S) == IF \E f \in S : Outlasts(d, S, f) THEN CHOOSE f \in S : Outlasts(d, S, f) ELSE None

OfProfile(d, region, product) == {f \in Found(d) : d[f].region = region /\ d[f].product = product}

(* A configured account names one login (region and product too), all of  *)
(* an account, or a file, which stands for the login in it.               *)
Selector(d, l) ==
    IF l.kind # "file" THEN l
    ELSE IF d[l.file] \in Records /\ d[l.file].uid # NoUid
         THEN [kind |-> "account", uid |-> d[l.file].uid,
               region |-> d[l.file].region, product |-> d[l.file].product]
         ELSE None

OfAccount(d, selector) ==
    {f \in Found(d) : /\ d[f].uid = selector.uid
                      /\ selector.kind = "account" =>
                            d[f].region = selector.region /\ d[f].product = selector.product}

(* What a lock leads to: a login, the content of a file that belongs to no *)
(* account, or None.  Files are looked up now, accounts in the snapshot.   *)
Locked(s, d, l) ==
    IF l.kind = "auto" THEN None
    ELSE LET selector == Selector(d, l)
             f == IF selector = None THEN None ELSE Newest(s, OfAccount(s, selector))
         IN IF f # None THEN s[f]
            ELSE IF selector = None /\ d[l.file] # Absent THEN d[l.file] ELSE None

(* The freshest of a region and product, or of the other product there. *)
Automatic(s, region, product) ==
    LET own   == Newest(s, OfProfile(s, region, product))
        other == Newest(s, UNION {OfProfile(s, region, p) : p \in Products \ {product}})
    IN IF own # None THEN s[own] ELSE IF other # None THEN s[other] ELSE None

Expired(login) == late /\ login.expires

(* Variant: an account without a login in the region is passed over. *)
ForProductLenient(s, d, region, product) ==
    LET locked == Locked(s, d, lock)
        login  == IF locked # None /\ locked # Broken /\ locked.region = region THEN locked
                  ELSE Automatic(s, region, product)
    IN IF login \in {None, Broken} \/ Expired(login) THEN None
       ELSE [login EXCEPT !.product = product]

(* forProduct: the login and endpoint of a request, None if there is none. *)
(* A login of the other product goes to the endpoint that was asked for.   *)
ForProduct(s, d, region, product) ==
    LET locked == Locked(s, d, lock)
        login  == IF locked # None THEN locked ELSE Automatic(s, region, product)
    IN IF \/ login \in {None, Broken}
          \/ Expired(login)
          \/ login.region # region
       THEN None
       ELSE [login EXCEPT !.product = product]

(* The automatic choice for display is between profiles, in the order in   *)
(* which they were first met.                                              *)
Profiles(d) == {Newest(d, OfProfile(d, r, p)) : r \in Regions, p \in Products} \ {None}

FirstMet(d, f) == CHOOSE g \in OfProfile(d, d[f].region, d[f].product) :
                    \A h \in OfProfile(d, d[f].region, d[f].product) : g <= h

Freshest(d) ==
    LET freshest == {f \in Profiles(d) : \A g \in Profiles(d) :
                        \/ d[f].refresh > d[g].refresh
                        \/ d[f].refresh = d[g].refresh /\ FirstMet(d, f) <= FirstMet(d, g)}
    IN IF freshest = {} THEN None ELSE CHOOSE f \in freshest : TRUE

(* The file of the account the Web UI shows for a configured value. *)
Shown(d, l) ==
    LET selector == IF l.kind = "auto" THEN None ELSE Selector(d, l)
        named    == IF selector # None THEN Newest(d, OfAccount(d, selector))
                    ELSE IF l.kind = "file" /\ d[l.file] # Absent THEN l.file ELSE None
    IN IF named # None THEN named ELSE Freshest(d)

Account(d, f) == [kind |-> "account", uid |-> d[f].uid, region |-> d[f].region, product |-> d[f].product]

(* The accounts a user may choose from: of the files of one login only the *)
(* newest; a file without a uid stands for itself.                         *)
Listed(d) == {f \in Found(d) : d[f].uid = NoUid \/ f = Newest(d, OfAccount(d, Account(d, f)))}

(* Variant: the account as such is chosen. *)
ValueOfUid(d, f) == IF d[f].uid = NoUid THEN [kind |-> "file", file |-> f]
                    ELSE [kind |-> "uid", uid |-> d[f].uid]

(* What is configured when one of them is chosen. *)
Value(d, f) == IF d[f].uid = NoUid THEN [kind |-> "file", file |-> f] ELSE Account(d, f)

(* The entry of the list that stands for a configured value. *)
Canonical(d, l) ==
    LET selector == IF l.kind = "auto" THEN None ELSE Selector(d, l)
        f        == IF selector = None THEN None ELSE Newest(d, OfAccount(d, selector))
    IN IF f = None THEN l ELSE Account(d, f)

-----------------------------------------------------------------------------
Idle == [phase |-> "idle", region |-> "cn", product |-> "cli", attempt |-> 0, login |-> None]

(* A new cache scans at once and watches. *)
Opened == watching = TRUE /\ due = FALSE /\ closed = FALSE /\ snap = dir

LoginsInit ==
    /\ dir \in [Files -> Contents] /\ lock \in Locks /\ late = FALSE
    /\ Opened
    /\ req = [r \in Requests |-> Idle]
    /\ writes = 0 /\ losses = 0

(* A program logs in, rotates, renames or removes a file. *)
WriteLogin(f, content) ==
    /\ writes < MaxWrites /\ content # dir[f]
    /\ dir' = [dir EXCEPT ![f] = content] /\ writes' = writes + 1
    /\ due' = (due \/ watching)
    /\ UNCHANGED <<snap, late, watching, lock, closed, req, losses>>

Expire ==
    /\ late' = TRUE
    /\ UNCHANGED <<dir, snap, watching, due, lock, closed, req, writes, losses>>

(* The watcher reports an error, or the directory is replaced. *)
LoseWatch ==
    /\ watching /\ losses < MaxLosses
    /\ watching' = FALSE /\ losses' = losses + 1
    /\ UNCHANGED <<dir, snap, late, due, lock, closed, req, writes>>

Debounce ==
    /\ due /\ due' = FALSE /\ snap' = dir
    /\ UNCHANGED <<dir, late, watching, lock, closed, req, writes, losses>>

-----------------------------------------------------------------------------
(* Requests.                                                               *)

(* Variant: a new watcher trusts the old snapshot. *)
ReconcileTrusting == watching' = TRUE /\ UNCHANGED due

(* Every choice first sees to the watcher; a new one has missed events. *)
Reconcile == watching' = TRUE /\ due' = (due \/ ~watching)

Outcomes == {"served", "denied", "unavailable", "failed", "gone"}
Calling  == [phase : {"idle", "choosing", "sent"} \union Outcomes, region : Regions,
             product : Products, attempt : 0..1, login : Logins \union {None}]

Sent(r, login) == [req EXCEPT ![r].phase = "sent", ![r].login = login]
Ended(r, phase) == [req EXCEPT ![r] = [Idle EXCEPT !.phase = phase]]

Arrive(r, region, product) ==
    /\ req[r].phase = "idle" \/ req[r].phase \in Outcomes
    /\ req' = IF closed THEN Ended(r, "failed")
              ELSE [req EXCEPT ![r] = [Idle EXCEPT !.phase = "choosing",
                                                   !.region = region, !.product = product]]
    /\ UNCHANGED <<dir, snap, late, watching, due, lock, closed, writes, losses>>

(* selectCredential: without a login in the snapshot, the directory is     *)
(* read again.                                                             *)
Choose(r) ==
    /\ req[r].phase = "choosing"
    /\ Reconcile
    /\ LET first  == ForProduct(snap, dir, req[r].region, req[r].product)
           second == ForProduct(dir, dir, req[r].region, req[r].product)
       IN /\ req' = IF first # None THEN Sent(r, first)
                    ELSE IF second # None THEN Sent(r, second)
                    ELSE Ended(r, "unavailable")
          /\ snap' = IF first # None THEN snap ELSE dir
    /\ UNCHANGED <<dir, late, lock, closed, writes, losses>>

(* The provider answers, or refuses for a reason that is not the login. *)
Answer(r, phase) ==
    /\ req[r].phase = "sent" /\ phase \in {"served", "failed"}
    /\ req' = Ended(r, phase)
    /\ UNCHANGED <<dir, snap, late, watching, due, lock, closed, writes, losses>>

(* Variant: the first refusal is passed on. *)
DenyAtOnce(r) ==
    /\ req[r].phase = "sent"
    /\ req' = Ended(r, "denied")
    /\ UNCHANGED <<dir, snap, late, watching, due, lock, closed, writes, losses>>

(* 401 or 403: the directory is read again, and if that brings another    *)
(* token, the request is sent once more.                                  *)
Deny(r) ==
    /\ req[r].phase = "sent"
    /\ IF req[r].attempt > 0
       THEN req' = Ended(r, "denied") /\ UNCHANGED <<snap, watching, due>>
       ELSE LET now == ForProduct(dir, dir, req[r].region, req[r].product) IN
            /\ snap' = dir /\ Reconcile
            /\ req' = IF now = None \/ now.token = req[r].login.token THEN Ended(r, "denied")
                      ELSE [req EXCEPT ![r].phase = "choosing", ![r].attempt = 1]
    /\ UNCHANGED <<dir, late, lock, closed, writes, losses>>

Disconnect(r) ==
    /\ req[r].phase \in {"choosing", "sent"}
    /\ req' = Ended(r, "gone")
    /\ UNCHANGED <<dir, snap, late, watching, due, lock, closed, writes, losses>>

(* close(): the timer and the watcher go, and every request is aborted. *)
Close ==
    /\ ~closed /\ closed' = TRUE /\ watching' = FALSE /\ due' = FALSE
    /\ req' = [r \in Requests |-> IF req[r].phase \in {"choosing", "sent"}
                                  THEN [Idle EXCEPT !.phase = "gone"] ELSE req[r]]
    /\ UNCHANGED <<dir, snap, late, lock, writes, losses>>

(* The gateway starts again, perhaps with another account configured. *)
Reopen(l) ==
    /\ closed /\ closed' = FALSE /\ lock' = l
    /\ watching' = TRUE /\ due' = FALSE /\ snap' = dir
    /\ UNCHANGED <<dir, late, req, writes, losses>>

LoginsNext ==
    \/ \E f \in Files, content \in Contents : WriteLogin(f, content)
    \/ Expire \/ LoseWatch \/ Debounce \/ Close
    \/ \E l \in Locks : Reopen(l)
    \/ \E r \in Requests :
          \/ \E region \in Regions, product \in Products : Arrive(r, region, product)
          \/ Choose(r) \/ Deny(r) \/ Disconnect(r)
          \/ \E phase \in {"served", "failed"} : Answer(r, phase)

(* A timer of the event loop fires. *)
LoginsFairness == WF_loginVars(Debounce)

LoginsSpec == LoginsInit /\ [][LoginsNext]_loginVars /\ LoginsFairness

-----------------------------------------------------------------------------
(* Properties.                                                             *)

(* Types, and what goes together: a closed cache has no timer and no       *)
(* watcher, and works for no request; a request that was sent has a login. *)
LoginsTypeOK ==
    /\ dir \in [Files -> Contents] /\ snap \in [Files -> Contents]
    /\ {late, watching, due, closed} \subseteq BOOLEAN /\ lock \in Locks
    /\ writes \in 0..MaxWrites /\ losses \in 0..MaxLosses
    /\ closed => ~watching /\ ~due
    /\ req \in [Requests -> Calling]
    /\ \A r \in Requests :
          /\ req[r].phase = "sent" => req[r].login # None
          /\ closed => req[r].phase \notin {"choosing", "sent"}

(* A request goes out with a login of the region its model names, to the   *)
(* endpoint of its product: no account of one region pays for, or is shown *)
(* to, the other (credentials.ts 696-710).                                 *)
RegionHolds ==
    \A r \in Requests : req[r].phase = "sent" =>
        req[r].login.region = req[r].region /\ req[r].login.product = req[r].product

(* While an account is configured and one of its logins is on disk, no     *)
(* request is sent with another account, unless that file changed since    *)
(* the last scan (credentials.ts 716-737).                                 *)
LockHolds ==
    [][\A r \in Requests :
         (req[r].phase = "choosing" /\ req'[r].phase = "sent" /\ lock.kind # "auto") =>
            LET selector == Selector(dir, lock) IN
            selector # None =>
               \A f \in OfAccount(dir, selector) :
                  req'[r].login.uid = selector.uid \/ snap'[f] # dir[f]]_loginVars

(* The logins that ought to serve a request now, by the rules alone. *)
Latest(S) == {f \in S : \A g \in S : \/ dir[g].refresh < dir[f].refresh
                                     \/ dir[g].refresh = dir[f].refresh /\ dir[g].mtime <= dir[f].mtime}

Rightful(region, product) ==
    LET selector == IF lock.kind = "auto" THEN None ELSE Selector(dir, lock)
        own      == OfProfile(dir, region, product)
    IN IF selector # None /\ OfAccount(dir, selector) # {} THEN Latest(OfAccount(dir, selector))
       ELSE IF lock.kind = "file" /\ selector = None /\ dir[lock.file] # Absent THEN {lock.file}
       ELSE IF own # {} THEN Latest(own)
       ELSE Latest({f \in Found(dir) : dir[f].region = region})

Unusable(f, region) == dir[f] = Broken \/ dir[f].region # region \/ Expired(dir[f])

(* A client is told that it has no login, or that its login is refused at  *)
(* the first attempt, only if that is so of the files as they are now,     *)
(* whatever the watcher has missed (index.ts 289-341).                     *)
RefusalsAreCurrent ==
    [][\A r \in Requests :
         LET rightful == Rightful(req[r].region, req[r].product)
             hopeless == rightful = {} \/ \E f \in rightful : Unusable(f, req[r].region)
         IN /\ (req[r].phase = "choosing" /\ req'[r].phase = "unavailable") => hopeless
            /\ (req[r].phase = "sent" /\ req[r].attempt = 0 /\ req'[r].phase = "denied") =>
                  hopeless \/ \E f \in rightful : dir[f].token = req[r].login.token]_loginVars

(* The account that is shown is the one that is used, in its region, as    *)
(* far as the snapshot is up to date; a login the user picks from the list *)
(* is the one that is shown for that choice; and the entry that is marked  *)
(* for an older setting leads where this setting leads (credentials.ts     *)
(* 429-482, 538-582 and 681-751).                                          *)
ShownIsUsed ==
    /\ (~closed /\ snap = dir /\ Shown(dir, lock) # None) =>
          LET login == dir[Shown(dir, lock)] IN
          (login # Broken /\ ~Expired(login)) =>
              LET used == ForProduct(snap, dir, login.region, login.product)
              IN used # None /\ used.token = login.token
    /\ \A f \in Listed(dir) : Shown(dir, Value(dir, f)) = f
    /\ Shown(dir, Canonical(dir, lock)) = Shown(dir, lock)

(* Once the files are left alone, a watched directory is known as it is. *)
CatchesUp == <>[](watching => snap = dir)
=============================================================================
