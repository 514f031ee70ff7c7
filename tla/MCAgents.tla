------------------------------ MODULE MCAgents ------------------------------
(* Instances of the agents' modules for TLC.  The parts share no state: a   *)
(* behaviour is one of either part, beside which the other part rests.      *)
EXTENDS CodebuddyLogins, CodebuddyCatalog, TLC

CONSTANTS r1, k1, k2, c1, c2

VARIABLE part

TwoFiles == 1..2
OneRequest == {r1}

Login(uid, region, product, refresh, mtime, token, expires) ==
    [uid |-> uid, region |-> region, product |-> product, refresh |-> refresh,
     mtime |-> mtime, token |-> token, expires |-> expires]

SomeUids == {"a", NoUid}

SomeRecords ==
    {Login("a", "cn", "cli", 1, 1, 1, TRUE), Login("a", "cn", "cli", 1, 2, 2, FALSE),
     Login("a", "intl", "work", 2, 1, 3, FALSE), Login(NoUid, "cn", "work", 2, 2, 4, FALSE)}

(* A file stands for an account in a region and product. *)
SomeLocks == {[kind |-> "auto"], [kind |-> "uid", uid |-> "a"], [kind |-> "file", file |-> 1]}

TwoFamilies == 1..2
OneProduct  == [f \in TwoFamilies |-> "cli"]
TwoKeys     == {k1, k2}
TwoAccounts == <<{k1, k2}, {k1}>>
TwoCallers  == {c1, c2}
SomeCalls   == {"catalog", "refresh"}

LoginsRest ==
    /\ dir = [f \in Files |-> Absent] /\ lock = [kind |-> "auto"] /\ late = FALSE
    /\ Opened /\ req = [r \in Requests |-> Idle] /\ writes = 0 /\ losses = 0

CatalogRest ==
    /\ account = [f \in Families |-> CHOOSE key \in Accounts[f] : TRUE] /\ manual = TRUE
    /\ cached = [f \in Families |-> NoEntry] /\ disk = cached
    /\ retryAt = [f \in Families |-> 0] /\ clock = 0
    /\ round = Quiet /\ pending = FALSE
    /\ callers = [c \in Callers |-> Uncalled]
    /\ newest = [f \in Families |-> NoKey] /\ forcedSince = {} /\ switches = 0

(* The keys are alike: it is enough to begin with one of them. *)
AgentsInit ==
    \/ part = "logins"  /\ LoginsInit  /\ CatalogRest
    \/ part = "catalog" /\ CatalogInit /\ account[1] = k1 /\ LoginsRest

AgentsNext ==
    \/ part = "logins"  /\ LoginsNext  /\ UNCHANGED <<part, catalogVars>>
    \/ part = "catalog" /\ CatalogNext /\ UNCHANGED <<part, loginVars>>

agentVars == <<part, loginVars, catalogVars>>

AgentsSpec == AgentsInit /\ [][AgentsNext]_agentVars /\ LoginsFairness /\ CatalogFairness

(* The plugin comes to rest: the logins are known as they are once they are *)
(* left alone, and every call of the catalog returns (credentials.ts and    *)
(* catalog.ts).                                                             *)
AgentsSettle == CatchesUp /\ CallersReturn
=============================================================================
