------------------------------- MODULE MCZcode -------------------------------
(* The ZCode plugin, for TLC: the key of a plan, the catalog, the way of a  *)
(* request and its answer.  The parts share no state: a behaviour is one of *)
(* one part, beside which the others rest.                                  *)
EXTENDS ZcodeKeys, ZcodeCatalog, ZcodeForward, ZcodeAnswer, TLC

CONSTANTS anyFamily, anyLogin

VARIABLE part

keysRest == /\ keyPlan = "api"
            /\ keyWorld = [setting |-> anyFamily, login |-> Nobody, mirror |-> anyLogin, route |-> TRUE]
            /\ keyEvents = {} /\ keyWrites = 0 /\ cache = Fresh0
            /\ keyCaller = [c \in KeyClients |-> "idle"]
catalogRest ==
    /\ policy = "manual" /\ held = [r \in AllRoutes |-> Absent] /\ providers = {}
    /\ catalogFile = {} /\ reading = [c \in Readers |-> StartReader] /\ free = "unknown"
    /\ routes = PlanRoutes /\ snaps = [r \in AllRoutes |-> Absent]
    /\ published = NoPublication /\ served = {} /\ codex = {}
    /\ started = FALSE /\ shut = FALSE /\ moves = 0

(* No file of the catalog from before. *)
catalogBegins == ZcInit /\ catalogFile = {}

ZcodeInit ==
    \/ part = "keys" /\ KeyInit /\ catalogRest /\ FwdInit /\ AnswerInit
    \/ part = "catalog" /\ keysRest /\ catalogBegins /\ FwdInit /\ AnswerInit
    \/ part \in {"forward", "answer"} /\ keysRest /\ catalogRest /\ FwdInit /\ AnswerInit

ZcodeNext ==
    \/ part = "keys" /\ KeyNext /\ UNCHANGED <<part, zcVars, fwdVars, answerVars>>
    \/ part = "catalog" /\ ZcNext /\ UNCHANGED <<part, keyVars, fwdVars, answerVars>>
    \/ part = "forward" /\ FwdNext /\ UNCHANGED <<part, keyVars, zcVars, answerVars>>
    \/ part = "answer" /\ AnswerNext /\ UNCHANGED <<part, keyVars, zcVars, fwdVars>>

ZcodeSpec == ZcodeInit /\ [][ZcodeNext]_<<part, keyVars, zcVars, fwdVars, answerVars>>

Symmetry == Permutations(ZcodeRequests) \union Permutations(Readers)
=============================================================================
