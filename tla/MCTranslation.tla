--------------------------- MODULE MCTranslation ---------------------------
(* A request on its way into another protocol, a turn of the Antigravity    *)
(* plugin there and back, and a stream with the calls of an answer, for     *)
(* TLC.  The parts share no state: a behaviour is one of one part, beside   *)
(* which the others rest.                                                   *)
EXTENDS RequestConversion, AgyLoop, ClientOutput, TLC

CONSTANTS n1, n2, n3, m1, m2

VARIABLE part

(* Two names of tools become one safe name. *)
SomeNames == {n1, n2, n3}
SomeSafe  == {m1, m2}
SomeMap   == (n1 :> m1) @@ (n2 :> m2) @@ (n3 :> m2)

ConvRest ==
    ConvInit /\ route = "gemini" /\ target = "gemini" /\ declared = Empty
AgyRest == AgyInit /\ agyClient = "responses"
StreamRest == Init /\ from = "chat" /\ json = FALSE /\ to = "chat"

TranslationInit ==
    \/ part = "request" /\ ConvInit /\ AgyRest  /\ StreamRest
    \/ part = "turn"    /\ AgyInit  /\ ConvRest /\ StreamRest
    \/ part = "stream"  /\ Init     /\ ConvRest /\ AgyRest
TranslationNext ==
    \/ part = "request" /\ ConvNext /\ UNCHANGED <<part, agyVars, vars>>
    \/ part = "turn"    /\ AgyNext  /\ UNCHANGED <<part, convVars, vars>>
    \/ part = "stream"  /\ Next     /\ UNCHANGED <<part, convVars, agyVars>>

TranslationSpec ==
    TranslationInit /\ [][TranslationNext]_<<part, convVars, agyVars, vars>>

Symmetry == Permutations(Signatures) \union Permutations(CallIds)
            \union Permutations({n2, n3}) \union Permutations(Calls)
=============================================================================
