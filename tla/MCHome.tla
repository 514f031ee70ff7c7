------------------------------- MODULE MCHome -------------------------------
(* The commands that install and uninstall a home, and homes that take one  *)
(* Codex directory from each other, for TLC.  The parts share no state: a   *)
(* behaviour is one of one part, beside which the other rests.  Definitions *)
(* of a service are alike, and so are ports.                                *)
EXTENDS Installation, CodexOwnership, TLC

VARIABLE part

InstallRest == Init /\ toml.url = (CHOOSE u \in UserUrls : TRUE) /\ plist = None
OwnRest == OwnInit /\ client = NoHome /\ homeState = [h \in Homes |-> NoHome]

HomeInit ==
    \/ part = "install"   /\ Init    /\ OwnRest
    \/ part = "ownership" /\ OwnInit /\ InstallRest
HomeNext ==
    \/ part = "install"   /\ Next    /\ UNCHANGED <<part, ownVars>>
    \/ part = "ownership" /\ OwnNext /\ UNCHANGED <<part, vars>>

HomeSpec == HomeInit /\ [][HomeNext]_<<part, vars, ownVars>>

Symmetry == Permutations(Builds) \union Permutations(Ports)
=============================================================================
