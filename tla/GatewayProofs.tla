--------------------------- MODULE GatewayProofs ---------------------------
(***************************************************************************)
(* Theorems about ModelReload, for any set of savers, any bound on faults  *)
(* and any length of the receipt history, and about WsBridge, whatever the *)
(* number of frames: its types, that no bridge is half open, the life of   *)
(* the log reference, and that it implements FramePipe.                    *)
(***************************************************************************)
EXTENDS ModelReload, WsBridge, SequenceTheorems, FiniteSetTheorems, TLAPS

(* Cutting the history keeps receipts of the history and meets the bound. *)
LEMMA NewestProperties ==
    ASSUME NEW receipts \in Seq(Receipt)
    PROVE  /\ Newest(receipts) \in Seq(Receipt)
           /\ Len(Newest(receipts)) <= MaxReceipts
           /\ \A i \in DOMAIN Newest(receipts) :
                 \E j \in DOMAIN receipts : Newest(receipts)[i] = receipts[j]
<1>1. CASE Len(receipts) > MaxReceipts
  BY <1>1, BoundsAssumption, SubSeqProperties DEF Newest
<1>2. CASE ~(Len(receipts) > MaxReceipts)
  BY <1>2, BoundsAssumption, SubSeqProperties DEF Newest
<1>3. QED BY <1>1, <1>2

(* A round writes one receipt for a revision of its batch at every place. *)
LEMMA ReceiptsType ==
    ASSUME NEW g \in Gateways, TypeOK, NEW order \in Orders(g)
    PROVE  /\ Receipts(g, order) \in Seq(Receipt)
           /\ \A i \in DOMAIN Receipts(g, order) :
                 Receipts(g, order)[i].revision \in batch[g]
                 /\ Receipts(g, order)[i].status = outcome[g]
<1>1. order \in [1..Cardinality(batch[g]) -> batch[g]]
  BY DEF Orders, SetToSeqs
<1>2. batch[g] \subseteq Savers /\ outcome[g] \in {"loaded", "failed"}
  BY DEF TypeOK, RoundOK
<1>3. Cardinality(batch[g]) \in Nat
  <2>1. IsFiniteSet(batch[g])
    BY <1>2, SaversAssumption, FS_Subset
  <2>2. QED BY <2>1, FS_CardinalityType
<1>4. DOMAIN order = 1..Cardinality(batch[g])
  BY <1>1
<1>5. \A i \in DOMAIN order : order[i] \in batch[g]
  BY <1>1
<1>6. /\ Receipts(g, order) \in [1..Cardinality(batch[g]) -> Receipt]
      /\ \A i \in DOMAIN Receipts(g, order) :
            Receipts(g, order)[i].revision \in batch[g]
            /\ Receipts(g, order)[i].status = outcome[g]
  BY <1>2, <1>4, <1>5 DEF Receipts, Receipt
<1>7. QED BY <1>3, <1>6, SeqDef

LEMMA TypeInit == Init => TypeOK
<1> SUFFICES ASSUME Init PROVE TypeOK
  OBVIOUS
<1>1. Version = 1
  BY DEF Init, Version
<1>2. FilesOK
  BY <1>1, BoundsAssumption DEF Init, FilesOK
<1>3. ClientsOK
  BY <1>1 DEF Init, ClientsOK, SaverStates
<1>4. ProcessOK
  BY <1>1 DEF Init, ProcessOK, ChainStates
<1>5. RoundOK
  BY <1>1 DEF Init, RoundOK
<1>6. QED
  BY <1>2, <1>3, <1>4, <1>5, BoundsAssumption DEF Init, TypeOK

(* config.json is only ever appended to, so a version stays a version. *)
LEMMA VersionGrows ==
    ASSUME TypeOK, [Next]_vars
    PROVE  /\ Version \in Nat /\ Version' \in Nat /\ Version <= Version'
           /\ 0..Version \subseteq 0..Version' /\ 1..Version \subseteq 1..Version'
           /\ content' \in Seq(Savers \cup {None})
<1> USE DEF TypeOK, FilesOK, ClientsOK, Version, vars, files
<1>1. CASE UNCHANGED content
  BY <1>1
<1>2. ASSUME NEW s \in Savers, Save(s) PROVE Version' = Version + 1 /\ content' \in Seq(Savers \cup {None})
  BY <1>2, AppendProperties DEF Save
<1>3. ASSUME NEW s \in Savers, Restore(s) PROVE Version' = Version + 1 /\ content' \in Seq(Savers \cup {None})
  <2>1. snapshot[s].version \in 1..Len(content)
    OBVIOUS
  <2>2. content[snapshot[s].version] \in Savers \cup {None}
    BY <2>1, ElementOfSeq
  <2>3. QED BY <1>3, <2>2, AppendProperties DEF Restore
<1>4. UNCHANGED content \/ \E s \in Savers : Save(s) \/ Restore(s)
  BY DEF Next, SaverStep, GatewayStep, ChainStep, Prepare, WriteCatalog, SaveFails, QueueRequest, WriteLatest, Probe,
         ProbeAnswered, SeeLoaded, GiveUp, SaverDies, Boot, Bind, StartupReady,
         StartupFails, ReadLatest, ListQueue, ReadConfig, Publish, ReloadFails,
         Confirm, ClearOne, RoundFails, Crash, Stop, Exit
<1>5. QED BY <1>1, <1>2, <1>3, <1>4

LEMMA TypeStep == TypeOK /\ [Next]_vars => TypeOK'
<1> SUFFICES ASSUME TypeOK, [Next]_vars PROVE TypeOK'
  OBVIOUS
<1>0. /\ Version \in Nat /\ Version' \in Nat /\ Version <= Version'
      /\ 0..Version \subseteq 0..Version' /\ 1..Version \subseteq 1..Version'
      /\ content' \in Seq(Savers \cup {None})
  BY VersionGrows
<1> USE <1>0 DEF TypeOK, vars, files, clients, process, round
<1>1. ASSUME NEW s \in Savers, Prepare(s) PROVE TypeOK'
  <2>1. FilesOK'
    BY <1>1 DEF Prepare, FilesOK, ClientsOK
  <2>2. ClientsOK'
    BY <1>1 DEF Prepare, FilesOK, ClientsOK, Becomes, SaverStates
  <2>3. ProcessOK'
    BY <1>1 DEF Prepare, ProcessOK, ChainStates
  <2>4. RoundOK'
    BY <1>1 DEF Prepare, FilesOK, RoundOK
  <2>5. QED BY <1>1, <2>1, <2>2, <2>3, <2>4 DEF Prepare
<1>2. ASSUME NEW s \in Savers, Save(s) PROVE TypeOK'
  <2>1. FilesOK'
    BY <1>2 DEF Save, FilesOK, ClientsOK
  <2>2. ClientsOK'
    <3>1. Version' = Version + 1
      BY <1>2, AppendProperties DEF Save, Version, FilesOK
    <3>2. savedAt' \in [Savers -> 0..Version']
      BY <1>2, <3>1 DEF Save, ClientsOK
    <3>3. snapshot' \in [Savers -> [version : 1..Version', catalog : 1..Version']]
      BY <1>2 DEF Save, ClientsOK
    <3>4. saver' \in [Savers -> SaverStates]
      BY <1>2 DEF Save, ClientsOK, Becomes, SaverStates
    <3>5. \A t \in Savers : saver'[t] = "saved" => savedAt'[t] >= 1
      BY <1>2 DEF Save, ClientsOK, Becomes, SaverStates
    <3>6. QED BY <3>2, <3>3, <3>4, <3>5 DEF ClientsOK
  <2>3. ProcessOK'
    BY <1>2 DEF Save, ProcessOK, ChainStates
  <2>4. RoundOK'
    BY <1>2 DEF Save, FilesOK, RoundOK
  <2>5. QED BY <1>2, <2>1, <2>2, <2>3, <2>4 DEF Save
<1>3. ASSUME NEW s \in Savers, WriteCatalog(s) PROVE TypeOK'
  <2>1. FilesOK'
    BY <1>3 DEF WriteCatalog, FilesOK, ClientsOK
  <2>2. ClientsOK'
    BY <1>3 DEF WriteCatalog, FilesOK, ClientsOK, Becomes, SaverStates
  <2>3. ProcessOK'
    BY <1>3 DEF WriteCatalog, ProcessOK, ChainStates
  <2>4. RoundOK'
    BY <1>3 DEF WriteCatalog, FilesOK, RoundOK
  <2>5. QED BY <1>3, <2>1, <2>2, <2>3, <2>4 DEF WriteCatalog
<1>4. ASSUME NEW s \in Savers, SaveFails(s) PROVE TypeOK'
  <2>1. FilesOK'
    BY <1>4 DEF SaveFails, Restore, Fault, FilesOK, ClientsOK
  <2>2. ClientsOK'
    <3>1. savedAt' \in [Savers -> 0..Version']
      BY <1>4 DEF SaveFails, Fault, ClientsOK
    <3>2. snapshot' \in [Savers -> [version : 1..Version', catalog : 1..Version']]
      BY <1>4 DEF SaveFails, Fault, ClientsOK
    <3>3. saver' \in [Savers -> SaverStates]
      BY <1>4 DEF SaveFails, Fault, ClientsOK, Becomes, SaverStates
    <3>4. \A t \in Savers : saver'[t] = "saved" => savedAt'[t] >= 1
      BY <1>4 DEF SaveFails, Fault, ClientsOK, Becomes, SaverStates
    <3>5. QED BY <3>1, <3>2, <3>3, <3>4 DEF ClientsOK
  <2>3. ProcessOK'
    BY <1>4 DEF SaveFails, Restore, Fault, ProcessOK, ChainStates
  <2>4. RoundOK'
    BY <1>4 DEF SaveFails, Restore, Fault, FilesOK, RoundOK
  <2>5. QED BY <1>4, <2>1, <2>2, <2>3, <2>4, BoundsAssumption DEF SaveFails, Restore, Fault
<1>5. ASSUME NEW s \in Savers, QueueRequest(s) PROVE TypeOK'
  <2>1. FilesOK'
    BY <1>5 DEF QueueRequest, FilesOK, ClientsOK
  <2>2. ClientsOK'
    BY <1>5 DEF QueueRequest, FilesOK, ClientsOK, Becomes, SaverStates
  <2>3. ProcessOK'
    BY <1>5 DEF QueueRequest, ProcessOK, ChainStates
  <2>4. RoundOK'
    BY <1>5 DEF QueueRequest, FilesOK, RoundOK
  <2>5. QED BY <1>5, <2>1, <2>2, <2>3, <2>4 DEF QueueRequest
<1>6. ASSUME NEW s \in Savers, WriteLatest(s) PROVE TypeOK'
  <2>1. FilesOK'
    BY <1>6 DEF WriteLatest, FilesOK, ClientsOK
  <2>2. ClientsOK'
    BY <1>6 DEF WriteLatest, FilesOK, ClientsOK, Becomes, SaverStates
  <2>3. ProcessOK'
    BY <1>6 DEF WriteLatest, ProcessOK, ChainStates
  <2>4. RoundOK'
    BY <1>6 DEF WriteLatest, FilesOK, RoundOK
  <2>5. QED BY <1>6, <2>1, <2>2, <2>3, <2>4 DEF WriteLatest
<1>7. ASSUME NEW s \in Savers, Probe(s) PROVE TypeOK'
  <2>1. FilesOK'
    BY <1>7 DEF Probe, FilesOK, ClientsOK
  <2>2. ClientsOK'
    BY <1>7 DEF Probe, FilesOK, ClientsOK, Becomes, SaverStates, Version
  <2>3. ProcessOK'
    BY <1>7, GatewaysAssumption DEF Probe, ProcessOK, ChainStates, Version
  <2>4. RoundOK'
    BY <1>7, GatewaysAssumption DEF Probe, FilesOK, RoundOK, Version
  <2>5. QED BY <1>7, <2>1, <2>2, <2>3, <2>4 DEF Probe
<1>8. ASSUME NEW s \in Savers, ProbeAnswered(s) PROVE TypeOK'
  <2>1. FilesOK'
    BY <1>8 DEF ProbeAnswered, FilesOK, ClientsOK
  <2>2. ClientsOK'
    BY <1>8 DEF ProbeAnswered, FilesOK, ClientsOK, Becomes, SaverStates
  <2>3. ProcessOK'
    BY <1>8 DEF ProbeAnswered, ProcessOK, ChainStates
  <2>4. RoundOK'
    BY <1>8 DEF ProbeAnswered, FilesOK, RoundOK
  <2>5. QED BY <1>8, <2>1, <2>2, <2>3, <2>4 DEF ProbeAnswered
<1>9. ASSUME NEW s \in Savers, SeeLoaded(s) PROVE TypeOK'
  <2>1. FilesOK'
    BY <1>9 DEF SeeLoaded, FilesOK, ClientsOK
  <2>2. ClientsOK'
    BY <1>9 DEF SeeLoaded, FilesOK, ClientsOK, Becomes, SaverStates
  <2>3. ProcessOK'
    BY <1>9 DEF SeeLoaded, ProcessOK, ChainStates
  <2>4. RoundOK'
    BY <1>9 DEF SeeLoaded, FilesOK, RoundOK
  <2>5. QED BY <1>9, <2>1, <2>2, <2>3, <2>4 DEF SeeLoaded
<1>10. ASSUME NEW s \in Savers, GiveUp(s) PROVE TypeOK'
  <2>1. FilesOK'
    BY <1>10 DEF GiveUp, Restore, FilesOK, ClientsOK
  <2>2. ClientsOK'
    <3>1. savedAt' \in [Savers -> 0..Version']
      BY <1>10 DEF GiveUp, ClientsOK
    <3>2. snapshot' \in [Savers -> [version : 1..Version', catalog : 1..Version']]
      BY <1>10 DEF GiveUp, ClientsOK
    <3>3. saver' \in [Savers -> SaverStates]
      BY <1>10 DEF GiveUp, ClientsOK, Becomes, SaverStates
    <3>4. \A t \in Savers : saver'[t] = "saved" => savedAt'[t] >= 1
      BY <1>10 DEF GiveUp, ClientsOK, Becomes, SaverStates
    <3>5. QED BY <3>1, <3>2, <3>3, <3>4 DEF ClientsOK
  <2>3. ProcessOK'
    BY <1>10 DEF GiveUp, Restore, ProcessOK, ChainStates
  <2>4. RoundOK'
    BY <1>10 DEF GiveUp, Restore, FilesOK, RoundOK
  <2>5. QED BY <1>10, <2>1, <2>2, <2>3, <2>4 DEF GiveUp, Restore
<1>11. ASSUME NEW s \in Savers, SaverDies(s) PROVE TypeOK'
  <2>1. FilesOK'
    BY <1>11 DEF SaverDies, Fault, FilesOK, ClientsOK
  <2>2. ClientsOK'
    BY <1>11 DEF SaverDies, Fault, FilesOK, ClientsOK, Becomes, SaverStates
  <2>3. ProcessOK'
    BY <1>11 DEF SaverDies, Fault, ProcessOK, ChainStates
  <2>4. RoundOK'
    BY <1>11 DEF SaverDies, Fault, FilesOK, RoundOK
  <2>5. QED BY <1>11, <2>1, <2>2, <2>3, <2>4, BoundsAssumption DEF SaverDies, Fault
<1>12. ASSUME NEW g \in Gateways, Boot(g) PROVE TypeOK'
  <2>1. FilesOK'
    BY <1>12 DEF Boot, FilesOK, ProcessOK, RoundOK, Version
  <2>2. ClientsOK'
    BY <1>12 DEF Boot, ClientsOK, SaverStates, Version
  <2>3. ProcessOK'
    BY <1>12 DEF Boot, At, FilesOK, ProcessOK, RoundOK, ChainStates, Version
  <2>4. RoundOK'
    BY <1>12 DEF Boot, FilesOK, RoundOK, Version
  <2>5. QED BY <1>12, <2>1, <2>2, <2>3, <2>4 DEF Boot
<1>13. ASSUME NEW g \in Gateways, Bind(g) PROVE TypeOK'
  <2>1. FilesOK'
    BY <1>13 DEF Bind, FilesOK, ProcessOK, RoundOK, Version
  <2>2. ClientsOK'
    BY <1>13 DEF Bind, ClientsOK, SaverStates, Version
  <2>3. ProcessOK'
    BY <1>13 DEF Bind, At, FilesOK, ProcessOK, RoundOK, ChainStates, Version
  <2>4. RoundOK'
    BY <1>13 DEF Bind, FilesOK, RoundOK, Version
  <2>5. QED BY <1>13, <2>1, <2>2, <2>3, <2>4 DEF Bind
<1>14. ASSUME NEW g \in Gateways, StartupReady(g) PROVE TypeOK'
  <2>1. FilesOK'
    BY <1>14 DEF StartupReady, FilesOK, ProcessOK, RoundOK, Version
  <2>2. ClientsOK'
    BY <1>14 DEF StartupReady, ClientsOK, SaverStates, Version
  <2>3. ProcessOK'
    BY <1>14 DEF StartupReady, At, FilesOK, ProcessOK, RoundOK, ChainStates, Version
  <2>4. RoundOK'
    BY <1>14 DEF StartupReady, FilesOK, RoundOK, Version
  <2>5. QED BY <1>14, <2>1, <2>2, <2>3, <2>4 DEF StartupReady
<1>15. ASSUME NEW g \in Gateways, StartupFails(g) PROVE TypeOK'
  <2>1. FilesOK'
    BY <1>15 DEF StartupFails, Fault, FilesOK, ProcessOK, RoundOK, Version
  <2>2. ClientsOK'
    BY <1>15 DEF StartupFails, Fault, ClientsOK, SaverStates, Version
  <2>3. ProcessOK'
    BY <1>15 DEF StartupFails, Fault, At, FilesOK, ProcessOK, RoundOK, ChainStates, Version
  <2>4. RoundOK'
    BY <1>15 DEF StartupFails, Fault, FilesOK, RoundOK, Version
  <2>5. QED BY <1>15, <2>1, <2>2, <2>3, <2>4, BoundsAssumption DEF StartupFails, Fault
<1>16. ASSUME NEW g \in Gateways, ReadLatest(g) PROVE TypeOK'
  <2>1. FilesOK'
    BY <1>16 DEF ReadLatest, FilesOK, ProcessOK, RoundOK, Version
  <2>2. ClientsOK'
    BY <1>16 DEF ReadLatest, ClientsOK, SaverStates, Version
  <2>3. ProcessOK'
    BY <1>16 DEF ReadLatest, At, FilesOK, ProcessOK, RoundOK, ChainStates, Version
  <2>4. RoundOK'
    BY <1>16 DEF ReadLatest, FilesOK, RoundOK, Version
  <2>5. QED BY <1>16, <2>1, <2>2, <2>3, <2>4 DEF ReadLatest
<1>17. ASSUME NEW g \in Gateways, ListQueue(g) PROVE TypeOK'
  <2>1. FilesOK'
    BY <1>17 DEF ListQueue, Unconfirmed, FilesOK, ProcessOK, RoundOK, Version
  <2>2. ClientsOK'
    BY <1>17 DEF ListQueue, Unconfirmed, ClientsOK, SaverStates, Version
  <2>3. ProcessOK'
    BY <1>17 DEF ListQueue, Unconfirmed, At, FilesOK, ProcessOK, RoundOK, ChainStates, Version
  <2>4. RoundOK'
    BY <1>17 DEF ListQueue, Unconfirmed, FilesOK, RoundOK, Version
  <2>5. QED BY <1>17, <2>1, <2>2, <2>3, <2>4 DEF ListQueue, Unconfirmed
<1>18. ASSUME NEW g \in Gateways, ReadConfig(g) PROVE TypeOK'
  <2>1. FilesOK'
    BY <1>18 DEF ReadConfig, FilesOK, ProcessOK, RoundOK, Version
  <2>2. ClientsOK'
    BY <1>18 DEF ReadConfig, ClientsOK, SaverStates, Version
  <2>3. ProcessOK'
    BY <1>18 DEF ReadConfig, At, FilesOK, ProcessOK, RoundOK, ChainStates, Version
  <2>4. RoundOK'
    BY <1>18 DEF ReadConfig, FilesOK, RoundOK, Version
  <2>5. QED BY <1>18, <2>1, <2>2, <2>3, <2>4 DEF ReadConfig
<1>19. ASSUME NEW g \in Gateways, Publish(g) PROVE TypeOK'
  <2>1. FilesOK'
    BY <1>19 DEF Publish, FilesOK, ProcessOK, RoundOK, Version
  <2>2. ClientsOK'
    BY <1>19 DEF Publish, ClientsOK, SaverStates, Version
  <2>3. ProcessOK'
    BY <1>19 DEF Publish, At, FilesOK, ProcessOK, RoundOK, ChainStates, Version
  <2>4. RoundOK'
    BY <1>19 DEF Publish, FilesOK, RoundOK, Version
  <2>5. QED BY <1>19, <2>1, <2>2, <2>3, <2>4 DEF Publish
<1>20. ASSUME NEW g \in Gateways, ReloadFails(g) PROVE TypeOK'
  <2>1. FilesOK'
    BY <1>20 DEF ReloadFails, Fault, FilesOK, ProcessOK, RoundOK, Version
  <2>2. ClientsOK'
    BY <1>20 DEF ReloadFails, Fault, ClientsOK, SaverStates, Version
  <2>3. ProcessOK'
    BY <1>20 DEF ReloadFails, Fault, At, FilesOK, ProcessOK, RoundOK, ChainStates, Version
  <2>4. RoundOK'
    BY <1>20 DEF ReloadFails, Fault, FilesOK, RoundOK, Version
  <2>5. QED BY <1>20, <2>1, <2>2, <2>3, <2>4, BoundsAssumption DEF ReloadFails, Fault
<1>21. ASSUME NEW g \in Gateways, Confirm(g) PROVE TypeOK'
  <2>1. FilesOK'
    <3>1. PICK order \in Orders(g) : results' = Newest(base[g] \o Receipts(g, order))
      BY <1>21 DEF Confirm
    <3>2. base[g] \o Receipts(g, order) \in Seq(Receipt)
      BY ReceiptsType, ConcatProperties DEF RoundOK
    <3>3. results' \in Seq(Receipt) /\ Len(results') <= MaxReceipts
      BY <3>1, <3>2, NewestProperties
    <3>4. QED BY <1>21, <3>3 DEF Confirm, FilesOK, Version
  <2>2. ClientsOK'
    BY <1>21 DEF Confirm, ClientsOK, SaverStates, Version
  <2>3. ProcessOK'
    BY <1>21 DEF Confirm, At, FilesOK, ProcessOK, RoundOK, ChainStates, Version
  <2>4. RoundOK'
    BY <1>21 DEF Confirm, FilesOK, RoundOK, Version
  <2>5. QED BY <1>21, <2>1, <2>2, <2>3, <2>4 DEF Confirm, RoundOK
<1>22. ASSUME NEW g \in Gateways, ClearOne(g) PROVE TypeOK'
  <2>1. FilesOK'
    BY <1>22 DEF ClearOne, FilesOK, ProcessOK, RoundOK, Version
  <2>2. ClientsOK'
    BY <1>22 DEF ClearOne, ClientsOK, SaverStates, Version
  <2>3. ProcessOK'
    BY <1>22 DEF ClearOne, At, FilesOK, ProcessOK, RoundOK, ChainStates, Version
  <2>4. RoundOK'
    BY <1>22 DEF ClearOne, FilesOK, RoundOK, Version
  <2>5. QED BY <1>22, <2>1, <2>2, <2>3, <2>4 DEF ClearOne
<1>23. ASSUME NEW g \in Gateways, RoundFails(g) PROVE TypeOK'
  <2>1. FilesOK'
    BY <1>23 DEF RoundFails, ForgetRound, LoseProbes, Fault, FilesOK, ProcessOK, RoundOK, Version
  <2>2. ClientsOK'
    BY <1>23 DEF RoundFails, ForgetRound, LoseProbes, Fault, ClientsOK, SaverStates, Version
  <2>3. ProcessOK'
    BY <1>23 DEF RoundFails, ForgetRound, LoseProbes, Fault, At, FilesOK, ProcessOK, RoundOK, ChainStates, Version
  <2>4. RoundOK'
    BY <1>23 DEF RoundFails, ForgetRound, LoseProbes, Fault, FilesOK, RoundOK, Version
  <2>5. QED BY <1>23, <2>1, <2>2, <2>3, <2>4, BoundsAssumption DEF RoundFails, ForgetRound, LoseProbes, Fault
<1>24. ASSUME NEW g \in Gateways, Crash(g) PROVE TypeOK'
  <2>1. FilesOK'
    BY <1>24 DEF Crash, ForgetRound, LoseProbes, Fault, FilesOK, ProcessOK, RoundOK, Version
  <2>2. ClientsOK'
    BY <1>24 DEF Crash, ForgetRound, LoseProbes, Fault, ClientsOK, SaverStates, Version
  <2>3. ProcessOK'
    BY <1>24 DEF Crash, ForgetRound, LoseProbes, Fault, At, FilesOK, ProcessOK, RoundOK, ChainStates, Version
  <2>4. RoundOK'
    BY <1>24 DEF Crash, ForgetRound, LoseProbes, Fault, FilesOK, RoundOK, Version
  <2>5. QED BY <1>24, <2>1, <2>2, <2>3, <2>4, BoundsAssumption DEF Crash, ForgetRound, LoseProbes, Fault
<1>25. ASSUME NEW g \in Gateways, Stop(g) PROVE TypeOK'
  <2>1. FilesOK'
    BY <1>25 DEF Stop, LoseProbes, Fault, FilesOK, ProcessOK, RoundOK, Version
  <2>2. ClientsOK'
    BY <1>25 DEF Stop, LoseProbes, Fault, ClientsOK, SaverStates, Version
  <2>3. ProcessOK'
    BY <1>25 DEF Stop, LoseProbes, Fault, At, FilesOK, ProcessOK, RoundOK, ChainStates, Version
  <2>4. RoundOK'
    BY <1>25 DEF Stop, LoseProbes, Fault, FilesOK, RoundOK, Version
  <2>5. QED BY <1>25, <2>1, <2>2, <2>3, <2>4, BoundsAssumption DEF Stop, LoseProbes, Fault
<1>26. ASSUME NEW g \in Gateways, Exit(g) PROVE TypeOK'
  <2>1. FilesOK'
    BY <1>26 DEF Exit, ForgetRound, FilesOK, ProcessOK, RoundOK, Version
  <2>2. ClientsOK'
    BY <1>26 DEF Exit, ForgetRound, ClientsOK, SaverStates, Version
  <2>3. ProcessOK'
    BY <1>26 DEF Exit, ForgetRound, At, FilesOK, ProcessOK, RoundOK, ChainStates, Version
  <2>4. RoundOK'
    BY <1>26 DEF Exit, ForgetRound, FilesOK, RoundOK, Version
  <2>5. QED BY <1>26, <2>1, <2>2, <2>3, <2>4 DEF Exit, ForgetRound
<1>27. CASE UNCHANGED vars
  BY <1>27 DEF FilesOK, ClientsOK, ProcessOK, RoundOK, Version
<1>28. QED
  BY <1>1, <1>2, <1>3, <1>4, <1>5, <1>6, <1>7, <1>8, <1>9, <1>10, <1>11,
     <1>12, <1>13, <1>14, <1>15, <1>16, <1>17, <1>18, <1>19, <1>20, <1>21,
     <1>22, <1>23, <1>24, <1>25, <1>26, <1>27
     DEF Next, SaverStep, GatewayStep, ChainStep

(* Every state of the protocol is of the declared shape: in particular     *)
(* every version anyone holds was written, and the receipt file keeps its  *)
(* bound (MAX_RECEIPTS).                                                   *)
THEOREM TypeCorrect == Spec => []TypeOK
BY TypeInit, TypeStep, PTL DEF Spec

-----------------------------------------------------------------------------
(* A revision is answered before its notification is dropped.              *)

QueueInv ==
    /\ NoRequestLost
    /\ Confirmed(results) \subseteq answered
    /\ \A g \in Gateways :
          /\ Confirmed(base[g]) \subseteq answered
          /\ gpc[g] = "clearing" => batch[g] \subseteq answered

LEMMA QueueInit == Init => QueueInv
BY DEF Init, QueueInv, NoRequestLost, Confirmed

(* What a round writes: receipts it found in the file, and receipts of its *)
(* batch with its own outcome.                                             *)
LEMMA ConfirmWrites ==
    ASSUME TypeOK, NEW g \in Gateways, Confirm(g)
    PROVE  \A i \in DOMAIN results' :
              \/ \E j \in DOMAIN base[g] : results'[i] = base[g][j]
              \/ results'[i].revision \in batch[g] /\ results'[i].status = outcome[g]
<1>1. PICK order \in Orders(g) : results' = Newest(base[g] \o Receipts(g, order))
  BY DEF Confirm
<1>2. base[g] \in Seq(Receipt) /\ Receipts(g, order) \in Seq(Receipt)
  BY ReceiptsType DEF TypeOK, RoundOK
<1>3. base[g] \o Receipts(g, order) \in Seq(Receipt)
  BY <1>2, ConcatProperties
<1>4. ASSUME NEW i \in DOMAIN results'
      PROVE  \/ \E j \in DOMAIN base[g] : results'[i] = base[g][j]
             \/ results'[i].revision \in batch[g] /\ results'[i].status = outcome[g]
  <2>1. PICK k \in DOMAIN (base[g] \o Receipts(g, order)) :
           results'[i] = (base[g] \o Receipts(g, order))[k]
    BY <1>1, <1>3, <1>4, NewestProperties
  <2>2. CASE k <= Len(base[g])
    <3>1. k \in DOMAIN base[g] /\ results'[i] = base[g][k]
      BY <1>2, <2>1, <2>2
    <3>2. QED BY <3>1
  <2>3. CASE ~(k <= Len(base[g]))
    <3>1. /\ k - Len(base[g]) \in DOMAIN Receipts(g, order)
          /\ results'[i] = Receipts(g, order)[k - Len(base[g])]
      BY <1>2, <2>1, <2>3
    <3>2. QED BY <3>1, ReceiptsType
  <2>4. QED BY <2>2, <2>3
<1>5. QED BY <1>4

LEMMA QueueStep == TypeOK /\ QueueInv /\ [Next]_vars => QueueInv'
<1> SUFFICES ASSUME TypeOK, QueueInv, [Next]_vars PROVE QueueInv'
  OBVIOUS
<1> USE DEF QueueInv, NoRequestLost, Confirmed, TypeOK, ClientsOK, ProcessOK,
            RoundOK, vars, files, clients, process, round
<1>1. ASSUME NEW s \in Savers, SaverStep(s) PROVE QueueInv'
  <2>1. UNCHANGED <<results, base, batch, answered>>
    BY <1>1 DEF SaverStep, Prepare, Save, WriteCatalog, SaveFails, QueueRequest,
       WriteLatest, Probe, ProbeAnswered, SeeLoaded, GiveUp, SaverDies
  <2>2. \A g \in Gateways : gpc'[g] = "clearing" => gpc[g] = "clearing"
    BY <1>1 DEF SaverStep, Prepare, Save, WriteCatalog, SaveFails, QueueRequest,
       WriteLatest, Probe, ProbeAnswered, SeeLoaded, GiveUp, SaverDies
  <2>3. queue \subseteq queue'
    BY <1>1 DEF SaverStep, Prepare, Save, WriteCatalog, SaveFails, QueueRequest,
       WriteLatest, Probe, ProbeAnswered, SeeLoaded, GiveUp, SaverDies
  <2>4. NoRequestLost'
    BY <1>1, <2>1, <2>3 DEF SaverStep, Prepare, Save, WriteCatalog, SaveFails,
       QueueRequest, WriteLatest, Probe, ProbeAnswered, SeeLoaded, GiveUp,
       SaverDies, Becomes
  <2>5. QED BY <2>1, <2>2, <2>4
<1>2. ASSUME NEW g \in Gateways, ListQueue(g) PROVE QueueInv'
  BY <1>2 DEF ListQueue, At
<1>3. ASSUME NEW g \in Gateways, Confirm(g) PROVE QueueInv'
  <2>1. Confirmed(results') \subseteq answered'
    <3>1. \A i \in DOMAIN results' : results'[i].revision \in answered \cup batch[g]
      BY <1>3, ConfirmWrites
    <3>2. QED BY <1>3, <3>1 DEF Confirm
  <2>2. NoRequestLost'
    BY <1>3 DEF Confirm
  <2>3. QED BY <1>3, <2>1, <2>2 DEF Confirm, At
<1>4. ASSUME NEW g \in Gateways, ClearOne(g) PROVE QueueInv'
  BY <1>4 DEF ClearOne, At
<1>5. ASSUME NEW g \in Gateways, RoundFails(g) \/ Crash(g) \/ Exit(g) PROVE QueueInv'
  <2>1. UNCHANGED <<queue, results, answered>>
    BY <1>5 DEF RoundFails, Crash, Exit
  <2>2. NoRequestLost'
    BY <1>5, <2>1 DEF RoundFails, Crash, Exit, LoseProbes
  <2>3. ASSUME NEW h \in Gateways
        PROVE  Confirmed(base'[h]) \subseteq answered /\ (gpc'[h] = "clearing" => batch'[h] \subseteq answered)
    <3>1. CASE h = g
      <4>1. base'[h] = <<>> /\ batch'[h] = {}
        BY <1>5, <3>1 DEF RoundFails, Crash, Exit, ForgetRound
      <4>2. QED BY <4>1
    <3>2. CASE h # g
      BY <1>5, <3>2 DEF RoundFails, Crash, Exit, ForgetRound, At
    <3>3. QED BY <3>1, <3>2
  <2>4. QED BY <2>1, <2>2, <2>3
<1>6. ASSUME NEW g \in Gateways, Stop(g) PROVE QueueInv'
  BY <1>6 DEF Stop, LoseProbes
<1>7. ASSUME NEW g \in Gateways,
             Boot(g) \/ Bind(g) \/ StartupReady(g) \/ StartupFails(g) \/ ReadLatest(g)
             \/ ReadConfig(g) \/ Publish(g) \/ ReloadFails(g)
      PROVE  QueueInv'
  <2>1. UNCHANGED <<queue, results, saver, base, batch, answered>>
    BY <1>7 DEF Boot, Bind, StartupReady, StartupFails, ReadLatest, ReadConfig, Publish, ReloadFails
  <2>2. \A h \in Gateways : gpc'[h] = "clearing" => gpc[h] = "clearing"
    BY <1>7 DEF Boot, Bind, StartupReady, StartupFails, ReadLatest, ReadConfig, Publish, ReloadFails, At
  <2>3. QED BY <2>1, <2>2
<1>8. CASE UNCHANGED vars
  BY <1>8
<1>9. QED
  BY <1>1, <1>2, <1>3, <1>4, <1>5, <1>6, <1>7, <1>8 DEF Next, GatewayStep, ChainStep

(* No notification is dropped without an answer, for any number of gateway *)
(* processes that share the files.                                         *)
THEOREM RequestsAreKept == Spec => []NoRequestLost
<1>1. QueueInv => NoRequestLost
  BY DEF QueueInv
<1>2. QED BY <1>1, TypeInit, TypeStep, QueueInit, QueueStep, PTL DEF Spec

-----------------------------------------------------------------------------
(* "Loaded" is the truth when one gateway process owns the runtime home.    *)

SoleGateway == Gateways = {Primary}

Loaded(s) == HasReceipt(s, "loaded") \/ saver[s] = "loaded"

(* Before a saver wrote config.json nothing mentions its revision. *)
Unwritten(s) ==
    /\ s \notin queue /\ s # latestReq /\ s \notin Confirmed(results)
    /\ \A g \in Gateways : s \notin batch[g] /\ s # seenLatest[g]

(* The strengthening: the version a round serves is at least as new as the *)
(* version of every revision in its batch, because the batch is listed     *)
(* before config.json is read, and no process but this one writes receipts. *)
ServedInv ==
    /\ \A s \in Savers : saver[s] \in {"new", "prepared"} => Unwritten(s)
    /\ gpc[Primary] \in {"listed", "reloading", "confirming"} => base[Primary] = results
    /\ gpc[Primary] = "reloading" =>
          /\ config[Primary] <= next[Primary]
          /\ \A s \in batch[Primary] : savedAt[s] <= next[Primary]
    /\ gpc[Primary] = "confirming" /\ ~closed[Primary] /\ outcome[Primary] = "loaded" =>
          \A s \in batch[Primary] : savedAt[s] <= config[Primary]
    /\ \A s \in Savers :
          Loaded(s) /\ gpc[Primary] # "down" /\ ~closed[Primary] => savedAt[s] <= config[Primary]

LEMMA ServedInit == Init => ServedInv
BY NoneAssumption, GatewaysAssumption
   DEF Init, ServedInv, Unwritten, Loaded, HasReceipt, Confirmed

LEMMA ServedStep ==
    ASSUME SoleGateway, TypeOK, ServedInv, [Next]_vars
    PROVE  ServedInv'
<1>0. /\ Version \in Nat /\ Version' \in Nat /\ Version <= Version'
  BY VersionGrows
<1> USE <1>0, GatewaysAssumption, NoneAssumption
    DEF SoleGateway, ServedInv, Unwritten, Loaded, HasReceipt, Confirmed, TypeOK, ClientsOK,
        ProcessOK, RoundOK, vars, files, clients, process, round
<1>1. ASSUME NEW s \in Savers, Save(s) PROVE ServedInv'
  <2>1. savedAt' = [savedAt EXCEPT ![s] = Version + 1]
    BY <1>1 DEF Save
  <2>2. Unwritten(s) /\ ~Loaded(s)
    BY <1>1 DEF Save
  <2>3. UNCHANGED <<queue, latestReq, results, gpc, closed, config, round>>
    BY <1>1 DEF Save
  <2>4. saver' = [saver EXCEPT ![s] = "saved"]
    BY <1>1 DEF Save, Becomes
  <2>5. QED BY <2>1, <2>2, <2>3, <2>4
<1>2. ASSUME NEW s \in Savers,
             Prepare(s) \/ WriteCatalog(s) \/ SaveFails(s) \/ QueueRequest(s) \/ WriteLatest(s)
             \/ ProbeAnswered(s) \/ SeeLoaded(s) \/ GiveUp(s) \/ SaverDies(s)
      PROVE  ServedInv'
  <2>1. UNCHANGED <<results, savedAt, gpc, closed, config, round>>
    BY <1>2 DEF Prepare, WriteCatalog, SaveFails, QueueRequest, WriteLatest,
       ProbeAnswered, SeeLoaded, GiveUp, SaverDies
  <2>2. \A t \in Savers : saver'[t] \in {"new", "prepared"} => Unwritten(t)'
    BY <1>2, <2>1 DEF Prepare, WriteCatalog, SaveFails, QueueRequest, WriteLatest,
       ProbeAnswered, SeeLoaded, GiveUp, SaverDies, Becomes
  <2>3. \A t \in Savers : Loaded(t)' => Loaded(t)
    BY <1>2, <2>1 DEF Prepare, WriteCatalog, SaveFails, QueueRequest, WriteLatest,
       ProbeAnswered, SeeLoaded, GiveUp, SaverDies, Becomes
  <2>4. QED BY <2>1, <2>2, <2>3
<1>3. ASSUME NEW s \in Savers, Probe(s) PROVE ServedInv'
  <2>1. UNCHANGED <<results, queue, latestReq, savedAt, closed, config, next, base, batch, outcome>>
    BY <1>3 DEF Probe
  <2>2. gpc' = gpc \/ (gpc[Primary] = "idle" /\ gpc' = [gpc EXCEPT ![Primary] = "reading"])
    BY <1>3 DEF Probe
  <2>3. \A g \in Gateways : seenLatest'[g] \in {seenLatest[g], latestReq}
    BY <1>3 DEF Probe
  <2>4. \A t \in Savers : saver'[t] \in {"new", "prepared"} => saver[t] \in {"new", "prepared"}
    BY <1>3 DEF Probe, Becomes
  <2>5. \A t \in Savers : saver'[t] \in {"new", "prepared"} => Unwritten(t)'
    BY <2>1, <2>3, <2>4
  <2>6. \A t \in Savers : Loaded(t)' => Loaded(t)
    BY <1>3, <2>1 DEF Probe, Becomes
  <2>7. QED BY <2>1, <2>2, <2>5, <2>6
<1>4. ASSUME NEW g \in Gateways, Boot(g) PROVE ServedInv'
  BY <1>4 DEF Boot, At
<1>5. ASSUME NEW g \in Gateways, Bind(g) \/ StartupReady(g) \/ StartupFails(g) PROVE ServedInv'
  BY <1>5 DEF Bind, StartupReady, StartupFails, At
<1>6. ASSUME NEW g \in Gateways, ReadLatest(g) PROVE ServedInv'
  <2>1. UNCHANGED <<queue, latestReq, results, saver, savedAt, closed, config, batch>>
    BY <1>6 DEF ReadLatest
  <2>2. gpc' = [gpc EXCEPT ![g] = "reading"] /\ seenLatest' = [seenLatest EXCEPT ![g] = latestReq]
    BY <1>6 DEF ReadLatest, At
  <2>3. \A t \in Savers : saver'[t] \in {"new", "prepared"} => Unwritten(t)'
    BY <2>1, <2>2
  <2>4. g = Primary /\ gpc'[Primary] = "reading" /\ gpc[Primary] # "down"
    BY <1>6, <2>2 DEF ReadLatest
  <2>5. QED BY <2>1, <2>3, <2>4
<1>7. ASSUME NEW g \in Gateways, ListQueue(g) PROVE ServedInv'
  BY <1>7 DEF ListQueue, Unconfirmed, At
<1>8. ASSUME NEW g \in Gateways, ReadConfig(g) PROVE ServedInv'
  BY <1>8 DEF ReadConfig, At
<1>9. ASSUME NEW g \in Gateways, Publish(g) PROVE ServedInv'
  <2>1. UNCHANGED <<queue, latestReq, results, saver, savedAt, closed, batch, base, seenLatest>>
    BY <1>9 DEF Publish
  <2>2. g = Primary /\ gpc[Primary] = "reloading" /\ gpc'[Primary] = "confirming"
    BY <1>9 DEF Publish, At
  <2>3. \A t \in Savers : saver'[t] \in {"new", "prepared"} => Unwritten(t)'
    BY <2>1
  <2>4. CASE closed[g]
    BY <2>1, <2>2, <2>3, <2>4
  <2>5. CASE ~closed[g]
    <3>1. config'[Primary] = next[Primary]
      BY <1>9, <2>2, <2>5 DEF Publish
    <3>2. config[Primary] \in Nat /\ next[Primary] \in Nat /\ savedAt \in [Savers -> Nat]
      OBVIOUS
    <3>3. QED BY <2>1, <2>2, <2>3, <3>1, <3>2
  <2>6. QED BY <2>4, <2>5
<1>10. ASSUME NEW g \in Gateways, ReloadFails(g) PROVE ServedInv'
  BY <1>10 DEF ReloadFails, At
<1>11. ASSUME NEW g \in Gateways, Confirm(g) PROVE ServedInv'
  <2>1. g = Primary /\ base[g] = results /\ gpc[g] = "confirming"
    BY <1>11 DEF Confirm
  <2>2. \A i \in DOMAIN results' :
           \/ \E j \in DOMAIN results : results'[i] = results[j]
           \/ results'[i].revision \in batch[g] /\ results'[i].status = outcome[g]
    BY <1>11, <2>1, ConfirmWrites
  <2>3. UNCHANGED <<queue, latestReq, saver, savedAt, closed, config, round>>
    BY <1>11 DEF Confirm
  <2>4. gpc' = [gpc EXCEPT ![g] = "clearing"]
    BY <1>11 DEF Confirm, At
  <2>5. \A t \in Savers : saver'[t] \in {"new", "prepared"} => Unwritten(t)'
    BY <2>2, <2>3
  <2>6. \A t \in Savers : Loaded(t)' => Loaded(t) \/ (t \in batch[g] /\ outcome[g] = "loaded")
    <3>1. ASSUME NEW t \in Savers, NEW i \in DOMAIN results',
                 results'[i] = [revision |-> t, status |-> "loaded"]
          PROVE  Loaded(t) \/ (t \in batch[g] /\ outcome[g] = "loaded")
      <4>1. results'[i].revision = t /\ results'[i].status = "loaded"
        BY <3>1
      <4>2. CASE \E j \in DOMAIN results : results'[i] = results[j]
        BY <3>1, <4>2
      <4>3. CASE results'[i].revision \in batch[g] /\ results'[i].status = outcome[g]
        BY <4>1, <4>3
      <4>4. QED BY <2>2, <4>2, <4>3
    <3>2. QED BY <2>3, <3>1
  <2>7. QED BY <2>1, <2>3, <2>4, <2>5, <2>6
<1>12. ASSUME NEW g \in Gateways, ClearOne(g) PROVE ServedInv'
  BY <1>12 DEF ClearOne, At
<1>13. ASSUME NEW g \in Gateways, RoundFails(g) \/ Crash(g) \/ Exit(g) PROVE ServedInv'
  <2>1. UNCHANGED <<queue, latestReq, results, savedAt, closed, config>>
    BY <1>13 DEF RoundFails, Crash, Exit
  <2>2. /\ gpc'[Primary] \in {"idle", "down"}
        /\ gpc'[Primary] = "idle" => gpc[Primary] # "down"
    BY <1>13 DEF RoundFails, Crash, Exit, At
  <2>3. \A t \in Savers : saver'[t] = saver[t] \/ saver'[t] = "lost"
    BY <1>13 DEF RoundFails, Crash, Exit, LoseProbes
  <2>4. g = Primary /\ batch'[g] = {} /\ seenLatest'[g] = None
    BY <1>13 DEF RoundFails, Crash, Exit, ForgetRound
  <2>5. ASSUME NEW t \in Savers, saver'[t] \in {"new", "prepared"} PROVE Unwritten(t)'
    <3>1. Unwritten(t)
      BY <2>3, <2>5
    <3>2. t \notin queue' /\ t # latestReq' /\ t \notin Confirmed(results')
      BY <2>1, <3>1
    <3>3. \A h \in Gateways : t \notin batch'[h] /\ t # seenLatest'[h]
      BY <2>4
    <3>4. QED BY <3>2, <3>3
  <2>6. \A t \in Savers : Loaded(t)' => Loaded(t)
    BY <2>1, <2>3
  <2>7. QED BY <2>1, <2>2, <2>5, <2>6
<1>14. ASSUME NEW g \in Gateways, Stop(g) PROVE ServedInv'
  BY <1>14 DEF Stop, LoseProbes
<1>15. CASE UNCHANGED vars
  BY <1>15
<1>16. QED
  BY <1>1, <1>2, <1>3, <1>4, <1>5, <1>6, <1>7, <1>8, <1>9, <1>10, <1>11, <1>12,
     <1>13, <1>14, <1>15 DEF Next, SaverStep, GatewayStep, ChainStep

(* With one gateway process in the runtime home, a receipt or a command    *)
(* that says "loaded" is right about what that gateway serves, over any    *)
(* number of crashes, restarts, stops and failing rounds.                  *)
THEOREM LoadedIsServed == SoleGateway /\ Spec => []LoadedMeansServed
<1>1. TypeOK /\ ServedInv => LoadedMeansServed
  BY GatewaysAssumption
     DEF ServedInv, LoadedMeansServed, Listening, Up, Loaded, TypeOK, ClientsOK, ProcessOK
<1>2. SoleGateway /\ TypeOK /\ ServedInv /\ [Next]_vars => ServedInv'
  BY ServedStep
<1>3. SUFFICES ASSUME SoleGateway PROVE Spec => []LoadedMeansServed
  OBVIOUS
<1>4. TypeOK /\ ServedInv /\ [Next]_vars => ServedInv'
  BY <1>2, <1>3
<1>5. QED BY <1>1, <1>4, TypeInit, TypeStep, ServedInit, PTL DEF Spec

-----------------------------------------------------------------------------
(* When everything is over, gateway, catalog and config.json agree.         *)

(* The saver has sent its request, or ended. *)
Asked(s) == saver[s] \notin {"new", "prepared", "saved", "catalogued"}

AskedInv ==
    \A s \in Savers :
        /\ s \in queue \cup answered \cup {latestReq} => Asked(s)
        /\ s \in batch[Primary] \cup {seenLatest[Primary]} => Asked(s)
        /\ saver[s] \in {"new", "prepared"} => savedAt[s] = 0

(* What excuses a catalog file that is not the one of the gateway: a save   *)
(* that was taken back or cut short, a failed reload, a request that is     *)
(* still to be answered.                                                    *)
Undone == \E s \in Savers : saver[s] \in {"rolledBack", "dead"}
SomeFailed == \E s \in Savers : HasReceipt(s, "failed")
Unanswered(done) == \E s \in Savers : savedAt[s] > 0 /\ s \notin done

LastWrite == \/ Version = 1 \/ \E s \in Savers : savedAt[s] = Version
             \/ \E s \in Savers : saver[s] = "rolledBack"

(* A round reads config.json after everything it answers was saved, and     *)
(* what it published stays until it confirms, but for later savers.         *)
RoundInv ==
    /\ gpc[Primary] \in {"listed", "reloading", "confirming"} => batch[Primary] # {}
    /\ gpc[Primary] \in {"reloading", "confirming"} =>
          \A s \in answered \cup batch[Primary] : savedAt[s] <= next[Primary]
    /\ gpc[Primary] = "confirming" /\ outcome[Primary] = "loaded" /\ ~closed[Primary] =>
          /\ config[Primary] = next[Primary]
          /\ catalog = config[Primary] \/ Undone \/ Unanswered(answered \cup batch[Primary])

RunsInv ==
    ~closed[Primary] /\ gpc[Primary] # "down" =>
       /\ SomeFailed \/ \A s \in answered : savedAt[s] <= config[Primary]
       /\ startup[Primary] = "ready" =>
             catalog = config[Primary] \/ Undone \/ SomeFailed \/ Unanswered(answered)

QuietInv == AskedInv /\ LastWrite /\ RoundInv /\ RunsInv

LEMMA QuietInit == Init => QuietInv
<1> SUFFICES ASSUME Init PROVE QuietInv
  OBVIOUS
<1>1. AskedInv
  BY NoneAssumption, GatewaysAssumption DEF Init, AskedInv, Asked
<1>2. LastWrite
  BY DEF Init, LastWrite, Version
<1>3. RoundInv /\ RunsInv
  BY GatewaysAssumption DEF Init, RoundInv, RunsInv
<1> QED BY <1>1, <1>2, <1>3 DEF QuietInv

(* The newest receipts of a round are those of its batch. *)
LEMMA ConfirmShows ==
    ASSUME TypeOK, NEW g \in Gateways, Confirm(g), batch[g] # {}
    PROVE  \E i \in DOMAIN results' : results'[i].revision \in batch[g] /\ results'[i].status = outcome[g]
<1>1. PICK order \in Orders(g) : results' = Newest(base[g] \o Receipts(g, order))
  BY DEF Confirm
<1>2. base[g] \in Seq(Receipt) /\ Receipts(g, order) \in Seq(Receipt)
  BY ReceiptsType DEF TypeOK, RoundOK
<1>3. order \in [1..Cardinality(batch[g]) -> batch[g]] /\ IsFiniteSet(batch[g])
  BY SaversAssumption, FS_Subset DEF Orders, SetToSeqs, TypeOK, RoundOK
<1>4. Cardinality(batch[g]) \in Nat \ {0}
  BY <1>3, FS_CardinalityType, FS_EmptySet
<1> DEFINE r == Receipts(g, order)
           all == base[g] \o r
           n == Len(all)
<1>5. Len(r) \in Nat \ {0}
  <2>1. DOMAIN r = 1..Cardinality(batch[g])
    BY <1>3 DEF Receipts
  <2> QED BY <1>2, <1>4, <2>1
<1>6. /\ all \in Seq(Receipt) /\ n = Len(base[g]) + Len(r) /\ n \in Nat \ {0}
      /\ all[n] = r[Len(r)] /\ Len(r) \in DOMAIN r
  BY <1>2, <1>5
<1>7. r[Len(r)].revision \in batch[g] /\ r[Len(r)].status = outcome[g]
  BY <1>6, ReceiptsType
<1> HIDE DEF r, all, n
<1> DEFINE m == IF n > MaxReceipts THEN n - MaxReceipts + 1 ELSE 1
<1>8. m \in 1..n
  BY <1>6, BoundsAssumption
<1>9. results' = SubSeq(all, m, n)
  BY <1>1 DEF all, r, n, Newest
<1> HIDE DEF m
<1>10. /\ Len(SubSeq(all, m, n)) = n - m + 1
       /\ \A i \in 1..n - m + 1 : SubSeq(all, m, n)[i] = all[m + i - 1]
       /\ SubSeq(all, m, n) \in Seq(Receipt)
  <2>1. \A i \in m..n : all[i] \in Receipt
    BY <1>6, <1>8 DEF n
  <2>2. m \in Int /\ n \in Int /\ m <= n
    BY <1>6, <1>8
  <2> QED BY <2>1, <2>2, SubSeqProperties
<1>11. n - m + 1 \in DOMAIN results' /\ results'[n - m + 1] = all[n]
  <2>1. n - m + 1 \in 1..n - m + 1 /\ m + (n - m + 1) - 1 = n
    BY <1>6, <1>8
  <2> QED BY <1>9, <1>10, <2>1
<1> QED BY <1>6, <1>7, <1>11

(* Nobody forgets what it asked for. *)
LEMMA AskedStep ==
    ASSUME SoleGateway, TypeOK, QuietInv, [Next]_vars
    PROVE  AskedInv'
<1> USE GatewaysAssumption, NoneAssumption
    DEF SoleGateway, QuietInv, AskedInv, Asked, TypeOK, ClientsOK, RoundOK, ProcessOK, vars, files, clients, process, round
<1>1. ASSUME NEW s \in Savers, Save(s) PROVE AskedInv'
  BY <1>1 DEF Save, Becomes
<1>2. ASSUME NEW s \in Savers,
             Prepare(s) \/ WriteCatalog(s) \/ SaveFails(s) \/ QueueRequest(s) \/ WriteLatest(s)
             \/ ProbeAnswered(s) \/ SeeLoaded(s) \/ GiveUp(s) \/ SaverDies(s)
      PROVE  AskedInv'
  <2>1. UNCHANGED <<answered, savedAt, batch, seenLatest>>
    BY <1>2 DEF Prepare, WriteCatalog, SaveFails, QueueRequest, WriteLatest,
       ProbeAnswered, SeeLoaded, GiveUp, SaverDies
  <2>2. \A t \in Savers : t # s => saver'[t] = saver[t]
    BY <1>2 DEF Prepare, WriteCatalog, SaveFails, QueueRequest, WriteLatest,
       ProbeAnswered, SeeLoaded, GiveUp, SaverDies, Becomes
  <2>3. /\ queue' \subseteq queue \cup {s} /\ latestReq' \in {latestReq, s}
        /\ s \in queue' \ queue \/ latestReq' # latestReq => Asked(s)'
    BY <1>2 DEF Prepare, WriteCatalog, SaveFails, QueueRequest, WriteLatest,
       ProbeAnswered, SeeLoaded, GiveUp, SaverDies, Becomes
  <2>4. /\ Asked(s) => Asked(s)'
        /\ saver'[s] \in {"new", "prepared"} => saver[s] \in {"new", "prepared"}
    BY <1>2 DEF Prepare, WriteCatalog, SaveFails, QueueRequest, WriteLatest,
       ProbeAnswered, SeeLoaded, GiveUp, SaverDies, Becomes
  <2> QED BY <2>1, <2>2, <2>3, <2>4
<1>3. ASSUME NEW s \in Savers, Probe(s) PROVE AskedInv'
  <2>1. UNCHANGED <<queue, latestReq, answered, savedAt, batch>>
    BY <1>3 DEF Probe
  <2>2. seenLatest'[Primary] \in {seenLatest[Primary], latestReq}
    BY <1>3 DEF Probe
  <2>3. /\ \A t \in Savers : t # s => saver'[t] = saver[t]
        /\ saver[s] = "requested" /\ saver'[s] \in {"probing", "deferred"}
    BY <1>3 DEF Probe, Becomes
  <2> QED BY <2>1, <2>2, <2>3
<1>4. ASSUME NEW g \in Gateways, RoundFails(g) \/ Crash(g) \/ Exit(g) \/ Stop(g) PROVE AskedInv'
  <2>1. UNCHANGED <<queue, latestReq, answered, savedAt>>
    BY <1>4 DEF RoundFails, Crash, Exit, Stop
  <2>2. \A t \in Savers : saver'[t] = saver[t] \/ (saver[t] = "probing" /\ saver'[t] = "lost")
    BY <1>4 DEF RoundFails, Crash, Exit, Stop, LoseProbes
  <2>3. (batch'[Primary] = {} /\ seenLatest'[Primary] = None) \/ UNCHANGED <<batch, seenLatest>>
    BY <1>4 DEF RoundFails, Crash, Exit, Stop, ForgetRound
  <2> QED BY <2>1, <2>2, <2>3
<1>5. ASSUME NEW g \in Gateways,
             Boot(g) \/ Bind(g) \/ StartupReady(g) \/ StartupFails(g) \/ ReadLatest(g) \/ ListQueue(g)
             \/ ReadConfig(g) \/ Publish(g) \/ ReloadFails(g) \/ Confirm(g) \/ ClearOne(g)
      PROVE  AskedInv'
  <2>1. g = Primary
    OBVIOUS
  <2>2. UNCHANGED <<saver, savedAt, latestReq>> /\ queue' \subseteq queue
    BY <1>5 DEF Boot, Bind, StartupReady, StartupFails, ReadLatest, ListQueue, ReadConfig, Publish, ReloadFails, Confirm, ClearOne
  <2>3. seenLatest'[Primary] \in {seenLatest[Primary], latestReq}
    BY <1>5 DEF Boot, Bind, StartupReady, StartupFails, ReadLatest, ListQueue, ReadConfig, Publish, ReloadFails, Confirm, ClearOne
  <2>4. /\ batch'[Primary] \subseteq batch[Primary] \cup queue \cup {seenLatest[Primary]}
        /\ answered' \subseteq answered \cup batch[Primary]
    BY <1>5 DEF Boot, Bind, StartupReady, StartupFails, ReadLatest, ListQueue, ReadConfig, Publish, ReloadFails, Confirm, ClearOne, Unconfirmed
  <2> QED BY <2>2, <2>3, <2>4
<1>6. CASE UNCHANGED vars
  BY <1>6
<1> QED
  BY <1>1, <1>2, <1>3, <1>4, <1>5, <1>6 DEF Next, SaverStep, GatewayStep, ChainStep

(* Who wrote config.json last. *)
LEMMA LastWriteStep ==
    ASSUME TypeOK, QuietInv, [Next]_vars
    PROVE  LastWrite'
<1> USE DEF QuietInv, LastWrite, TypeOK, ClientsOK, FilesOK, Version, vars, files, clients
<1>1. ASSUME NEW s \in Savers, Save(s) PROVE LastWrite'
  BY <1>1 DEF Save
<1>2. ASSUME NEW s \in Savers, saver' = [saver EXCEPT ![s] = "rolledBack"] PROVE LastWrite'
  BY <1>2
<1>3. CASE UNCHANGED <<content, savedAt>> /\ \A t \in Savers : saver[t] = "rolledBack" => saver'[t] = "rolledBack"
  BY <1>3
<1>4. \/ UNCHANGED <<content, savedAt>> /\ \A t \in Savers : saver[t] = "rolledBack" => saver'[t] = "rolledBack"
      \/ \E s \in Savers : Save(s) \/ saver' = [saver EXCEPT ![s] = "rolledBack"]
  BY DEF Next, SaverStep, GatewayStep, ChainStep, Prepare, WriteCatalog, SaveFails, QueueRequest, WriteLatest, Probe,
         ProbeAnswered, SeeLoaded, GiveUp, SaverDies, Boot, Bind, StartupReady, Becomes, LoseProbes,
         StartupFails, ReadLatest, ListQueue, ReadConfig, Publish, ReloadFails,
         Confirm, ClearOne, RoundFails, Crash, Stop, Exit
<1> QED BY <1>1, <1>2, <1>3, <1>4

(* What a saver does to the files the gateway answers for. *)
LEMMA SaverMoves ==
    ASSUME SoleGateway, TypeOK, QuietInv, NEW s \in Savers, SaverStep(s)
    PROVE  /\ UNCHANGED <<results, answered, batch, closed, startup, config, next, outcome>>
           /\ gpc'[Primary] = gpc[Primary] \/ (gpc[Primary] = "idle" /\ gpc'[Primary] = "reading")
           /\ \A t \in answered \cup batch[Primary] : savedAt'[t] = savedAt[t]
           /\ Undone => Undone'
           /\ \A t \in Savers : savedAt[t] > 0 => savedAt'[t] > 0
           /\ \/ catalog' = catalog \/ Undone'
              \/ s \notin answered \cup batch[Primary] /\ savedAt'[s] > 0
<1> USE GatewaysAssumption
    DEF SoleGateway, QuietInv, AskedInv, Asked, TypeOK, ClientsOK, FilesOK, ProcessOK, RoundOK, files, clients, process, round
<1>1. CASE Save(s)
  <2>1. /\ saver[s] = "prepared" /\ savedAt' = [savedAt EXCEPT ![s] = Version + 1] /\ catalog' = catalog
        /\ UNCHANGED <<results, answered, batch, closed, startup, config, next, outcome, gpc>>
        /\ saver' = [saver EXCEPT ![s] = "saved"]
    BY <1>1 DEF Save, Becomes
  <2>2. Version \in Nat
    BY DEF Version
  <2>3. Undone => Undone'
    BY <2>1 DEF Undone
  <2>4. \A t \in Savers : t # s => savedAt'[t] = savedAt[t]
    BY <2>1
  <2>5. s \notin answered \cup batch[Primary] /\ savedAt'[s] > 0
    BY <2>1, <2>2
  <2> QED BY <2>1, <2>3, <2>4, <2>5
<1>2. CASE WriteCatalog(s)
  <2>1. /\ saver[s] = "saved" /\ UNCHANGED savedAt
        /\ UNCHANGED <<results, answered, batch, closed, startup, config, next, outcome, gpc>>
        /\ saver' = [saver EXCEPT ![s] = "catalogued"]
    BY <1>2 DEF WriteCatalog, Becomes
  <2>2. s \notin answered \cup batch[Primary] /\ savedAt[s] > 0
    BY <2>1
  <2>3. Undone => Undone'
    BY <2>1 DEF Undone
  <2> QED BY <2>1, <2>2, <2>3
<1>3. CASE Prepare(s) \/ QueueRequest(s) \/ WriteLatest(s) \/ Probe(s) \/ ProbeAnswered(s) \/ SeeLoaded(s)
  <2>1. UNCHANGED <<results, answered, batch, closed, startup, config, next, outcome, savedAt, catalog>>
    BY <1>3 DEF Prepare, QueueRequest, WriteLatest, Probe, ProbeAnswered, SeeLoaded
  <2>2. gpc'[Primary] = gpc[Primary] \/ (gpc[Primary] = "idle" /\ gpc'[Primary] = "reading")
    BY <1>3 DEF Prepare, QueueRequest, WriteLatest, Probe, ProbeAnswered, SeeLoaded
  <2>3. saver[s] \notin {"rolledBack", "dead"} /\ \A t \in Savers : t # s => saver'[t] = saver[t]
    BY <1>3 DEF Prepare, QueueRequest, WriteLatest, Probe, ProbeAnswered, SeeLoaded, Becomes
  <2> QED BY <2>1, <2>2, <2>3 DEF Undone
<1>4. CASE SaveFails(s) \/ GiveUp(s) \/ SaverDies(s)
  <2>1. UNCHANGED <<results, answered, batch, closed, startup, config, next, outcome, savedAt, gpc>>
    BY <1>4 DEF SaveFails, GiveUp, SaverDies
  <2>2. saver[s] \notin {"rolledBack", "dead"} /\ \A t \in Savers : t # s => saver'[t] = saver[t]
    BY <1>4 DEF SaveFails, GiveUp, SaverDies, Becomes
  <2>3. saver'[s] \in {"rolledBack", "dead"} \/ catalog' = catalog
    BY <1>4 DEF SaveFails, GiveUp, SaverDies, Becomes
  <2> QED BY <2>1, <2>2, <2>3 DEF Undone
<1> QED BY <1>1, <1>2, <1>3, <1>4 DEF SaverStep

LEMMA SaverQuiet ==
    ASSUME SoleGateway, TypeOK, QuietInv, NEW s \in Savers, SaverStep(s)
    PROVE  RoundInv' /\ RunsInv'
<1>1. /\ UNCHANGED <<results, answered, batch, closed, startup, config, next, outcome>>
      /\ gpc'[Primary] = gpc[Primary] \/ (gpc[Primary] = "idle" /\ gpc'[Primary] = "reading")
      /\ \A t \in answered \cup batch[Primary] : savedAt'[t] = savedAt[t]
      /\ Undone => Undone'
      /\ \A t \in Savers : savedAt[t] > 0 => savedAt'[t] > 0
      /\ \/ catalog' = catalog \/ Undone'
         \/ s \notin answered \cup batch[Primary] /\ savedAt'[s] > 0
  BY SaverMoves
<1>2. SomeFailed' <=> SomeFailed
  BY <1>1 DEF SomeFailed, HasReceipt
<1>3. /\ Unanswered(answered) => Unanswered(answered)'
      /\ Unanswered(answered \cup batch[Primary]) => Unanswered(answered \cup batch[Primary])'
  BY <1>1 DEF Unanswered
<1>4. \/ catalog' = catalog \/ Undone'
      \/ Unanswered(answered)' /\ Unanswered(answered \cup batch[Primary])'
  BY <1>1 DEF Unanswered
<1>5. RoundInv'
  BY <1>1, <1>3, <1>4 DEF QuietInv, RoundInv
<1>6. RunsInv'
  BY <1>1, <1>2, <1>3, <1>4 DEF QuietInv, RunsInv
<1> QED BY <1>5, <1>6

LEMMA GatewayQuiet ==
    ASSUME SoleGateway, TypeOK, QuietInv, NEW g \in Gateways, GatewayStep(g), Version' = Version
    PROVE  RoundInv' /\ RunsInv'
<1> USE GatewaysAssumption
    DEF SoleGateway, TypeOK, ClientsOK, FilesOK, ProcessOK, RoundOK, files, clients, process, round
<1>0. g = Primary /\ RoundInv /\ RunsInv /\ Version \in Nat /\ \A s \in Savers : savedAt[s] <= Version
  BY DEF QuietInv, Version
<1>1. CASE Boot(g)
  <2>1. /\ gpc'[Primary] = "booting" /\ config'[Primary] = Version /\ startup'[Primary] = "pending"
        /\ UNCHANGED <<answered, savedAt>>
    BY <1>0, <1>1 DEF Boot, At
  <2> QED BY <1>0, <2>1 DEF RoundInv, RunsInv
<1>2. CASE Bind(g) \/ ReadLatest(g) \/ ClearOne(g) \/ StartupFails(g)
  <2>1. /\ UNCHANGED <<catalog, results, saver, savedAt, answered, closed, config, next, outcome>>
        /\ gpc[Primary] # "down" /\ gpc'[Primary] \notin {"down", "listed", "confirming"}
        /\ startup'[Primary] = "ready" => startup[Primary] = "ready"
        /\ gpc'[Primary] = "reloading" => gpc[Primary] = "reloading" /\ batch' = batch
    BY <1>0, <1>2 DEF Bind, ReadLatest, ClearOne, StartupFails, At, Yields
  <2>2. SomeFailed' = SomeFailed /\ Undone' = Undone /\ Unanswered(answered)' = Unanswered(answered)
    BY <2>1 DEF SomeFailed, HasReceipt, Undone, Unanswered
  <2> QED BY <1>0, <2>1, <2>2 DEF RoundInv, RunsInv
<1>3. CASE StartupReady(g)
  <2>1. /\ UNCHANGED <<results, saver, savedAt, answered, closed, config, next, outcome, gpc, batch>>
        /\ gpc[Primary] \in {"idle", "reloading"}
        /\ ~closed[Primary] => catalog' = config[Primary]
    BY <1>0, <1>3 DEF StartupReady, Yields
  <2>2. SomeFailed' = SomeFailed /\ Undone' = Undone /\ Unanswered(answered)' = Unanswered(answered)
    BY <2>1 DEF SomeFailed, HasReceipt, Undone, Unanswered
  <2> QED BY <1>0, <2>1, <2>2 DEF RoundInv, RunsInv
<1>4. CASE ListQueue(g)
  <2>1. /\ UNCHANGED <<catalog, results, saver, savedAt, answered, closed, config, next, outcome, startup>>
        /\ gpc[Primary] # "down" /\ gpc'[Primary] \in {"idle", "listed"}
        /\ gpc'[Primary] = "listed" => batch'[Primary] # {}
    BY <1>0, <1>4 DEF ListQueue, At
  <2>2. SomeFailed' = SomeFailed /\ Undone' = Undone /\ Unanswered(answered)' = Unanswered(answered)
    BY <2>1 DEF SomeFailed, HasReceipt, Undone, Unanswered
  <2> QED BY <1>0, <2>1, <2>2 DEF RoundInv, RunsInv
<1>5. CASE ReadConfig(g)
  <2>1. /\ UNCHANGED <<catalog, results, saver, savedAt, answered, closed, config, batch, outcome, startup>>
        /\ gpc[Primary] = "listed" /\ gpc'[Primary] = "reloading" /\ next'[Primary] = Version
    BY <1>0, <1>5 DEF ReadConfig, At
  <2>2. SomeFailed' = SomeFailed /\ Undone' = Undone /\ Unanswered(answered)' = Unanswered(answered)
    BY <2>1 DEF SomeFailed, HasReceipt, Undone, Unanswered
  <2>3. answered \cup batch[Primary] \subseteq Savers
    OBVIOUS
  <2> QED BY <1>0, <2>1, <2>2, <2>3 DEF RoundInv, RunsInv
<1>6. CASE Publish(g)
  <2>1. /\ UNCHANGED <<results, saver, savedAt, answered, closed, batch, next>>
        /\ gpc[Primary] = "reloading" /\ gpc'[Primary] = "confirming"
        /\ ~closed[Primary] => catalog' = next[Primary] /\ config'[Primary] = next[Primary]
    BY <1>0, <1>6 DEF Publish, At
  <2> QED BY <1>0, <2>1 DEF RoundInv, RunsInv
<1>7. CASE ReloadFails(g)
  <2>1. /\ UNCHANGED <<catalog, results, saver, savedAt, answered, closed, config, batch, next, startup>>
        /\ gpc[Primary] = "reloading" /\ gpc'[Primary] = "confirming" /\ outcome'[Primary] = "failed"
    BY <1>0, <1>7 DEF ReloadFails, At
  <2>2. SomeFailed' = SomeFailed /\ Undone' = Undone /\ Unanswered(answered)' = Unanswered(answered)
    BY <2>1 DEF SomeFailed, HasReceipt, Undone, Unanswered
  <2> QED BY <1>0, <2>1, <2>2 DEF RoundInv, RunsInv
<1>8. CASE Confirm(g)
  <2>1. /\ UNCHANGED <<catalog, saver, savedAt, closed, config, batch, next, startup, outcome>>
        /\ gpc[Primary] = "confirming" /\ gpc'[Primary] = "clearing"
        /\ answered' = answered \cup batch[Primary]
    BY <1>0, <1>8 DEF Confirm, At
  <2>2. PICK i \in DOMAIN results' : results'[i].revision \in batch[Primary] /\ results'[i].status = outcome[Primary]
    BY <1>0, <1>8, <2>1, ConfirmShows DEF RoundInv
  <2>3. CASE outcome[Primary] = "failed"
    <3>1. results' \in Seq(Receipt)
      <4>1. PICK order \in Orders(g) : results' = Newest(base[g] \o Receipts(g, order))
        BY <1>8 DEF Confirm
      <4>2. base[g] \o Receipts(g, order) \in Seq(Receipt)
        BY ReceiptsType, ConcatProperties
      <4> QED BY <4>1, <4>2, NewestProperties
    <3>2. results'[i] \in Receipt
      BY <2>2, <3>1
    <3>3. results'[i] = [revision |-> results'[i].revision, status |-> "failed"]
      BY <2>2, <2>3, <3>2 DEF Receipt
    <3>4. SomeFailed'
      BY <2>2, <3>2, <3>3 DEF SomeFailed, HasReceipt, Receipt
    <3> QED BY <2>1, <3>4 DEF RoundInv, RunsInv
  <2>4. CASE outcome[Primary] = "loaded"
    <3>1. Undone' = Undone /\ Unanswered(answered)' = Unanswered(answered \cup batch[Primary])
      BY <2>1 DEF Undone, Unanswered
    <3> QED BY <1>0, <2>1, <2>4, <3>1 DEF RoundInv, RunsInv
  <2> QED BY <2>3, <2>4
<1>9. CASE RoundFails(g) \/ Crash(g) \/ Exit(g)
  <2>1. /\ UNCHANGED <<catalog, results, savedAt, answered, closed, config, startup>>
        /\ gpc'[Primary] \in {"idle", "down"}
        /\ gpc'[Primary] = "idle" => gpc[Primary] # "down"
    BY <1>0, <1>9 DEF RoundFails, Crash, Exit, At
  <2>2. Undone => Undone'
    BY <1>9 DEF RoundFails, Crash, Exit, LoseProbes, Undone
  <2>3. SomeFailed' = SomeFailed /\ Unanswered(answered)' = Unanswered(answered)
    BY <2>1 DEF SomeFailed, HasReceipt, Unanswered
  <2> QED BY <1>0, <2>1, <2>2, <2>3 DEF RoundInv, RunsInv
<1>10. CASE Stop(g)
  <2>1. closed'[Primary] /\ UNCHANGED <<gpc, batch, answered, savedAt, next>>
    BY <1>0, <1>10 DEF Stop
  <2> QED BY <1>0, <2>1 DEF RoundInv, RunsInv
<1> QED BY <1>1, <1>2, <1>3, <1>4, <1>5, <1>6, <1>7, <1>8, <1>9, <1>10 DEF GatewayStep, ChainStep

LEMMA QuietStep ==
    ASSUME SoleGateway, TypeOK, QuietInv, [Next]_vars
    PROVE  QuietInv'
<1>1. AskedInv' /\ LastWrite'
  BY AskedStep, LastWriteStep
<1>2. ASSUME NEW g \in Gateways, GatewayStep(g) PROVE Version' = Version
  BY <1>2 DEF GatewayStep, ChainStep, Version, files, Boot, Bind, StartupReady,
         StartupFails, ReadLatest, ListQueue, ReadConfig, Publish, ReloadFails,
         Confirm, ClearOne, RoundFails, Crash, Stop, Exit
<1>3. CASE UNCHANGED vars
  BY <1>3 DEF vars, files, clients, process, round, QuietInv, RoundInv, RunsInv, Undone, Unanswered, SomeFailed, HasReceipt,
     AskedInv, Asked, LastWrite, Version
<1> QED BY <1>1, <1>2, <1>3, SaverQuiet, GatewayQuiet DEF Next, QuietInv

(* With one gateway process in the runtime home: when every saver is done   *)
(* and nothing is pending, the gateway and the static catalog file hold     *)
(* what config.json holds, in whatever order savers, the startup and the    *)
(* reloads wrote.                                                           *)
THEOREM QuietAgreement == SoleGateway /\ Spec => []QuiescentAgreement
<1>1. TypeOK /\ QueueInv /\ QuietInv => QuiescentAgreement
  <2> SUFFICES ASSUME TypeOK, QueueInv, QuietInv,
                      \A s \in Savers : Settled(s) /\ ~HasReceipt(s, "failed"),
                      queue = {}, Listening(Primary), startup[Primary] = "ready"
               PROVE  config[Primary] = Version /\ catalog = config[Primary]
    BY DEF QuiescentAgreement
  <2>1. ~SomeFailed /\ ~Undone /\ gpc[Primary] # "down" /\ ~closed[Primary]
    BY DEF SomeFailed, Undone, Settled, Listening, Up
  <2>2. ASSUME NEW s \in Savers PROVE s \in answered \/ savedAt[s] = 0
    BY DEF QueueInv, NoRequestLost, Settled, QuietInv, AskedInv
  <2>3. ~Unanswered(answered)
    BY <2>2 DEF Unanswered
  <2>4. /\ Version \in Nat /\ Version >= 1 /\ config[Primary] \in 1..Version
    BY GatewaysAssumption DEF TypeOK, ProcessOK, FilesOK, Version
  <2>5. \A s \in Savers : savedAt[s] <= config[Primary]
    BY <2>1, <2>2, <2>4 DEF QuietInv, RunsInv
  <2>6. Version = 1 \/ \E s \in Savers : savedAt[s] = Version
    BY <2>1 DEF QuietInv, LastWrite, Undone
  <2>7. config[Primary] = Version
    BY <2>4, <2>5, <2>6
  <2> QED BY <2>1, <2>3, <2>7 DEF QuietInv, RunsInv
<1>2. SoleGateway /\ TypeOK /\ QuietInv /\ [Next]_vars => QuietInv'
  BY QuietStep
<1>3. SUFFICES ASSUME SoleGateway PROVE Spec => []QuiescentAgreement
  OBVIOUS
<1>4. TypeOK /\ QuietInv /\ [Next]_vars => QuietInv'
  BY <1>2, <1>3
<1> QED BY <1>1, <1>4, TypeInit, TypeStep, QueueInit, QueueStep, QuietInit, PTL DEF Spec

-----------------------------------------------------------------------------
(* A receipt stays what it is.                                              *)

(* A round answers nobody who has a receipt. *)
ReceiptInv ==
    /\ \A s \in Savers : ~(HasReceipt(s, "loaded") /\ HasReceipt(s, "failed"))
    /\ gpc[Primary] \in {"listed", "reloading", "confirming"} =>
          base[Primary] = results /\ batch[Primary] \cap Confirmed(results) = {}

LEMMA ReceiptHolder ==
    ASSUME NEW s, NEW told, HasReceipt(s, told)
    PROVE  s \in Confirmed(results)
BY DEF HasReceipt, Confirmed

(* What a confirmation leaves of the receipts, and what it adds. *)
LEMMA ConfirmReceipts ==
    ASSUME SoleGateway, TypeOK, ReceiptInv, NEW g \in Gateways, Confirm(g),
           NEW s \in Savers, NEW told \in {"loaded", "failed"}, HasReceipt(s, told)'
    PROVE  HasReceipt(s, told) \/ (~HasReceipt(s, "loaded") /\ ~HasReceipt(s, "failed") /\ told = outcome[g])
<1>1. g = Primary /\ base[g] = results /\ batch[g] \cap Confirmed(results) = {}
  BY DEF SoleGateway, ReceiptInv, Confirm
<1>2. PICK i \in DOMAIN results' : results'[i] = [revision |-> s, status |-> told]
  BY DEF HasReceipt
<1>3. results'[i].revision = s /\ results'[i].status = told
  BY <1>2
<1>4. CASE \E j \in DOMAIN base[g] : results'[i] = base[g][j]
  BY <1>1, <1>2, <1>4 DEF HasReceipt
<1>5. CASE results'[i].revision \in batch[g] /\ results'[i].status = outcome[g]
  BY <1>1, <1>3, <1>5, ReceiptHolder
<1> QED BY <1>4, <1>5, ConfirmWrites

LEMMA ReceiptStep ==
    ASSUME SoleGateway, TypeOK, ReceiptInv, [Next]_vars
    PROVE  /\ ReceiptInv'
           /\ \A s \in Savers, told, other \in {"loaded", "failed"} :
                 HasReceipt(s, told) /\ HasReceipt(s, other)' => told = other
<1> USE GatewaysAssumption DEF SoleGateway, TypeOK, ProcessOK, RoundOK
<1>1. ASSUME UNCHANGED results
      PROVE  /\ \A s \in Savers : ~(HasReceipt(s, "loaded") /\ HasReceipt(s, "failed"))'
             /\ \A s \in Savers, told, other \in {"loaded", "failed"} :
                   HasReceipt(s, told) /\ HasReceipt(s, other)' => told = other
             /\ Confirmed(results') = Confirmed(results)
  BY <1>1 DEF ReceiptInv, HasReceipt
<1>2. ASSUME NEW s \in Savers, SaverStep(s) PROVE UNCHANGED results /\ ReceiptInv'
  <2>1. /\ UNCHANGED <<results, base, batch>>
        /\ gpc'[Primary] = gpc[Primary] \/ gpc'[Primary] = "reading"
    BY <1>2 DEF files, clients, process, round, SaverStep, Prepare, Save, WriteCatalog, SaveFails, QueueRequest,
       WriteLatest, Probe, ProbeAnswered, SeeLoaded, GiveUp, SaverDies
  <2> QED BY <1>1, <2>1 DEF ReceiptInv
<1>3. ASSUME NEW g \in Gateways, GatewayStep(g), ~Confirm(g) PROVE UNCHANGED results /\ ReceiptInv'
  <2>1. UNCHANGED results
    BY <1>3 DEF files, GatewayStep, ChainStep, Boot, Bind, StartupReady, StartupFails, ReadLatest, ListQueue,
       ReadConfig, Publish, ReloadFails, ClearOne, RoundFails, Crash, Stop, Exit
  <2>2. CASE ListQueue(g)
    <3>1. base'[Primary] = results /\ batch'[Primary] = Unconfirmed(g)
      BY <2>2 DEF ListQueue
    <3> QED BY <1>1, <2>1, <3>1 DEF ReceiptInv, Unconfirmed
  <2>3. CASE ~ListQueue(g)
    <3>1. gpc'[Primary] \in {"listed", "reloading", "confirming"} =>
             gpc[Primary] \in {"listed", "reloading", "confirming"} /\ UNCHANGED <<base, batch>>
      BY <1>3, <2>3 DEF round, process, GatewayStep, ChainStep, Boot, Bind, StartupReady, StartupFails, ReadLatest,
         ReadConfig, Publish, ReloadFails, ClearOne, RoundFails, Crash, Stop, Exit, At
    <3> QED BY <1>1, <2>1, <3>1 DEF ReceiptInv
  <2> QED BY <2>2, <2>3
<1>4. ASSUME NEW g \in Gateways, Confirm(g)
      PROVE  /\ ReceiptInv'
             /\ \A s \in Savers, told, other \in {"loaded", "failed"} :
                   HasReceipt(s, told) /\ HasReceipt(s, other)' => told = other
  <2>1. ASSUME NEW s \in Savers, NEW told \in {"loaded", "failed"}, HasReceipt(s, told)'
        PROVE  HasReceipt(s, told) \/ (~HasReceipt(s, "loaded") /\ ~HasReceipt(s, "failed") /\ told = outcome[g])
    BY <1>4, <2>1, ConfirmReceipts
  <2>2. \A s \in Savers : ~(HasReceipt(s, "loaded") /\ HasReceipt(s, "failed"))'
    <3> SUFFICES ASSUME NEW s \in Savers, HasReceipt(s, "loaded")', HasReceipt(s, "failed")' PROVE FALSE
      OBVIOUS
    <3>1. HasReceipt(s, "loaded") \/ (~HasReceipt(s, "loaded") /\ ~HasReceipt(s, "failed") /\ "loaded" = outcome[g])
      BY <2>1
    <3>2. HasReceipt(s, "failed") \/ (~HasReceipt(s, "loaded") /\ ~HasReceipt(s, "failed") /\ "failed" = outcome[g])
      BY <2>1
    <3>3. ~(HasReceipt(s, "loaded") /\ HasReceipt(s, "failed")) /\ "loaded" # "failed"
      BY DEF ReceiptInv
    <3> QED BY <3>1, <3>2, <3>3
  <2>3. \A s \in Savers, told, other \in {"loaded", "failed"} :
           HasReceipt(s, told) /\ HasReceipt(s, other)' => told = other
    <3> SUFFICES ASSUME NEW s \in Savers, NEW told \in {"loaded", "failed"}, NEW other \in {"loaded", "failed"},
                        HasReceipt(s, told), HasReceipt(s, other)' PROVE told = other
      OBVIOUS
    <3>1. HasReceipt(s, other)
      BY <2>1
    <3> QED BY <3>1 DEF ReceiptInv
  <2>4. gpc'[Primary] = "clearing"
    BY <1>4 DEF Confirm, At
  <2> QED BY <2>2, <2>3, <2>4 DEF ReceiptInv
<1>5. CASE UNCHANGED vars
  <2>1. UNCHANGED <<results, gpc, base, batch>>
    BY <1>5 DEF vars, files, process, round
  <2> QED BY <1>1, <2>1 DEF ReceiptInv
<1> QED BY <1>1, <1>2, <1>3, <1>4, <1>5 DEF Next

(* With one gateway process in the runtime home, no later round, restart or *)
(* new batch turns a receipt that is in the file into another one.          *)
THEOREM ReceiptsStay == SoleGateway /\ Spec => ReceiptNeverRewritten
<1>1. Init => ReceiptInv
  BY GatewaysAssumption DEF Init, ReceiptInv, HasReceipt
<1>2. SoleGateway /\ TypeOK /\ ReceiptInv /\ [Next]_vars =>
        /\ ReceiptInv'
        /\ [\A s \in Savers, told, other \in {"loaded", "failed"} :
               HasReceipt(s, told) /\ HasReceipt(s, other)' => told = other]_vars
  BY ReceiptStep
<1>3. SUFFICES ASSUME SoleGateway PROVE Spec => ReceiptNeverRewritten
  OBVIOUS
<1>4. TypeOK /\ ReceiptInv /\ [Next]_vars =>
        /\ ReceiptInv'
        /\ [\A s \in Savers, told, other \in {"loaded", "failed"} :
               HasReceipt(s, told) /\ HasReceipt(s, other)' => told = other]_vars
  BY <1>2, <1>3
<1> QED BY <1>1, <1>4, TypeInit, TypeStep, PTL DEF Spec, ReceiptNeverRewritten

-----------------------------------------------------------------------------
(* The WebSocket bridge.                                                   *)

(* How far the handshake came decides what the sockets can be. *)
SocketInv ==
    /\ stage = "dialing" => upstream = "connecting" /\ client \in {"waiting", "gone"}
    /\ stage = "dialed" => upstream # "connecting" /\ client \in {"waiting", "gone"}
    /\ stage = "refused" => upstream \in {"closing", "closed"} /\ client \in {"answered", "gone"}
    /\ stage = "bridged" => upstream # "connecting" /\ client \in {"open", "closed"}
    /\ client = "open" => relaying /\ upstream \in {"open", "closing"}
    /\ client = "closed" => upstream \in {"closing", "closed"}
    /\ log = "held" <=> stage \in {"dialing", "dialed"} \/ client = "open"

(* While the client is there, the frames that took effect and then those   *)
(* in the chain are all the frames received, in order.                     *)
FrameInv ==
    /\ Len(passed) <= Len(received)
    /\ \A k \in 1..Len(passed) : passed[k] = k
    /\ client = "open" => Len(chain) = Len(received) - Len(passed)
    /\ client = "open" => \A k \in 1..Len(chain) : chain[k] = Len(passed) + k
    /\ client \in {"waiting", "gone", "answered"} => received = <<>> /\ chain = <<>>
    /\ route # "cliproxy" => chain = <<>>

BridgeInv == WsTypeOK /\ SocketInv /\ FrameInv

-----------------------------------------------------------------------------
LEMMA BridgeInit == WsInit => BridgeInv
<1>. SUFFICES ASSUME WsInit PROVE BridgeInv
    OBVIOUS
<1>1. WsTypeOK
    <2>1. received = <<>> /\ chain = <<>> /\ passed = <<>> /\ summary = 0 /\ binaries = 0
        BY DEF WsInit
    <2>2. received \in Seq(Kinds) /\ chain \in Seq(1..Len(received)) /\ passed \in Seq(1..Len(received))
        BY <2>1, EmptySeq
    <2>3. summary \in 0..Len(received) /\ binaries \in 0..MaxFrames
        BY <2>1, MaxFramesAssumption, EmptySeq
    <2>. QED BY <2>1, <2>2, <2>3 DEF WsInit, WsTypeOK
<1>2. SocketInv
    BY DEF WsInit, SocketInv
<1>3. FrameInv
    BY DEF WsInit, FrameInv
<1>. QED BY <1>1, <1>2, <1>3 DEF BridgeInv

(* The frame part is not touched by a step that moves only the sockets. *)
LEMMA SocketSteps ==
    ASSUME BridgeInv, UNCHANGED <<route, frames>>,
           Handshake \/ UpstreamDrops \/ UpstreamClosed \/ ClientCloses
    PROVE  BridgeInv'
<1>. USE DEF sockets, frames
<1>1. client' = "open" => client = "open" \/ (received = <<>> /\ chain = <<>>)
    BY DEF BridgeInv, WsTypeOK, FrameInv, Handshake, DialSucceeds, DialFails, ClientAborts, Upgrade,
           UpgradeFails, UpstreamDrops, UpstreamClosed, ClientCloses, CloseClient
<1>2. WsTypeOK'
    <2>1. stage' \in {"dialing", "dialed", "bridged", "refused"}
          /\ client' \in {"waiting", "gone", "answered", "open", "closed"}
          /\ upstream' \in {"connecting", "open", "closing", "closed"}
          /\ relaying' \in BOOLEAN /\ log' \in {"held", "released"}
        BY DEF BridgeInv, WsTypeOK, Handshake, DialSucceeds, DialFails, ClientAborts, Upgrade,
               UpgradeFails, UpstreamDrops, UpstreamClosed, ClientCloses, CloseClient, Closing
    <2>. QED BY <2>1 DEF BridgeInv, WsTypeOK
<1>3. SocketInv'
    <2>. USE DEF BridgeInv, WsTypeOK, SocketInv
    <2>1. CASE DialSucceeds BY <2>1 DEF DialSucceeds
    <2>2. CASE DialFails BY <2>2 DEF DialFails
    <2>3. CASE ClientAborts BY <2>3 DEF ClientAborts
    <2>4. CASE Upgrade BY <2>4 DEF Upgrade
    <2>5. CASE UpgradeFails BY <2>5 DEF UpgradeFails, Closing
    <2>6. CASE UpstreamDrops BY <2>6 DEF UpstreamDrops
    <2>7. CASE UpstreamClosed BY <2>7 DEF UpstreamClosed
    <2>8. CASE ClientCloses BY <2>8 DEF ClientCloses, CloseClient, Closing
    <2>. QED BY <2>1, <2>2, <2>3, <2>4, <2>5, <2>6, <2>7, <2>8 DEF Handshake
<1>4. FrameInv'
    <2>1. client' \in {"waiting", "gone", "answered"} => client \in {"waiting", "gone", "answered"}
        BY DEF BridgeInv, WsTypeOK, SocketInv, Handshake, DialSucceeds, DialFails, ClientAborts, Upgrade,
           UpgradeFails, UpstreamDrops, UpstreamClosed, ClientCloses, CloseClient
    <2>2. received = <<>> => passed = <<>>
        BY EmptySeq DEF BridgeInv, WsTypeOK, FrameInv
    <2>. QED BY <1>1, <2>1, <2>2 DEF BridgeInv, FrameInv
<1>. QED BY <1>2, <1>3, <1>4 DEF BridgeInv

(* A frame arrives. *)
LEMMA FrameSteps ==
    ASSUME BridgeInv, NEW kind \in Kinds, Frame(kind)
    PROVE  BridgeInv'
<1>. USE DEF sockets
<1>. DEFINE n == Len(received)
<1>1. client = "open" /\ stage = "bridged"
    BY DEF BridgeInv, WsTypeOK, SocketInv, Frame, RefuseFrame, ChainFrame, RelayFrame, CanReceive
<1>2. received' = Append(received, kind) /\ received' \in Seq(Kinds) /\ Len(received') = n + 1
    <2>1. received' = Append(received, kind)
        BY DEF Frame, RefuseFrame, ChainFrame, RelayFrame
    <2>2. received \in Seq(Kinds)
        BY DEF BridgeInv, WsTypeOK
    <2>. QED BY <2>1, <2>2, AppendProperties
<1>3. chain \in Seq(1..n) /\ passed \in Seq(1..n) /\ n \in Nat
    BY LenProperties DEF BridgeInv, WsTypeOK
<1>4. chain \in Seq(1..(n + 1)) /\ passed \in Seq(1..(n + 1))
    BY <1>3, SeqMonotonic, 1..n \subseteq 1..(n + 1)
<1>5. CASE RefuseFrame(kind)
    <2>1. WsTypeOK'
        BY <1>1, <1>2, <1>4, <1>5 DEF RefuseFrame, CloseClient, Closing, BridgeInv, WsTypeOK
    <2>2. SocketInv'
        BY <1>1, <1>5 DEF RefuseFrame, CloseClient, Closing, BridgeInv, WsTypeOK, SocketInv
    <2>3. FrameInv'
        BY <1>1, <1>2, <1>3, <1>5 DEF RefuseFrame, CloseClient, BridgeInv, FrameInv
    <2>. QED BY <2>1, <2>2, <2>3 DEF BridgeInv
<1>6. CASE ChainFrame(kind)
    <2>1. chain' = Append(chain, n + 1) /\ chain' \in Seq(1..(n + 1)) /\ Len(chain') = Len(chain) + 1
        BY <1>3, <1>4, <1>6, AppendProperties DEF ChainFrame
    <2>2. chain # <<>> => Head(chain') = Head(chain)
        BY <1>3, <2>1, HeadTailProperties, AppendProperties, EmptySeq, LenProperties
    <2>3. WsTypeOK'
        BY <1>1, <1>2, <1>4, <1>6, <2>1, <2>2 DEF ChainFrame, BridgeInv, WsTypeOK
    <2>4. SocketInv'
        BY <1>6 DEF ChainFrame, BridgeInv, SocketInv
    <2>5. Len(chain') = Len(received') - Len(passed')
        BY <1>1, <1>2, <1>3, <1>6, <2>1, LenProperties DEF ChainFrame, BridgeInv, FrameInv
    <2>6. ASSUME NEW k \in 1..Len(chain') PROVE chain'[k] = Len(passed') + k
        <3>1. CASE k = Len(chain) + 1
            <4>1. chain'[k] = n + 1
                BY <1>3, <2>1, <3>1, AppendProperties
            <4>2. passed' = passed /\ Len(chain) = n - Len(passed)
                BY <1>1, <1>6 DEF ChainFrame, BridgeInv, FrameInv
            <4>. QED BY <4>1, <4>2, <3>1, <1>3, LenProperties
        <3>2. CASE k \in 1..Len(chain)
            BY <1>1, <1>3, <1>6, <2>1, <3>2, AppendProperties, LenProperties DEF ChainFrame, BridgeInv, FrameInv
        <3>. QED BY <3>1, <3>2, <2>1, <1>3, LenProperties
    <2>7. FrameInv'
        BY <1>1, <1>2, <1>3, <1>6, <2>5, <2>6, LenProperties DEF ChainFrame, BridgeInv, FrameInv
    <2>. QED BY <2>3, <2>4, <2>7 DEF BridgeInv
<1>7. CASE RelayFrame(kind)
    <2>1. chain = <<>> /\ Len(passed) = n /\ summary = 0
        BY <1>1, <1>3, <1>7, EmptySeq, LenProperties DEF RelayFrame, BridgeInv, WsTypeOK, FrameInv
    <2>2. CASE upstream = "open"
        <3>1. passed' = Append(passed, n + 1) /\ passed' \in Seq(1..(n + 1)) /\ Len(passed') = n + 1
            <4>1. passed' = Append(passed, n + 1)
                BY <1>7, <2>2 DEF RelayFrame
            <4>. QED BY <1>3, <1>4, <2>1, <4>1, AppendProperties
        <3>2. WsTypeOK'
            BY <1>1, <1>2, <1>4, <1>7, <2>1, <2>2, <3>1 DEF RelayFrame, BridgeInv, WsTypeOK
        <3>3. SocketInv'
            BY <1>7, <2>2 DEF RelayFrame, BridgeInv, SocketInv
        <3>4. ASSUME NEW k \in 1..Len(passed') PROVE passed'[k] = k
            BY <1>3, <2>1, <3>1, AppendProperties DEF BridgeInv, FrameInv
        <3>5. FrameInv'
            BY <1>1, <1>2, <1>7, <2>1, <2>2, <3>1, <3>4, EmptySeq DEF RelayFrame, BridgeInv, FrameInv
        <3>. QED BY <3>2, <3>3, <3>5 DEF BridgeInv
    <2>3. CASE upstream # "open"
        <3>1. WsTypeOK'
            BY <1>1, <1>2, <1>4, <1>7, <2>1, <2>3 DEF RelayFrame, CloseClient, Closing, BridgeInv, WsTypeOK
        <3>2. SocketInv'
            BY <1>1, <1>7, <2>3 DEF RelayFrame, CloseClient, Closing, BridgeInv, WsTypeOK, SocketInv
        <3>3. FrameInv'
            BY <1>1, <1>2, <1>3, <1>7, <2>1, <2>3 DEF RelayFrame, CloseClient, BridgeInv, FrameInv
        <3>. QED BY <3>1, <3>2, <3>3 DEF BridgeInv
    <2>. QED BY <2>2, <2>3
<1>. QED BY <1>5, <1>6, <1>7 DEF Frame

LEMMA BinarySteps ==
    ASSUME BridgeInv, RelayBinary
    PROVE  BridgeInv'
<1>. USE DEF sockets
<1>1. client = "open" /\ stage = "bridged" /\ UNCHANGED <<route, stage, relaying, received, chain, summary, passed>>
    BY DEF BridgeInv, WsTypeOK, SocketInv, RelayBinary, CanReceive
<1>2. binaries' \in 0..MaxFrames
    BY MaxFramesAssumption, LenProperties DEF RelayBinary, CanReceive, BridgeInv, WsTypeOK
<1>3. \/ UNCHANGED <<client, upstream, log>>
      \/ client' = "closed" /\ upstream' \in {"closing", "closed"} /\ log' = "released"
    BY <1>1 DEF RelayBinary, CloseClient, Closing, BridgeInv, WsTypeOK, SocketInv
<1>4. WsTypeOK'
    BY <1>1, <1>2, <1>3 DEF BridgeInv, WsTypeOK
<1>5. SocketInv'
    BY <1>1, <1>3 DEF BridgeInv, SocketInv
<1>6. FrameInv'
    BY <1>1, <1>3 DEF BridgeInv, FrameInv
<1>. QED BY <1>4, <1>5, <1>6 DEF BridgeInv

(* The chain takes a step; it has one only on a connection to the proxy. *)
LEMMA ChainSteps ==
    ASSUME BridgeInv, WsChainStep
    PROVE  BridgeInv'
<1>. USE DEF sockets
<1>. DEFINE n == Len(received)
            m == Len(passed)
<1>1. chain \in Seq(1..n) /\ chain # <<>> /\ passed \in Seq(1..n) /\ n \in Nat /\ m \in Nat /\ m <= n
    BY LenProperties DEF BridgeInv, WsTypeOK, FrameInv, WsChainStep, ForwardHead, RequestSummary, SummaryArrives, SummaryFails
<1>2. stage = "bridged" /\ client \in {"open", "closed"}
    BY <1>1 DEF BridgeInv, WsTypeOK, SocketInv, FrameInv
<1>3. /\ UNCHANGED <<route, stage, relaying, received, binaries>>
      /\ route = "cliproxy"
    BY <1>1 DEF BridgeInv, FrameInv, WsChainStep, ForwardHead, RequestSummary, SummaryArrives, SummaryFails
<1>4. \/ UNCHANGED <<client, upstream, log>>
      \/ client = "open" /\ client' = "closed" /\ upstream' \in {"closing", "closed"} /\ log' = "released"
      \/ client' = client /\ client # "open" /\ upstream' \in {"closing", "closed"} /\ log' = log
    BY <1>2 DEF BridgeInv, WsTypeOK, SocketInv, WsChainStep, ForwardHead, RequestSummary, SummaryArrives,
                SummaryFails, CloseClient, Closing
<1>5. SocketInv'
    BY <1>2, <1>3, <1>4 DEF BridgeInv, SocketInv
<1>6. Head(chain) \in 1..n /\ Tail(chain) \in Seq(1..n) /\ Len(Tail(chain)) = Len(chain) - 1
    BY <1>1, HeadTailProperties
<1>7. client = "open" => Head(chain) = m + 1
    <2>1. Head(chain) = chain[1] /\ 1 \in 1..Len(chain)
        BY <1>1, HeadTailProperties, EmptySeq, LenProperties
    <2>. QED BY <2>1 DEF BridgeInv, FrameInv
<1>8. CASE RequestSummary
    <2>1. UNCHANGED <<client, upstream, log, chain, passed>> /\ summary' = Head(chain)
        BY <1>8 DEF RequestSummary
    <2>2. WsTypeOK'
        BY <1>1, <1>3, <1>6, <2>1 DEF BridgeInv, WsTypeOK
    <2>3. FrameInv'
        BY <1>3, <2>1 DEF BridgeInv, FrameInv
    <2>. QED BY <1>5, <2>2, <2>3 DEF BridgeInv
<1>9. CASE ForwardHead \/ SummaryArrives \/ SummaryFails
    <2>1. chain' = Tail(chain) /\ summary' = 0
        BY <1>9 DEF ForwardHead, SummaryArrives, SummaryFails
    <2>2. \/ passed' = passed /\ client' # "open"
          \/ passed' = Append(passed, Head(chain)) /\ client = "open" /\ client' = "open"
        BY <1>2, <1>9 DEF ForwardHead, SummaryArrives, SummaryFails, CloseClient,
                          BridgeInv, WsTypeOK, SocketInv
    <2>3. passed' \in Seq(1..n)
        <3>1. Append(passed, Head(chain)) \in Seq(1..n)
            BY <1>1, <1>6, AppendProperties
        <3>. QED BY <1>1, <2>2, <3>1
    <2>8. route' = "cliproxy" /\ received' = received /\ client' \in {"open", "closed"}
        BY <1>2, <1>3, <1>4
    <2>4. WsTypeOK'
        BY <1>1, <1>2, <1>3, <1>4, <1>6, <2>1, <2>3 DEF BridgeInv, WsTypeOK
    <2>5. ASSUME passed' = passed /\ client' # "open" PROVE FrameInv'
        BY <2>5, <2>8 DEF BridgeInv, FrameInv
    <2>6. ASSUME passed' = Append(passed, m + 1) /\ client = "open" /\ client' = "open"
          PROVE  FrameInv'
        <3>1. Len(passed') = m + 1 /\ m + 1 <= n
            BY <1>1, <1>6, <1>7, <2>6, AppendProperties
        <3>2. ASSUME NEW k \in 1..Len(passed') PROVE passed'[k] = k
            BY <1>1, <2>6, <3>1, AppendProperties DEF BridgeInv, FrameInv
        <3>3. Len(chain') = Len(received') - Len(passed')
            BY <1>1, <1>3, <1>6, <2>1, <2>6, <3>1 DEF BridgeInv, FrameInv
        <3>4. ASSUME NEW k \in 1..Len(chain') PROVE chain'[k] = Len(passed') + k
            <4>1. chain'[k] = chain[k + 1] /\ k + 1 \in 1..Len(chain)
                BY <1>1, <1>6, <2>1, HeadTailProperties, LenProperties
            <4>. QED BY <1>1, <2>6, <3>1, <4>1 DEF BridgeInv, FrameInv
        <3>. QED BY <2>6, <2>8, <3>1, <3>2, <3>3, <3>4 DEF FrameInv
    <2>7. FrameInv'
        <3>1. client = "open" => Append(passed, Head(chain)) = Append(passed, m + 1)
            BY <1>7
        <3>. QED BY <2>2, <2>5, <2>6, <3>1
    <2>. QED BY <1>5, <2>4, <2>7 DEF BridgeInv
<1>. QED BY <1>8, <1>9 DEF WsChainStep

LEMMA BridgeStep == BridgeInv /\ [WsNext]_wsVars => BridgeInv'
<1>. SUFFICES ASSUME BridgeInv, [WsNext]_wsVars PROVE BridgeInv'
    OBVIOUS
<1>1. CASE Handshake \/ UpstreamDrops \/ UpstreamClosed \/ ClientCloses
    <2>1. UNCHANGED <<route, frames>>
        BY <1>1 DEF Handshake, DialSucceeds, DialFails, ClientAborts, Upgrade, UpgradeFails,
                    UpstreamDrops, UpstreamClosed, ClientCloses, frames
    <2>. QED BY <1>1, <2>1, SocketSteps
<1>2. CASE \E kind \in Kinds : Frame(kind)
    BY <1>2, FrameSteps
<1>3. CASE RelayBinary
    BY <1>3, BinarySteps
<1>4. CASE WsChainStep
    BY <1>4, ChainSteps
<1>5. CASE UNCHANGED wsVars
    BY <1>5 DEF wsVars, sockets, frames, BridgeInv, WsTypeOK, SocketInv, FrameInv
<1>. QED BY <1>1, <1>2, <1>3, <1>4, <1>5 DEF WsNext

(* The types of the bridge, with the awaited summary at the head of the    *)
(* chain, whatever the number of frames (realtime.ts message handler).     *)
THEOREM BridgeTypes == WsSpec => []WsTypeOK
<1>1. BridgeInv => WsTypeOK
    BY DEF BridgeInv
<1>. QED BY BridgeInit, BridgeStep, <1>1, PTL DEF WsSpec

(* No bridge is half open, whatever closes in whatever phase (the open     *)
(* handler's check of readyState and the handlers it installs).            *)
THEOREM BridgeNeverHalfOpen == WsSpec => []NeverHalfOpen
<1>1. BridgeInv => NeverHalfOpen
    BY DEF BridgeInv, WsTypeOK, SocketInv, NeverHalfOpen
<1>. QED BY BridgeInit, BridgeStep, <1>1, PTL DEF WsSpec

(* The log file is held exactly until the connection is over (releaseLog). *)
THEOREM BridgeLog == WsSpec => []LogHeldUntilOver
<1>1. BridgeInv => LogHeldUntilOver
    BY DEF BridgeInv, SocketInv, LogHeldUntilOver
<1>. QED BY BridgeInit, BridgeStep, <1>1, PTL DEF WsSpec

(* An awaited summary keeps its place among the frames (responseFrameQueue). *)
THEOREM BridgeSummary == WsSpec => []SummaryInOrder
<1>1. BridgeInv => SummaryInOrder
    <2>. SUFFICES ASSUME BridgeInv, summary # 0, client = "open"
                  PROVE  passed = [k \in 1..(summary - 1) |-> k]
        BY DEF SummaryInOrder
    <2>1. chain \in Seq(1..Len(received)) /\ chain # <<>> /\ Head(chain) = summary /\ Len(passed) \in Nat
        BY LenProperties DEF BridgeInv, WsTypeOK
    <2>2. summary = chain[1] /\ 1 \in 1..Len(chain)
        BY <2>1, HeadTailProperties, EmptySeq, LenProperties
    <2>3. Len(passed) = summary - 1
        BY <2>1, <2>2 DEF BridgeInv, FrameInv
    <2>4. passed = [k \in 1..Len(passed) |-> passed[k]]
        BY LenProperties DEF BridgeInv, WsTypeOK
    <2>5. \A k \in 1..Len(passed) : passed[k] = k
        BY DEF BridgeInv, FrameInv
    <2>. QED BY <2>3, <2>4, <2>5
<1>. QED BY BridgeInit, BridgeStep, <1>1, PTL DEF WsSpec

-----------------------------------------------------------------------------
(* The bridge implements FramePipe.                                        *)

Alive == client \in {"waiting", "open"}

Prefix ==
    /\ received \in Seq(Kinds) /\ Effects \in Seq(Kinds)
    /\ Len(Effects) = Len(passed) /\ Len(passed) \in Nat /\ Len(passed) <= Len(received)
    /\ \A k \in 1..Len(passed) : Effects[k] = received[k]

LEMMA EffectsArePrefix == BridgeInv => Prefix
<1>. SUFFICES ASSUME BridgeInv PROVE Prefix
    OBVIOUS
<1>1. received \in Seq(Kinds) /\ Len(received) \in Nat /\ Len(passed) \in Nat /\ Len(passed) <= Len(received)
    BY LenProperties DEF BridgeInv, WsTypeOK, FrameInv
<1>2. \A k \in 1..Len(passed) : passed[k] = k /\ received[passed[k]] \in Kinds
    BY <1>1, ElementOfSeq DEF BridgeInv, FrameInv
<1>3. Effects \in Seq(Kinds) /\ Len(Effects) = Len(passed)
    BY <1>1, <1>2, IsASeq, LenProperties DEF Effects
<1>4. \A k \in 1..Len(passed) : Effects[k] = received[k]
    BY <1>2 DEF Effects
<1>. QED BY <1>1, <1>3, <1>4 DEF Prefix

LEMMA PipeInit == WsInit => Pipe!Init
<1>. SUFFICES ASSUME WsInit PROVE Pipe!Init
    OBVIOUS
<1>1. received = <<>> /\ Alive
    BY DEF WsInit, Alive
<1>2. Effects = <<>>
    BY BridgeInit, EffectsArePrefix, EmptySeq DEF WsInit, Prefix
<1>. QED BY <1>1, <1>2 DEF Pipe!Init, Alive

(* Effects of an unchanged history are unchanged when frames are added. *)
LEMMA EffectsStay ==
    ASSUME BridgeInv, BridgeInv', passed' = passed,
           received' = received \/ \E kind \in Kinds : received' = Append(received, kind)
    PROVE  Effects' = Effects
<1>1. Prefix
    BY EffectsArePrefix
<1>2. BridgeInv' => Prefix'
    BY EffectsArePrefix, PTL
<1>3. \A k \in 1..Len(passed) : received'[k] = received[k]
    BY <1>1, AppendProperties, LenProperties DEF Prefix
<1>. QED BY <1>1, <1>2, <1>3, SeqEqual DEF Prefix

(* One more frame takes effect. *)
LEMMA EffectsGrow ==
    ASSUME BridgeInv, BridgeInv', Len(passed') = Len(passed) + 1,
           received' = received \/ \E kind \in Kinds : received' = Append(received, kind)
    PROVE  Effects' = Append(Effects, received'[Len(passed) + 1])
<1>1. Prefix
    BY EffectsArePrefix
<1>2. BridgeInv' => Prefix'
    BY EffectsArePrefix, PTL
<1>3. \A k \in 1..Len(passed) : received'[k] = received[k]
    <2>. TAKE k \in 1..Len(passed)
    <2>1. received \in Seq(Kinds) /\ k \in 1..Len(received)
        BY <1>1, LenProperties DEF Prefix
    <2>2. ASSUME NEW kind \in Kinds, received' = Append(received, kind)
          PROVE  received'[k] = received[k]
        <3>1. Append(received, kind)[k] = received[k]
            BY <2>1, AppendProperties
        <3>. QED BY <2>2, <3>1
    <2>3. CASE received' = received
        BY <2>3
    <2>. QED BY <2>2, <2>3
<1>. DEFINE last == received'[Len(passed) + 1]
<1>4. last \in Kinds /\ Effects'[Len(passed) + 1] = last
    BY <1>1, <1>2, ElementOfSeq DEF Prefix
<1>. HIDE DEF last
<1>5. /\ Append(Effects, last) \in Seq(Kinds)
      /\ Len(Append(Effects, last)) = Len(passed) + 1
      /\ \A k \in 1..Len(passed) : Append(Effects, last)[k] = Effects[k]
      /\ Append(Effects, last)[Len(passed) + 1] = last
    BY <1>1, <1>4, AppendProperties DEF Prefix
<1>6. \A k \in 1..(Len(passed) + 1) : Effects'[k] = Append(Effects, last)[k]
    <2>. TAKE k \in 1..(Len(passed) + 1)
    <2>1. CASE k = Len(passed) + 1
        BY <1>4, <1>5, <2>1
    <2>2. CASE k \in 1..Len(passed)
        BY <1>1, <1>2, <1>3, <1>5, <2>2 DEF Prefix
    <2>. QED BY <1>1, <2>1, <2>2 DEF Prefix
<1>7. Effects' = Append(Effects, last)
    BY <1>1, <1>2, <1>5, <1>6, SeqEqual DEF Prefix
<1>. QED BY <1>7 DEF last

LEMMA PipeStep == BridgeInv /\ BridgeInv' /\ [WsNext]_wsVars => [Pipe!Next]_(Pipe!vars)
<1>. SUFFICES ASSUME BridgeInv, BridgeInv', [WsNext]_wsVars PROVE [Pipe!Next]_(Pipe!vars)
    OBVIOUS
<1>. USE DEF Alive
<1>1. Prefix
    BY EffectsArePrefix
<1>2. ASSUME Effects' = Effects, received' = received, Alive' => Alive
      PROVE  [Pipe!Next]_(Pipe!vars)
    BY <1>2 DEF Pipe!Next, Pipe!End, Pipe!vars
<1>3. ASSUME Effects' = Effects, Alive, ~Alive', NEW kind \in Kinds, received' = Append(received, kind)
      PROVE  [Pipe!Next]_(Pipe!vars)
    BY <1>3 DEF Pipe!Next, Pipe!End
<1>4. CASE Handshake \/ UpstreamDrops \/ UpstreamClosed \/ ClientCloses
    <2>1. UNCHANGED frames /\ (Alive' => Alive)
        BY <1>4 DEF Handshake, DialSucceeds, DialFails, ClientAborts, Upgrade, UpgradeFails, UpstreamDrops,
                    UpstreamClosed, ClientCloses, CloseClient, frames
    <2>2. Effects' = Effects
        BY <2>1, EffectsStay DEF frames
    <2>. QED BY <1>2, <2>1, <2>2 DEF frames
<1>5. ASSUME NEW kind \in Kinds, Frame(kind) PROVE [Pipe!Next]_(Pipe!vars)
    <2>1. client = "open" /\ received' = Append(received, kind)
        BY <1>5 DEF Frame, RefuseFrame, ChainFrame, RelayFrame, CanReceive
    <2>2. CASE passed' = passed
        <3>1. Effects' = Effects
            BY <2>1, <2>2, EffectsStay
        <3>2. CASE Alive'
            BY <2>1, <3>1, <3>2 DEF Pipe!Next, Pipe!Accept
        <3>. QED BY <1>3, <2>1, <3>1, <3>2
    <2>3. CASE RelayFrame(kind) /\ upstream = "open"
        <3>1. client' = "open" /\ passed' = Append(passed, Len(received) + 1) /\ route # "cliproxy"
            BY <2>1, <2>3 DEF RelayFrame
        <3>2. Len(passed) = Len(received)
            BY <2>1, <3>1, <1>1, EmptySeq DEF BridgeInv, FrameInv, Prefix
        <3>3. Len(passed') = Len(passed) + 1 /\ received'[Len(passed) + 1] = kind
            BY <1>1, <2>1, <3>1, <3>2, AppendProperties DEF Prefix, BridgeInv, WsTypeOK
        <3>4. Effects = received
            BY <1>1, <3>2, SeqEqual DEF Prefix
        <3>5. Effects' = Append(Effects, kind)
            BY <2>1, <3>3, EffectsGrow
        <3>. QED BY <2>1, <3>1, <3>4, <3>5 DEF Pipe!Next, Pipe!Relay
    <2>. QED BY <1>5, <2>2, <2>3 DEF Frame, RefuseFrame, ChainFrame, RelayFrame
<1>6. CASE RelayBinary
    <2>1. received' = received /\ passed' = passed /\ (Alive' => Alive)
        BY <1>6 DEF RelayBinary, CanReceive, CloseClient
    <2>. QED BY <1>2, <2>1, EffectsStay
<1>7. CASE WsChainStep
    <2>1. received' = received /\ (client' = client \/ client' = "closed")
        BY <1>7 DEF WsChainStep, ForwardHead, RequestSummary, SummaryArrives, SummaryFails, CloseClient, sockets
    <2>2. CASE passed' = passed
        BY <1>2, <2>1, <2>2, EffectsStay
    <2>3. CASE passed' # passed
        <3>1. /\ passed' = Append(passed, Head(chain)) \/ passed' = Append(passed, summary)
              /\ summary # 0 => summary = Head(chain)
              /\ chain # <<>>
            BY <1>7, <2>3 DEF WsChainStep, ForwardHead, RequestSummary, SummaryArrives, SummaryFails, BridgeInv, WsTypeOK
        <3>2. client = "open" /\ client' = "open"
            BY <1>7, <2>3 DEF WsChainStep, ForwardHead, RequestSummary, SummaryArrives, SummaryFails, BridgeInv,
                              WsTypeOK, SocketInv, FrameInv
        <3>3. Len(passed') = Len(passed) + 1
            BY <3>1, AppendProperties, LenProperties DEF BridgeInv, WsTypeOK
        <3>4. Len(passed') <= Len(received')
            BY DEF BridgeInv, FrameInv
        <3>5. Effects' = Append(Effects, received[Len(passed) + 1])
            BY <2>1, <3>3, EffectsGrow
        <3>. QED BY <1>1, <2>1, <3>2, <3>3, <3>4, <3>5 DEF Pipe!Next, Pipe!Pass, Prefix
    <2>. QED BY <2>2, <2>3
<1>8. CASE UNCHANGED wsVars
    <2>1. received' = received /\ passed' = passed /\ client' = client
        BY <1>8 DEF wsVars, sockets, frames
    <2>. QED BY <1>2, <2>1, EffectsStay
<1>. QED BY <1>4, <1>5, <1>6, <1>7, <1>8 DEF WsNext

(* Text frames take effect in order, without gaps or repetition and never  *)
(* after the end of the connection, for any number of frames: the bridge   *)
(* implements FramePipe (realtime.ts message handler and its chain).       *)
THEOREM BridgeImplementsPipe == WsSpec => FramesPipe
BY BridgeInit, BridgeStep, PipeInit, PipeStep, PTL DEF WsSpec, FramesPipe, Pipe!Spec
=============================================================================
