---------------------------- MODULE MCOperations ----------------------------
(***************************************************************************)
(* Small instances of the parts that keep the service going and in front   *)
(* of its user: a JSON store, the NFT service, the wallet context of the   *)
(* client with its panels, the page of the command center, its simulated   *)
(* runtime, the story of the demo, the run of the agents, the page of the  *)
(* receipts, the structured receipts and the debug collector, one in each  *)
(* behaviour.                                                              *)
(***************************************************************************)
EXTENDS JsonStore, NftService, WalletPanels, CommandCenter,
        DemoPlayback, AgentPipeline,
        ReceiptsPage, StructuredReceipts, DebugCollector, TLC

CONSTANTS s1, s2, s3

VARIABLE operation

frontVars == <<walletPanelsVars, commandCenterVars, swarmRuntimeVars, demoVars,
               receiptsPageVars, collectorVars>>
serviceVars == <<storeVars, nftServiceVars, agentVars, structuredVars>>
operationsVars == <<frontVars, serviceVars, operation>>

\* Two entries of a kind wait.
SmallBuffers == [k \in LogKinds |-> 2]

OperationsInit ==
    /\ operation \in {"store", "nft", "client", "page", "runtime", "demo",
                     "agents", "reflections", "receipts", "logs"}
    /\ StoreInit /\ NftServiceInit /\ WalletPanelsInit
    /\ CommandCenterInit /\ SwarmRuntimeInit /\ DemoInit /\ AgentInit
    /\ ReceiptsPageInit /\ StructuredInit /\ CollectorInit
    /\ operation # "store" => chained
    /\ operation # "reflections" => reflectionCount = 0
    /\ operation # "receipts" => sidecarMode = "live" /\ historyRow = SidecarReceipt
    /\ operation # "page" => pageWallet = Nobody /\ ~demoMode

\* The page awaits a request of its own beside one report at most, and before the failure;
\* the last moment is for what comes after a trim that failed.
SmallCollectorNext ==
    /\ CollectorNext
    /\ moment' = MaxEntries => untrimmed # {}
    /\ awaited'.waiting + awaited'.reading = 0 \/ (Cardinality(reports') <= 1 /\ logFaults' = 0)

ClientNext ==
    \/ /\ operation = "client" /\ WalletPanelsNext
       /\ UNCHANGED <<commandCenterVars, swarmRuntimeVars, demoVars,
                      receiptsPageVars, collectorVars>>
    \/ /\ operation = "page" /\ CommandCenterNext
       /\ UNCHANGED <<walletPanelsVars, swarmRuntimeVars, demoVars,
                      receiptsPageVars, collectorVars>>
    \/ /\ operation = "runtime" /\ SwarmRuntimeNext
       /\ UNCHANGED <<walletPanelsVars, commandCenterVars, demoVars,
                      receiptsPageVars, collectorVars>>
    \/ /\ operation = "demo" /\ DemoNext
       /\ UNCHANGED <<walletPanelsVars, commandCenterVars, swarmRuntimeVars,
                      receiptsPageVars, collectorVars>>
    \/ /\ operation = "reflections" /\ ReceiptsPageNext
       /\ UNCHANGED <<walletPanelsVars, commandCenterVars, swarmRuntimeVars, demoVars,
                      collectorVars>>
    \/ /\ operation = "logs" /\ SmallCollectorNext
       /\ UNCHANGED <<walletPanelsVars, commandCenterVars, swarmRuntimeVars, demoVars,
                      receiptsPageVars>>

ServiceNext ==
    \/ /\ operation = "store" /\ StoreNext
       /\ UNCHANGED <<nftServiceVars, agentVars, structuredVars>>
    \/ /\ operation = "nft" /\ NftServiceNext
       /\ UNCHANGED <<storeVars, agentVars, structuredVars>>
    \/ /\ operation = "agents" /\ AgentNext
       /\ UNCHANGED <<storeVars, nftServiceVars, structuredVars>>
    \/ /\ operation = "receipts" /\ StructuredNext
       /\ UNCHANGED <<storeVars, nftServiceVars, agentVars>>

OperationsNext ==
    /\ UNCHANGED operation
    /\ \/ ClientNext /\ UNCHANGED serviceVars
       \/ ServiceNext /\ UNCHANGED frontVars

\* The fairness of the parts, each where it runs.
OperationsFairness ==
    /\ \A s \in Saves : WF_storeVars(operation = "store" /\ Progress(s))
    /\ \A i \in 1..MaxTasks :
          WF_walletPanelsVars(operation = "client" /\ i \in DOMAIN tasks /\ PanelGoesOn(i))
    /\ WF_demoVars(operation = "demo" /\ PlayNext)
    /\ WF_collectorVars(operation = "logs" /\ ReportLogs)
    /\ WF_collectorVars(operation = "logs" /\ \E r \in reports, spoilt \in SUBSET LogKinds : HandlePayload(r, spoilt))
    /\ WF_collectorVars(operation = "logs" /\ \E r \in reports : ReportAnswered(r))

OperationsSpec == OperationsInit /\ [][OperationsNext]_operationsVars /\ OperationsFairness

\* The liveness of a part, where it runs.
SavesAreAnswered == operation = "store" => EverySaveIsAnswered
ClientSettles == operation = "client" => PageSettles
DemoGoesOn == operation = "demo" => StoryPlaysToItsEnd
LogsArrive == operation = "logs" => ReportsArrive

\* The stores go on: each save is answered, well or, once its chain is poisoned, badly,
\* and only a restart mends a poisoned chain.
StoresRecover ==
    /\ SavesAreAnswered
    /\ PoisonedUntilRestart

\* The client goes on: the wallet context comes to rest, the demo's story plays to its
\* end, and what the debug collector holds reaches the server.
PagesSettle ==
    /\ ClientSettles
    /\ DemoGoesOn
    /\ LogsArrive

\* A restart finds in the file of a JSON store what was answered, in the order it was
\* saved; and the collection of nftService.ts counts its mints and stays frozen, in
\* memory and in its file.
StoresHold ==
    /\ []AnsweredIsOnDisk
    /\ []RestoresAPrefix
    /\ []CountsItsMints
    /\ FrozenIsFinal

\* ReceiptsPage.tsx keeps to the reflection that was chosen and comes to rest; the list
\* of structured receipts keeps what was posted and claims only what is backed.
ReceiptsHold ==
    /\ []ChainIsOfTheChosen
    /\ []BusyEnds
    /\ ChoiceIsKept
    /\ []FirstPostedStays
    /\ []ClaimsAreBacked

\* The page of the command center tells of the loops that ran, and its simulated
\* runtime of its cycles.
CommandCenterTells ==
    /\ FinalStepIsProven
    /\ BusyIsInFlight
    /\ PageTellsLastLoop
    /\ VerifyLaneIsEarned
    /\ FiguresTellTheRuns
    /\ ShownReferencesHold
=============================================================================
