---------------------------- MODULE MCClawOnchain ----------------------------
(***************************************************************************)
(* Small instances of the programs that keep records, side by side: a      *)
(* behaviour is one of claw_onchain's accounts, of its reputation events,  *)
(* of claw_machine, of claw_nft or of claw_dao with its discovery rows.    *)
(* The programs share no account.                                          *)
(***************************************************************************)
EXTENDS ClawOnchain, ClawMachine, ClawNft, TLC

CONSTANTS w1, w2, v1, v2, m1, m2, m3

VARIABLES part, slot, dao, treasury, vault, member, proposal, votes, execution, daoRow

\* Two members of different stakes and one proposal, with room for the products of its rank.
Rows == INSTANCE ClawDaoDiscovery WITH
    U64Max <- 1000000, ProposalIds <- {1}, Kinds <- {"Text"}, Stakes <- {1, 5},
    Reputations <- {0}, MinStakes <- {0}, QuorumBps <- {2000}, ThresholdBps <- {5000},
    Durations <- {0}, Amounts <- {0}, SpendLimits <- {0}, MaxSlot <- 1, row <- daoRow

rowVars == <<slot, dao, treasury, vault, member, proposal, votes, execution, daoRow>>
onchainVars == <<vars, machineVars, nftVars, rowVars, part>>

\* Wallets and versions are compared for equality only.
Symmetry == Permutations(Wallets) \cup Permutations(Versions)

OnchainInit ==
    /\ part \in {"accounts", "reputation", "machine", "nft", "rows"}
    /\ Init /\ MachineInit /\ NftInit /\ Rows!DiscoveryInit
    /\ part # "nft" => before = [m \in NftMints |-> 0]

\* The accounts, without reputation events and updates of profiles.
AccountsNext ==
    \/ \E quota \in Quotas :
         \/ InitializeConfig(quota)
         \/ \E paused \in BOOLEAN : UpdateConfig(paused, quota)
    \/ \E w \in Wallets :
         \/ CreateProfile(w)
         \/ \E id \in RecordIds :
              \/ AnchorMemory(w, id)
              \/ RecordDeployment(w, id)
              \/ \E steps, completed, failed \in StepCounts :
                   RecordPlannerRun(w, id, steps, completed, failed)
    \/ \E k \in SkillKeys :
         \/ PublishSkill(k)
         \/ RefreshDiscovery(k)
         \/ \E v \in Versions : CreateSkillVersion(k, v) \/ ActivateSkillVersion(k, v)

\* The reputation events of one wallet.
ReputationNext ==
    \/ \E quota \in Quotas : InitializeConfig(quota) \/ UpdateConfig(TRUE, quota)
    \/ \E w \in Wallets :
         \/ config.profiles = 0 /\ CreateProfile(w)
         \/ \E points \in Reputations : UpdateProfile(w, points, TRUE)
         \/ \E kind \in EventKinds, success \in BOOLEAN, points \in Rewards, quality \in Qualities :
              UpdateReputation(w, kind, success, points, quality)

\* At most three skills and receipts at a time.
SmallMachineNext ==
    /\ part = "machine"
    /\ MachineNext
    /\ Cardinality(SkillsMade') + Cardinality(ReceiptsMade("plan")')
       + Cardinality(ReceiptsMade("memory")') + Cardinality(ReceiptsMade("proof")') <= 3

OnchainNext ==
    /\ UNCHANGED part
    /\ \/ part = "accounts" /\ AccountsNext /\ UNCHANGED <<machineVars, nftVars, rowVars>>
       \/ part = "reputation" /\ ReputationNext /\ UNCHANGED <<machineVars, nftVars, rowVars>>
       \/ SmallMachineNext /\ UNCHANGED <<vars, nftVars, rowVars>>
       \/ part = "nft" /\ NftNext /\ UNCHANGED <<vars, machineVars, rowVars>>
       \/ part = "rows" /\ Rows!DiscoveryNext /\ UNCHANGED <<vars, machineVars, nftVars>>

OnchainSpec == OnchainInit /\ [][OnchainNext]_onchainVars

\* A row is a whole picture of its proposal at an earlier moment.
RowsAreSnapshots == Rows!RowsAreSnapshots

\* A yes vote never lowers the rank of a proposal while no product saturates.
YesNeverLowersRank == Rows!YesNeverLowersRank

\* The counters, records, scores and discovery rows of claw_onchain tell what its
\* accounts hold or held.
AccountsAgree ==
    /\ CountersMatchAccounts
    /\ RowsLagBehind
    /\ StepsAddUpBelowMax
    /\ ReputationAddsUp

\* The registry of claw_machine and the collection of claw_nft count what was made
\* under them, and a status has the evidence it stands for.
RegistersHold ==
    /\ MachineTypeOK
    /\ RegistryCounts
    /\ CurrentVersionPublished
    /\ StatusRestsOnEvidence
    /\ SupplyHeld
    /\ OneTokenEach

\* No instruction of the programs takes back evidence, thaws a collection, scores a
\* wallet or a proposal lower for a success or a yes vote, or takes back a vote or a
\* verdict that a discovery row of claw_dao has shown.
NeverTakenBack ==
    /\ SuccessNeverHurts
    /\ EvidenceStays
    /\ FrozenForGood
    /\ YesNeverLowersRank
    /\ []RowsAreSnapshots
=============================================================================
