----------------------------- MODULE ClawMachine -----------------------------
(***************************************************************************)
(* The claw_machine program: a registry that counts what it holds, skills  *)
(* with versions, and receipts of plans, memories and proofs.              *)
(*                                                                         *)
(* One action per instruction; an instruction is atomic.  An account lives *)
(* at the address its seeds derive, so accounts are functions over seeds.  *)
(* Hashes are abstracted to whether they are set; times are left out.  The *)
(* registry's paused is never read.                                        *)
(***************************************************************************)
EXTENDS Naturals, FiniteSets

CONSTANTS
    Authorities,    \* the wallets that sign
    Seeds,          \* the 32-byte seeds of skills and receipts
    Fronts,         \* the first 28 bytes of the seeds of versions
    MaxSkillVersion,    \* bound: the u32 version numbers in use
    CountMax        \* u64::MAX

ASSUME CountAssumption ==
    /\ CountMax \in Nat /\ MaxSkillVersion \in Nat
    /\ IsFiniteSet(Authorities) /\ IsFiniteSet(Seeds)

(* The accounts of one kind live at an authority and a seed.               *)
Addresses == Authorities \X Seeds

VARIABLES
    registry,       \* the counters of the registry, or NoRegistry
    skills,         \* the skills: the current version of each, or NoMachineSkill
    skillVersions,  \* the addresses of a skill's versions
    machineReceipts \* the receipts by kind and address, or NoMachineReceipt

machineVars == <<registry, skills, skillVersions, machineReceipts>>

ReceiptStatus == {"Pending", "Active", "Linked", "Completed", "Failed", "Verified"}
ReceiptKinds == {"plan", "memory", "proof"}

Registry == [{"skill", "plan", "memory", "proof"} -> 0..CountMax]
NoRegistry == [k \in {} |-> 0]
NoMachineReceipt == [status |-> "None", settled |-> FALSE]
NoMachineSkill == MaxSkillVersion + 1

\* settled: whether result_hash, next_turn_hash or verified_at has been set.
MachineReceipt == [status : ReceiptStatus, settled : BOOLEAN] \cup {NoMachineReceipt}

MachineInit ==
    /\ registry = NoRegistry
    /\ skills = [x \in Addresses |-> NoMachineSkill]
    /\ skillVersions = [x \in Addresses |-> {}]
    /\ machineReceipts = [k \in ReceiptKinds |-> [x \in Addresses |-> NoMachineReceipt]]

InitializeRegistry ==
    /\ registry = NoRegistry
    /\ registry' = [k \in {"skill", "plan", "memory", "proof"} |-> 0]
    /\ UNCHANGED <<skills, skillVersions, machineReceipts>>

\* saturating_add(1)
CountedUp(n) == IF n = CountMax THEN n ELSE n + 1

Counts(k) ==
    /\ registry # NoRegistry
    /\ registry' = [registry EXCEPT ![k] = CountedUp(@)]

CreateSkill(x) ==
    /\ skills[x] = NoMachineSkill
    /\ skills' = [skills EXCEPT ![x] = 0]
    /\ Counts("skill")
    /\ UNCHANGED <<skillVersions, machineReceipts>>

\* Fault: current_version counts the versions.
CountedVersion(x, version) == skills[x] + 1

CurrentVersion(x, version) == version

\* The version_seed that #[instruction] takes for the address is the first 32 bytes of the
\* arguments: the number and the front of the seed.
VersionAddresses == Fronts \X (1..MaxSkillVersion)

\* Any number above zero, whatever the current one is.
PublishSkillVersion(x, front, version) ==
    /\ <<front, version>> \in VersionAddresses
    /\ skills[x] # NoMachineSkill
    /\ <<front, version>> \notin skillVersions[x]
    /\ skillVersions' = [skillVersions EXCEPT ![x] = @ \cup {<<front, version>>}]
    /\ skills' = [skills EXCEPT ![x] = CurrentVersion(x, version)]
    /\ UNCHANGED <<registry, machineReceipts>>

Uninitialized(k, x) == machineReceipts[k][x] = NoMachineReceipt

CreateReceipt(k, x) ==
    /\ Uninitialized(k, x)
    /\ machineReceipts' = [machineReceipts EXCEPT ![k][x] = [status |-> "Pending", settled |-> FALSE]]
    /\ Counts(k)
    /\ UNCHANGED <<skills, skillVersions>>

CreatePlanReceipt(x) == CreateReceipt("plan", x)
CreateMemoryReceipt(x) == CreateReceipt("memory", x)
CreateProofReceipt(x) == CreateReceipt("proof", x)

Settle(k, x, status) ==
    /\ machineReceipts[k][x] # NoMachineReceipt
    /\ machineReceipts' = [machineReceipts EXCEPT ![k][x] = [status |-> status, settled |-> TRUE]]
    /\ UNCHANGED <<registry, skills, skillVersions>>

\* The authority chooses the status, again and again.
CompletePlanReceipt(x, status) == Settle("plan", x, status)
LinkMemoryToNextTurn(x) == Settle("memory", x, "Linked")
VerifyProofReceipt(x) == Settle("proof", x, "Verified")

MachineNext ==
    \/ InitializeRegistry
    \/ \E x \in Addresses :
          \/ CreateSkill(x)
          \/ \E front \in Fronts, version \in 0..MaxSkillVersion : PublishSkillVersion(x, front, version)
          \/ CreatePlanReceipt(x)
          \/ CreateMemoryReceipt(x)
          \/ CreateProofReceipt(x)
          \/ \E status \in ReceiptStatus : CompletePlanReceipt(x, status)
          \/ LinkMemoryToNextTurn(x)
          \/ VerifyProofReceipt(x)

MachineSpec == MachineInit /\ [][MachineNext]_machineVars

----------------------------------------
(* Properties.                                                             *)

\* The accounts have the shape of the program's structs.
MachineTypeOK ==
    /\ registry \in Registry \cup {NoRegistry}
    /\ skills \in [Addresses -> 0..NoMachineSkill]
    /\ skillVersions \in [Addresses -> SUBSET VersionAddresses]
    /\ machineReceipts \in [ReceiptKinds -> [Addresses -> MachineReceipt]]

\* The addresses at which the program has made an account.
SkillsMade == {x \in Addresses : skills[x] # NoMachineSkill}
ReceiptsMade(k) == {x \in Addresses : machineReceipts[k][x] # NoMachineReceipt}

NumberOf(k) == Cardinality(IF k = "skill" THEN SkillsMade ELSE ReceiptsMade(k))

\* Each counter of the registry is the number of accounts of its kind, up to its
\* limit; without a registry there are none.
RegistryCounts ==
    \A k \in {"skill"} \cup ReceiptKinds :
        IF registry = NoRegistry THEN NumberOf(k) = 0
        ELSE registry[k] = IF NumberOf(k) > CountMax THEN CountMax ELSE NumberOf(k)

\* The current version of a skill is the number of one of its versions, and 0
\* only while there is none; it may go down.
CurrentVersionPublished ==
    \A x \in Addresses :
        LET published == {address[2] : address \in skillVersions[x]}
        IN  IF skills[x] \in {0, NoMachineSkill} THEN published = {}
            ELSE skills[x] \in published

\* A memory is Linked exactly when it names the next turn, a proof Verified exactly
\* when it has the time, and a plan that is not Pending has a result.
StatusRestsOnEvidence ==
    \A x \in Addresses :
        /\ machineReceipts["memory"][x].settled <=> machineReceipts["memory"][x].status = "Linked"
        /\ machineReceipts["proof"][x].settled <=> machineReceipts["proof"][x].status = "Verified"
        /\ machineReceipts["plan"][x].status \notin {"None", "Pending"} =>
              machineReceipts["plan"][x].settled

\* What a receipt has received it keeps: no instruction makes it anew.  (Its status
\* it need not keep: a plan may be completed as Pending.)
EvidenceStays ==
    [][\A k \in ReceiptKinds, x \in Addresses :
          machineReceipts[k][x].settled => machineReceipts'[k][x].settled]_machineReceipts
=============================================================================
