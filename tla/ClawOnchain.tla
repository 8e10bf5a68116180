----------------------------- MODULE ClawOnchain -----------------------------
(***************************************************************************)
(* The claw_onchain program: agent profiles, the skills they publish and   *)
(* the versions of a skill, three kinds of records an agent anchors, its   *)
(* reputation, and the discovery rows of skills. One action is one          *)
(* instruction; one that fails changes nothing and is not a step. An        *)
(* account created by `init` exists once per seed, that is, per key of the  *)
(* functions below.                                                        *)
(***************************************************************************)
EXTENDS ClawNumbers, Functions

CONSTANTS
  Wallets, Slugs, Versions,
  RecordIds,     \* source_turn_id, run_id and deploy_id arguments
  EventKinds,    \* event_kind arguments that are sent
  Qualities,     \* reflection_quality_bps arguments
  Rewards,       \* reward_points arguments
  Quotas,        \* max_skills_per_owner arguments
  Reputations,   \* reputation arguments of update_profile
  StepCounts,    \* step_count, completed_steps and failed_steps arguments
  U16Max,        \* the largest u16 (65_535 on chain)
  MaxEvents      \* bound: reputation events of a wallet

CountedKinds == {"memory_anchor", "planner_run", "deployment",
                 "skill_publish", "skill_version", "verified_authorship"}
RecordKinds == {"memory", "planner", "deployment"}
SkillKeys == Wallets \X Slugs  \* the owner and the slug

ASSUME OnchainAssumption ==
  /\ Qualities \subseteq Nat /\ Rewards \subseteq U64 /\ Reputations \subseteq U64 /\ Quotas \subseteq Nat
  /\ U16Max \in Nat \ {0} /\ U16Max <= U64Max
  /\ StepCounts \subseteq 0..U16Max
  /\ MaxEvents \in Nat
  /\ IsFiniteSet(Wallets) /\ IsFiniteSet(Slugs) /\ IsFiniteSet(Versions)

VARIABLES
  config,      \* the ConfigAccount (live: it exists)
  profile,     \* the AgentProfileAccount of each wallet
  skill,       \* the SkillAccounts of each wallet, by slug
  version,     \* the status of each SkillVersionAccount ("None": no account)
  records,     \* the memory anchors, planner runs and deployments of each wallet
  reputation,  \* the ReputationAccount of each wallet
  row          \* the DiscoveryRowAccount of each skill

vars == <<config, profile, skill, version, records, reputation, row>>

NoProfile == [exists |-> FALSE, reputation |-> 0, verified |-> FALSE,
              skill_count |-> 0, recorded |-> [k \in RecordKinds |-> 0],
              trust |-> 0, discovery |-> 0]
NoSkill == [status |-> "None", version_count |-> 0, latest_version_index |-> 0]
NoReputation == [exists |-> FALSE, usage |-> 0, success |-> 0, failure |-> 0,
                 events |-> [k \in CountedKinds |-> 0], rewards |-> 0,
                 trust |-> 0, discovery |-> 0]
NoRow == [exists |-> FALSE, version_count |-> 0, discovery |-> 0]

Init ==
  /\ config = [live |-> FALSE, paused |-> FALSE, max_skills |-> 0,
               profiles |-> 0, skills |-> 0, versions |-> 0,
               recorded |-> [k \in RecordKinds |-> 0],
               reputation_events |-> 0, discovery_rows |-> 0]
  /\ profile = [w \in Wallets |-> NoProfile]
  /\ skill = [k \in SkillKeys |-> NoSkill]
  /\ version = [k \in SkillKeys |-> [v \in Versions |-> "None"]]
  /\ records = [w \in Wallets |-> {}]
  /\ reputation = [w \in Wallets |-> NoReputation]
  /\ row = [k \in SkillKeys |-> NoRow]

Running == config.live /\ ~config.paused

----------------------------------------
InitializeConfig(quota) ==
  /\ ~config.live
  /\ config' = [config EXCEPT !.live = TRUE, !.max_skills = quota]
  /\ UNCHANGED <<profile, skill, version, records, reputation, row>>

UpdateConfig(paused, quota) ==
  /\ config.live
  /\ config' = [config EXCEPT !.paused = paused, !.max_skills = quota]
  /\ UNCHANGED <<profile, skill, version, records, reputation, row>>

CreateProfile(w) ==
  /\ Running
  /\ ~profile[w].exists
  /\ Fits(config.profiles + 1)
  /\ profile' = [profile EXCEPT ![w] = [NoProfile EXCEPT !.exists = TRUE]]
  /\ config' = [config EXCEPT !.profiles = @ + 1]
  /\ UNCHANGED <<skill, version, records, reputation, row>>

(* The wallet itself may set its reputation and its verified mark; a None  *)
(* argument keeps them.                                                    *)
UpdateProfile(w, points, verified) ==
  /\ Running
  /\ profile[w].exists
  /\ profile' = [profile EXCEPT ![w].reputation = points, ![w].verified = verified]
  /\ UNCHANGED <<config, skill, version, records, reputation, row>>

PublishSkill(k) ==
  /\ Running
  /\ profile[k[1]].exists
  /\ skill[k].status = "None"
  /\ profile[k[1]].skill_count < config.max_skills
  /\ Fits(config.skills + 1)
  /\ skill' = [skill EXCEPT ![k].status = "Draft"]
  /\ profile' = [profile EXCEPT ![k[1]].skill_count = @ + 1]
  /\ config' = [config EXCEPT !.skills = @ + 1]
  /\ UNCHANGED <<version, records, reputation, row>>

(* Fault: the version account is not a fresh one *)
AnyVersion(k, v) == TRUE

NewVersion(k, v) == version[k][v] = "None"

VersionsCounted(k) == skill[k].version_count + 1

CreateSkillVersion(k, v) ==
  /\ Running
  /\ skill[k].status # "None"
  /\ NewVersion(k, v)
  /\ Fits(config.versions + 1)
  /\ version' = [version EXCEPT ![k][v] = "Draft"]
  /\ skill' = [skill EXCEPT ![k].version_count = VersionsCounted(k),
                            ![k].latest_version_index = VersionsCounted(k) - 1]
  /\ config' = [config EXCEPT !.versions = @ + 1]
  /\ UNCHANGED <<profile, records, reputation, row>>

(* latest_version_index becomes that of the newest version, whichever one  *)
(* is activated; an activated version stays active.                        *)
ActivateSkillVersion(k, v) ==
  /\ Running
  /\ version[k][v] = "Draft"
  /\ version' = [version EXCEPT ![k][v] = "Active"]
  /\ skill' = [skill EXCEPT ![k].status = "Active",
                 ![k].latest_version_index = Greater(skill[k].version_count, 1) - 1]
  /\ UNCHANGED <<config, profile, records, reputation, row>>

NewRecord(w, kind, id) == \A r \in records[w] : ~(r.kind = kind /\ r.id = id)

(* What the three instructions that anchor a record have in common.        *)
Record(w, kind, id, detail) ==
  /\ Running
  /\ profile[w].exists
  /\ NewRecord(w, kind, id)
  /\ Fits(config.recorded[kind] + 1)
  /\ records' = [records EXCEPT ![w] = @ \cup {[kind |-> kind, id |-> id, detail |-> detail]}]
  /\ profile' = [profile EXCEPT ![w].recorded[kind] = @ + 1]
  /\ config' = [config EXCEPT !.recorded[kind] = @ + 1]
  /\ UNCHANGED <<skill, version, reputation, row>>

AnchorMemory(w, id) == Record(w, "memory", id, <<>>)

SaturatingAdd16(a, b) == Lesser(a + b, U16Max)

StepsCounted(steps, completed, failed) ==
  /\ completed <= steps /\ failed <= steps
  /\ SaturatingAdd16(completed, failed) <= steps

RecordPlannerRun(w, id, steps, completed, failed) ==
  /\ StepsCounted(steps, completed, failed)
  /\ Record(w, "planner", id, <<steps, completed, failed>>)

RecordDeployment(w, id) == Record(w, "deployment", id, <<>>)

WithEvent(rep, kind, success, points) ==
  [rep EXCEPT !.exists = TRUE, !.usage = @ + 1, !.rewards = @ + points,
     !.success = @ + IF success THEN 1 ELSE 0,
     !.failure = @ + IF success THEN 0 ELSE 1,
     !.events = [k \in CountedKinds |-> @[k] + IF k = kind THEN 1 ELSE 0]]

Scored(rep, quality) ==
  LET trust == TrustScore(rep.success, rep.failure,
                          rep.events["verified_authorship"], rep.events["deployment"])
  IN [rep EXCEPT !.trust = trust,
        !.discovery = DiscoveryScore(trust, rep.usage, rep.success, 0,
                         rep.events["skill_publish"],
                         rep.events["verified_authorship"], quality)]

Mirrored(w, rep) == rep

UpdateReputation(w, kind, success, points, quality) ==
  /\ Running
  /\ profile[w].exists
  /\ quality <= BpsScale
  /\ reputation[w].usage < MaxEvents
  /\ Fits(reputation[w].usage + 1) /\ Fits(reputation[w].rewards + points)
  /\ Fits(config.reputation_events + 1)
  /\ LET rep == Scored(WithEvent(reputation[w], kind, success, points), quality)
         shown == Mirrored(w, rep)
     IN /\ reputation' = [reputation EXCEPT ![w] = rep]
        /\ profile' = [profile EXCEPT ![w].reputation = shown.trust,
                         ![w].trust = shown.trust, ![w].discovery = shown.discovery]
  /\ config' = [config EXCEPT !.reputation_events = @ + 1]
  /\ UNCHANGED <<skill, version, records, row>>

(* Fault: the row counts from one where the index counts from zero *)
RowAhead(k) ==
  [exists |-> TRUE, version_count |-> skill[k].version_count + 1,
   discovery |-> DiscoveryScore(0, 0, 0, skill[k].version_count + 1, 1, 0, 0)]

(* A skill's trust, usage, endorsements and quality are never written: they *)
(* are zero here.                                                          *)
RowOf(k) ==
  [exists |-> TRUE, version_count |-> skill[k].version_count,
   discovery |-> DiscoveryScore(0, 0, 0, skill[k].version_count, 1, 0, 0)]

RefreshDiscovery(k) ==
  /\ Running
  /\ skill[k].status # "None"
  /\ row[k].exists \/ Fits(config.discovery_rows + 1)
  /\ row' = [row EXCEPT ![k] = RowOf(k)]
  /\ config' = IF row[k].exists THEN config
               ELSE [config EXCEPT !.discovery_rows = @ + 1]
  /\ UNCHANGED <<profile, skill, version, records, reputation>>

Next ==
  \/ \E quota \in Quotas :
       \/ InitializeConfig(quota)
       \/ \E paused \in BOOLEAN : UpdateConfig(paused, quota)
  \/ \E w \in Wallets :
       \/ CreateProfile(w)
       \/ \E points \in Reputations \cup {profile[w].reputation}, verified \in BOOLEAN :
            UpdateProfile(w, points, verified)
       \/ \E id \in RecordIds :
            \/ AnchorMemory(w, id)
            \/ RecordDeployment(w, id)
            \/ \E steps, completed, failed \in StepCounts :
                 RecordPlannerRun(w, id, steps, completed, failed)
       \/ \E kind \in EventKinds, success \in BOOLEAN, points \in Rewards, quality \in Qualities :
            UpdateReputation(w, kind, success, points, quality)
  \/ \E k \in SkillKeys :
       \/ PublishSkill(k)
       \/ RefreshDiscovery(k)
       \/ \E v \in Versions : CreateSkillVersion(k, v) \/ ActivateSkillVersion(k, v)

Spec == Init /\ [][Next]_vars

----------------------------------------
Published == {k \in SkillKeys : skill[k].status # "None"}
VersionsOf(k) == {v \in Versions : version[k][v] # "None"}

(* Every counter of the configuration and of the profiles is the number of *)
(* accounts it counts: no instruction creates an account uncounted, or     *)
(* counts one twice.                                                       *)
CountersMatchAccounts ==
  /\ config.profiles = Cardinality({w \in Wallets : profile[w].exists})
  /\ config.skills = Cardinality(Published)
  /\ config.versions = SumFunction([k \in SkillKeys |-> Cardinality(VersionsOf(k))])
  /\ config.discovery_rows = Cardinality({k \in SkillKeys : row[k].exists})
  /\ config.reputation_events = SumFunction([w \in Wallets |-> reputation[w].usage])
  /\ \A w \in Wallets : profile[w].skill_count = Cardinality({k \in Published : k[1] = w})
  /\ \A k \in RecordKinds :
       /\ \A w \in Wallets :
            profile[w].recorded[k] = Cardinality({r \in records[w] : r.kind = k})
       /\ config.recorded[k] = SumFunction([w \in Wallets |-> profile[w].recorded[k]])

(* A skill counts its versions, points at the newest one and is active     *)
(* exactly when one of them is.                                            *)
SkillsMatchVersions ==
  \A k \in SkillKeys :
    /\ skill[k].version_count = Cardinality(VersionsOf(k))
    /\ skill[k].latest_version_index = Greater(skill[k].version_count, 1) - 1
    /\ skill[k].status = "Active" <=> \E v \in Versions : version[k][v] = "Active"

(* The events of a reputation are its successes and failures, those of the *)
(* counted kinds are among them, and the profile shows its scores.         *)
ReputationAddsUp ==
  \A w \in Wallets :
    /\ reputation[w].usage = reputation[w].success + reputation[w].failure
    /\ SumFunction(reputation[w].events) <= reputation[w].usage
    /\ profile[w].trust = reputation[w].trust
    /\ profile[w].discovery = reputation[w].discovery

(* A success never lowers a wallet's trust score, whatever its history.    *)
SuccessNeverHurts ==
  [][\A w \in Wallets :
       reputation'[w].success > reputation[w].success =>
         reputation'[w].trust >= reputation[w].trust]_vars

(* A discovery row is a picture of its skill at an earlier moment: it never *)
(* shows more versions, or a better score, than the skill has.             *)
RowsLagBehind ==
  \A k \in SkillKeys : row[k].exists =>
    /\ row[k].version_count <= skill[k].version_count
    /\ row[k].discovery <= DiscoveryScore(0, 0, 0, skill[k].version_count, 1, 0, 0)

(* The steps of a recorded planner run that completed or failed are no     *)
(* more than its steps, unless it has as many as a u16 holds.              *)
StepsAddUpBelowMax ==
  \A w \in Wallets : \A r \in records[w] :
    r.kind = "planner" /\ r.detail[1] < U16Max => r.detail[2] + r.detail[3] <= r.detail[1]
=============================================================================
