-------------------------- MODULE ClawOnchainProofs --------------------------
\* Theorems about the programs that keep records, for every value of their
\* constants.  Of claw_onchain: every skill describes its versions, every
\* counter is the number of the accounts it counts, discovery rows lag
\* behind, and a success never lowers a trust.  Of claw_machine and
\* claw_nft: what they count, and what their records never lose.  At the
\* end, the same of the programs side by side, as the run checks them.
EXTENDS MCClawOnchain, SumTheorems

----
\* The ratio never overstates: if its basis points reach t, then the
\* numerator really is at least t parts of the whole denominator, however
\* the product saturated and the quotient was rounded.
LEMMA BpsNeverOverstates ==
  ASSUME NEW n \in Nat, NEW d \in Nat \ {0}, NEW t \in Nat, BpsFromRatio(n, d) >= t
  PROVE  n * BpsScale >= t * d
<1> DEFINE s == SaturatingMul(n, BpsScale)
           q == s \div d
<1>1. n * BpsScale \in Nat BY NumbersAssumption
<1>2. s \in Nat /\ s <= n * BpsScale BY <1>1, NumbersAssumption DEF SaturatingMul, Lesser
<1>3. q \in Nat /\ q * d <= s BY <1>2, QuotientBound
<1>4. t <= q BY <1>3, NumbersAssumption DEF BpsFromRatio, Lesser
<1>5. t * d <= q * d BY <1>3, <1>4, ProductMonotone
<1>6. t * d \in Nat /\ q * d \in Nat BY <1>3
<1> HIDE DEF s, q
<1>7. QED BY <1>1, <1>2, <1>3, <1>5, <1>6

\* A ratio is at most the whole.
LEMMA BpsAtMostWhole ==
  ASSUME NEW n \in Nat, NEW d \in Nat
  PROVE  BpsFromRatio(n, d) \in 0 .. BpsScale
<1>1. n * BpsScale \in Nat BY NumbersAssumption
<1>2. SaturatingMul(n, BpsScale) \in Nat BY <1>1, NumbersAssumption DEF SaturatingMul, Lesser
<1>3. d # 0 => SaturatingMul(n, BpsScale) \div d \in Nat BY <1>2, QuotientBound
<1>4. QED BY <1>3, NumbersAssumption DEF BpsFromRatio, Lesser

\* And where the product does not saturate the ratio decides exactly.
LEMMA BpsExactUnsaturated ==
  ASSUME NEW n \in Nat, NEW d \in Nat \ {0}, NEW t \in 0 .. BpsScale,
         n * BpsScale <= U64Max
  PROVE  BpsFromRatio(n, d) >= t <=> n * BpsScale >= t * d
<1> DEFINE s == n * BpsScale
           q == s \div d
<1>1. s \in Nat /\ SaturatingMul(n, BpsScale) = s BY NumbersAssumption DEF SaturatingMul, Lesser
<1>2. q \in Nat /\ q * d <= s BY <1>1, QuotientBound
<1>3. s < (q + 1) * d BY <1>1
<1>4. ASSUME s >= t * d PROVE t <= q
 <2>1. SUFFICES ASSUME q + 1 <= t PROVE FALSE BY <1>2, NumbersAssumption
 <2>2. (q + 1) * d <= t * d BY <1>2, <2>1, ProductMonotone
 <2>3. t * d \in Nat /\ (q + 1) * d \in Nat BY <1>2
 <2> HIDE DEF s, q
 <2>4. QED BY <1>1, <1>3, <1>4, <2>2, <2>3
<1>5. BpsFromRatio(n, d) = Lesser(q, BpsScale) BY <1>1 DEF BpsFromRatio
<1>6. t <= q => BpsFromRatio(n, d) >= t BY <1>2, <1>5, NumbersAssumption DEF Lesser
<1>7. QED BY <1>4, <1>6, BpsNeverOverstates

\* The u16 scores of claw_onchain are plain additions in a release build:
\* with the code's scale they fit, whatever the counts are; and a success
\* never lowers the ratio they start from.

\* Half of a share of the whole is at most half of the whole.
LEMMA HalfOfShare ==
  ASSUME NEW p \in Nat, p <= 10000
  PROVE  p \div 2 \in Nat /\ p \div 2 <= 5000
<1> DEFINE q == p \div 2
<1>1. q \in Nat /\ q * 2 <= p BY QuotientBound
<1> HIDE DEF q
<1>2. q <= 5000 BY <1>1
<1> QED BY <1>1, <1>2 DEF q

\* A count is scored up to its cap.
LEMMA CappedBound ==
  ASSUME NEW count \in Nat, NEW cap \in Nat, NEW points \in Nat
  PROVE  Capped(count, cap, points) \in Nat /\ Capped(count, cap, points) <= cap * points
<1>1. Lesser(count, cap) \in Nat /\ Lesser(count, cap) <= cap BY DEF Lesser
<1>2. Lesser(count, cap) * points <= cap * points BY <1>1, ProductMonotone
<1>3. Lesser(count, cap) * points \in Nat BY <1>1
<1> QED BY <1>2, <1>3 DEF Capped

\* The ratio of successes is at most the whole.
LEMMA SuccessBpsBound ==
  ASSUME NEW success \in Nat, NEW total \in Nat
  PROVE  SuccessBps(success, total) \in Nat /\ SuccessBps(success, total) <= BpsScale
<1> DEFINE bps == BpsFromRatio(success, Greater(total, 1))
<1>1. Greater(total, 1) \in Nat BY DEF Greater
<1>2. bps \in 0 .. BpsScale BY <1>1, BpsAtMostWhole, Zenon
<1> HIDE DEF bps
<1>3. bps \in Nat /\ bps <= BpsScale BY <1>2, NumbersAssumption
<1> QED BY <1>3 DEF SuccessBps, bps

\* trust_score adds three u16 terms; with the code's scale they never
\* reach 65_536, so the plain addition does not wrap, for any counts.
THEOREM TrustNeverWraps ==
  ASSUME BpsScale = 10000,
         NEW success \in Nat, NEW failure \in Nat, NEW authored \in Nat, NEW deployed \in Nat
  PROVE  /\ TrustSum(success, failure, authored, deployed) \in Nat
         /\ TrustSum(success, failure, authored, deployed) < 65536
<1> DEFINE ratio == SuccessBps(success, SaturatingAdd(success, failure))
           half  == ratio \div 2
           a     == Capped(authored, 25, 120)
           d     == Capped(deployed, 25, 80)
<1>1. SaturatingAdd(success, failure) \in Nat BY NumbersAssumption DEF SaturatingAdd, Lesser
<1>2. ratio \in Nat /\ ratio <= 10000 BY <1>1, SuccessBpsBound
<1>3. half \in Nat /\ half <= 5000 BY <1>2, HalfOfShare
<1>4. a \in Nat /\ a <= 25 * 120 BY CappedBound
<1>5. d \in Nat /\ d <= 25 * 80 BY CappedBound
<1>6. TrustSum(success, failure, authored, deployed) = half + a + d BY DEF TrustSum
<1> HIDE DEF ratio, half, a, d
<1> QED BY <1>3, <1>4, <1>5, <1>6

\* The same of discovery_score, for a trust and a quality in basis points.
THEOREM DiscoveryNeverWraps ==
  ASSUME BpsScale = 10000,
         NEW trust \in Nat, trust <= 10000, NEW quality \in Nat, quality <= 10000,
         NEW usage \in Nat, NEW success \in Nat, NEW versions \in Nat,
         NEW published \in Nat, NEW authored \in Nat
  PROVE  /\ DiscoverySum(trust, usage, success, versions, published, authored, quality) \in Nat
         /\ DiscoverySum(trust, usage, success, versions, published, authored, quality) < 65536
<1> DEFINE t == trust \div 2
           q == quality \div 2
           ratio == SuccessBps(success, usage)
           half == ratio \div 2
           u == Capped(usage, 1000, 3)
           v == Capped(versions, 20, 40)
           p == Capped(published, 50, 50)
           a == Capped(authored, 50, 30)
<1>1. t \in Nat /\ t <= 5000 BY HalfOfShare
<1>2. q \in Nat /\ q <= 5000 BY HalfOfShare
<1>3. ratio \in Nat /\ ratio <= 10000 BY SuccessBpsBound
<1>4. half \in Nat /\ half <= 5000 BY <1>3, HalfOfShare
<1>5. u \in Nat /\ u <= 1000 * 3 BY CappedBound
<1>6. v \in Nat /\ v <= 20 * 40 BY CappedBound
<1>7. p \in Nat /\ p <= 50 * 50 BY CappedBound
<1>8. a \in Nat /\ a <= 50 * 30 BY CappedBound
<1>9. DiscoverySum(trust, usage, success, versions, published, authored, quality)
        = t + u + half + v + p + a + q
  BY DEF DiscoverySum
<1> HIDE DEF t, q, ratio, half, u, v, p, a
<1> QED BY <1>1, <1>2, <1>4, <1>5, <1>6, <1>7, <1>8, <1>9

\* One more success never lowers the ratio of successes, as long as the
\* product in bps_from_ratio does not saturate.
THEOREM SuccessNeverLowersRatio ==
  ASSUME NEW s \in Nat, NEW f \in Nat, s + f > 0, (s + 1) * BpsScale <= U64Max
  PROVE  BpsFromRatio(s + 1, s + 1 + f) >= BpsFromRatio(s, s + f)
<1> DEFINE t == BpsFromRatio(s, s + f)
           n == s * BpsScale
           m == (s + 1) * BpsScale
           lo == t * (s + f)
           hi == t * (s + 1 + f)
<1>1. t \in Nat /\ t <= BpsScale /\ t \in 0 .. BpsScale
 <2>1. s + f \in Nat OBVIOUS
 <2>2. t \in 0 .. BpsScale BY <2>1, BpsAtMostWhole, Zenon
 <2> HIDE DEF t
 <2> QED BY <2>2, NumbersAssumption
<1>2. n >= lo BY <1>1, BpsNeverOverstates, s + f \in Nat \ {0}
<1> HIDE DEF t
<1>3. \A x, y \in Nat : x * y \in Nat /\ (x + 1) * y = x * y + y /\ x * (y + 1) = x * y + x OBVIOUS
<1>4. n \in Nat /\ m = n + BpsScale BY <1>3, NumbersAssumption
<1>5. lo \in Nat /\ t * (s + f + 1) = lo + t BY <1>1, <1>3, s + f \in Nat
<1>6. hi = lo + t BY <1>5, s + f + 1 = s + 1 + f
<1>7. m >= hi
 <2> HIDE DEF n, m, lo, hi
 <2> QED BY <1>1, <1>2, <1>4, <1>5, <1>6, NumbersAssumption
<1>8. s + 1 \in Nat /\ s + 1 + f \in Nat \ {0} OBVIOUS
<1>9. BpsFromRatio(s + 1, s + 1 + f) >= t BY <1>1, <1>7, <1>8, BpsExactUnsaturated
<1> QED BY <1>9 DEF t

----
\* The skills.

SkillStatus == {"None", "Draft", "Active"}
SkillRecord == [status : SkillStatus, version_count : Nat, latest_version_index : Nat]

SkillsType ==
  /\ skill \in [SkillKeys -> SkillRecord]
  /\ version \in [SkillKeys -> [Versions -> SkillStatus]]

\* SkillsMatchVersions of one skill.
Matches(k) ==
  /\ skill[k].version_count = Cardinality(VersionsOf(k))
  /\ skill[k].latest_version_index = Greater(skill[k].version_count, 1) - 1
  /\ skill[k].status = "Active" <=> \E v \in Versions : version[k][v] = "Active"

SkillInv == SkillsType /\ \A k \in SkillKeys : Matches(k)

\* No account, no version.
LEMMA InitSkills == Init => SkillInv
<1> SUFFICES ASSUME Init PROVE SkillInv OBVIOUS
<1>1. skill = [k \in SkillKeys |-> NoSkill]
      /\ version = [k \in SkillKeys |-> [v \in Versions |-> "None"]]
  BY DEF Init
<1>2. NoSkill \in SkillRecord BY DEF NoSkill, SkillRecord, SkillStatus
<1>3. SkillsType BY <1>1, <1>2 DEF SkillsType, SkillStatus
<1>4. ASSUME NEW k \in SkillKeys PROVE Matches(k)
 <2>1. skill[k] = NoSkill /\ \A v \in Versions : version[k][v] = "None" BY <1>1
 <2>2. VersionsOf(k) = {} BY <2>1 DEF VersionsOf
 <2>3. Cardinality(VersionsOf(k)) = 0 BY <2>2, FS_EmptySet
 <2>4. Greater(0, 1) - 1 = 0 BY DEF Greater
 <2> QED BY <2>1, <2>3, <2>4 DEF Matches, NoSkill
<1> QED BY <1>3, <1>4 DEF SkillInv

\* A step that gives one skill a new account r and new versions f leaves
\* the others as they were.
LEMMA OthersMatch ==
  ASSUME SkillInv, NEW k \in SkillKeys, NEW r \in SkillRecord,
         NEW f \in [Versions -> SkillStatus],
         skill' = [skill EXCEPT ![k] = r], version' = [version EXCEPT ![k] = f],
         Matches(k)'
  PROVE  SkillInv'
<1>1. skill \in [SkillKeys -> SkillRecord] /\ version \in [SkillKeys -> [Versions -> SkillStatus]]
  BY DEF SkillInv, SkillsType
<1>2. SkillsType' BY <1>1 DEF SkillsType
<1>3. ASSUME NEW j \in SkillKeys, j # k PROVE Matches(j)'
 <2>1. skill'[j] = skill[j] /\ version'[j] = version[j] BY <1>1, <1>3
 <2>2. VersionsOf(j)' = VersionsOf(j) BY <2>1 DEF VersionsOf
 <2>3. Matches(j) BY DEF SkillInv
 <2> QED BY <2>1, <2>2, <2>3 DEF Matches
<1> QED BY <1>2, <1>3 DEF SkillInv

\* Only a new version adds to the versions of a skill; the count, the
\* index and the status follow it in the same instruction.
LEMMA StepSkills == SkillInv /\ [Next]_vars => SkillInv'
<1> SUFFICES ASSUME SkillInv, [Next]_vars PROVE SkillInv' OBVIOUS
<1>a. skill \in [SkillKeys -> SkillRecord] /\ version \in [SkillKeys -> [Versions -> SkillStatus]]
  BY DEF SkillInv, SkillsType
<1>b. \A k \in SkillKeys : Matches(k) BY DEF SkillInv
<1>1. ASSUME UNCHANGED <<skill, version>> PROVE SkillInv' BY <1>1 DEF SkillInv, SkillsType, Matches, VersionsOf
<1>2. ASSUME NEW k \in SkillKeys, PublishSkill(k) PROVE SkillInv'
 <2> DEFINE r == [skill[k] EXCEPT !.status = "Draft"]
            f == version[k]
 <2>1. /\ skill' = [skill EXCEPT ![k] = r] /\ version' = version
       /\ skill[k].status = "None"
   BY <1>2 DEF PublishSkill
 <2>2. skill[k] \in SkillRecord /\ f \in [Versions -> SkillStatus] BY <1>a
 <2>3. /\ r \in SkillRecord /\ r.status = "Draft"
       /\ r.version_count = skill[k].version_count
       /\ r.latest_version_index = skill[k].latest_version_index
   BY <2>2 DEF SkillRecord, SkillStatus
 <2>4. version' = [version EXCEPT ![k] = f] BY <1>a, <2>1
 <2>5. skill'[k] = r /\ version'[k] = version[k] BY <1>a, <2>1
 <2> HIDE DEF r, f
 <2>6. VersionsOf(k)' = VersionsOf(k) BY <2>5 DEF VersionsOf
 <2>7. Matches(k) BY <1>b
 <2>8. Matches(k)' BY <2>1, <2>3, <2>5, <2>6, <2>7 DEF Matches
 <2> QED BY <2>1, <2>2, <2>3, <2>4, <2>8, OthersMatch
<1>3. ASSUME NEW k \in SkillKeys, NEW v \in Versions, CreateSkillVersion(k, v) PROVE SkillInv'
 <2> DEFINE n == skill[k].version_count
            m == VersionsCounted(k)
            r == [skill[k] EXCEPT !.version_count = m, !.latest_version_index = m - 1]
            f == [version[k] EXCEPT ![v] = "Draft"]
 <2>1. /\ skill' = [skill EXCEPT ![k] = r] /\ version' = [version EXCEPT ![k] = f]
       /\ version[k][v] = "None"
   BY <1>3 DEF CreateSkillVersion, NewVersion
 <2>2. skill[k] \in SkillRecord /\ version[k] \in [Versions -> SkillStatus] /\ n \in Nat BY <1>a DEF SkillRecord
 <2>3. m = n + 1 /\ m \in Nat /\ m - 1 \in Nat /\ m - 1 = Greater(m, 1) - 1 BY <2>2 DEF Greater, VersionsCounted
 <2>4. /\ r \in SkillRecord /\ r.status = skill[k].status
       /\ r.version_count = m /\ r.latest_version_index = m - 1
  <3> HIDE DEF m
  <3> QED BY <2>2, <2>3 DEF SkillRecord
 <2>5. /\ f \in [Versions -> SkillStatus] /\ f[v] = "Draft"
       /\ \A u \in Versions : u # v => f[u] = version[k][u]
   BY <2>2 DEF SkillStatus
 <2>6. skill'[k] = r /\ version'[k] = f BY <1>a, <2>1
 <2> HIDE DEF n, m, r, f
 <2>7. VersionsOf(k)' = VersionsOf(k) \cup {v} /\ v \notin VersionsOf(k) BY <2>1, <2>5, <2>6 DEF VersionsOf
 <2>8. IsFiniteSet(VersionsOf(k)) BY OnchainAssumption, FS_Subset DEF OnchainAssumption, VersionsOf
 <2>9. Cardinality(VersionsOf(k)') = Cardinality(VersionsOf(k)) + 1 BY <2>7, <2>8, FS_AddElement
 <2>10. n = Cardinality(VersionsOf(k)) BY <1>b DEF Matches, n
 <2>11. skill'[k].version_count = Cardinality(VersionsOf(k)') BY <2>3, <2>4, <2>6, <2>9, <2>10
 <2>12. skill'[k].latest_version_index = Greater(skill'[k].version_count, 1) - 1 BY <2>3, <2>4, <2>6
 <2>13. skill'[k].status = "Active" <=> \E u \in Versions : version'[k][u] = "Active"
  <3>1. \A u \in Versions : version'[k][u] = "Active" <=> version[k][u] = "Active" BY <2>1, <2>5, <2>6
  <3>2. skill[k].status = "Active" <=> \E u \in Versions : version[k][u] = "Active" BY <1>b DEF Matches
  <3> QED BY <2>4, <2>6, <3>1, <3>2
 <2>14. Matches(k)' BY <2>11, <2>12, <2>13 DEF Matches
 <2> QED BY <2>1, <2>4, <2>5, <2>14, OthersMatch
<1>4. ASSUME NEW k \in SkillKeys, NEW v \in Versions, ActivateSkillVersion(k, v) PROVE SkillInv'
 <2> DEFINE i == Greater(skill[k].version_count, 1) - 1
            r == [skill[k] EXCEPT !.status = "Active", !.latest_version_index = i]
            f == [version[k] EXCEPT ![v] = "Active"]
 <2>1. /\ skill' = [skill EXCEPT ![k] = r] /\ version' = [version EXCEPT ![k] = f]
       /\ version[k][v] = "Draft"
   BY <1>4 DEF ActivateSkillVersion
 <2>2. skill[k] \in SkillRecord /\ version[k] \in [Versions -> SkillStatus] BY <1>a
 <2>3. i \in Nat BY <2>2 DEF SkillRecord, Greater
 <2>4. /\ r \in SkillRecord /\ r.status = "Active"
       /\ r.version_count = skill[k].version_count /\ r.latest_version_index = i
  <3> HIDE DEF i
  <3> QED BY <2>2, <2>3 DEF SkillRecord, SkillStatus
 <2>5. /\ f \in [Versions -> SkillStatus] /\ f[v] = "Active"
       /\ \A u \in Versions : u # v => f[u] = version[k][u]
   BY <2>2 DEF SkillStatus
 <2>6. skill'[k] = r /\ version'[k] = f BY <1>a, <2>1
 <2> HIDE DEF r, f
 <2>7. VersionsOf(k)' = VersionsOf(k) BY <2>1, <2>5, <2>6 DEF VersionsOf
 <2>8. skill'[k].version_count = Cardinality(VersionsOf(k)') BY <1>b, <2>4, <2>6, <2>7 DEF Matches
 <2>9. skill'[k].latest_version_index = Greater(skill'[k].version_count, 1) - 1 BY <2>4, <2>6
 <2>10. Matches(k)' BY <2>4, <2>5, <2>6, <2>8, <2>9 DEF Matches
 <2> QED BY <2>1, <2>4, <2>5, <2>10, OthersMatch
<1>5. CASE UNCHANGED vars BY <1>1, <1>5 DEF vars
<1>6. CASE Next
 <2>1. \/ \E k \in SkillKeys : PublishSkill(k)
       \/ \E k \in SkillKeys, v \in Versions : CreateSkillVersion(k, v) \/ ActivateSkillVersion(k, v)
       \/ UNCHANGED <<skill, version>>
  <3>1. ASSUME NEW quota, InitializeConfig(quota) PROVE UNCHANGED <<skill, version>> BY <3>1 DEF InitializeConfig
  <3>2. ASSUME NEW paused, NEW quota, UpdateConfig(paused, quota)
        PROVE  UNCHANGED <<skill, version>>
    BY <3>2 DEF UpdateConfig
  <3>3. ASSUME NEW w, CreateProfile(w) PROVE UNCHANGED <<skill, version>> BY <3>3 DEF CreateProfile
  <3>4. ASSUME NEW w, NEW points, NEW verified, UpdateProfile(w, points, verified)
        PROVE  UNCHANGED <<skill, version>>
    BY <3>4 DEF UpdateProfile
  <3>5. ASSUME NEW w, NEW kind, NEW id, NEW detail, Record(w, kind, id, detail)
        PROVE  UNCHANGED <<skill, version>>
    BY <3>5 DEF Record
  <3>6. ASSUME NEW w, NEW kind, NEW success, NEW points, NEW quality,
               UpdateReputation(w, kind, success, points, quality)
        PROVE  UNCHANGED <<skill, version>>
    BY <3>6 DEF UpdateReputation
  <3>7. ASSUME NEW k, RefreshDiscovery(k) PROVE UNCHANGED <<skill, version>> BY <3>7 DEF RefreshDiscovery
  <3> QED
    BY <1>6, <3>1, <3>2, <3>3, <3>4, <3>5, <3>6, <3>7, Zenon
    DEF Next, AnchorMemory, RecordPlannerRun, RecordDeployment
 <2> QED BY <1>1, <1>2, <1>3, <1>4, <2>1
<1> QED BY <1>5, <1>6

\* Every skill counts its versions, points at the newest and is active
\* exactly when one of them is, in every reachable state.
THEOREM SkillsAlwaysMatch == Spec => []SkillsMatchVersions
<1>1. SkillInv => SkillsMatchVersions BY DEF SkillInv, Matches, SkillsMatchVersions
<1> QED BY <1>1, InitSkills, StepSkills, PTL DEF Spec

----
\* The other accounts of claw_onchain.

ConfigAccount ==
  [live : BOOLEAN, paused : BOOLEAN, max_skills : Nat, profiles : Nat, skills : Nat,
   versions : Nat, recorded : [RecordKinds -> Nat], reputation_events : Nat,
   discovery_rows : Nat]
AgentProfile ==
  [exists : BOOLEAN, reputation : Nat, verified : BOOLEAN, skill_count : Nat,
   recorded : [RecordKinds -> Nat], trust : Nat, discovery : Nat]
ReputationAccount ==
  [exists : BOOLEAN, usage : Nat, success : Nat, failure : Nat,
   events : [CountedKinds -> Nat], rewards : Nat, trust : Nat, discovery : Nat]
RecordDetails == {<<>>} \cup (StepCounts \X StepCounts \X StepCounts)
AnchoredRecord == [kind : RecordKinds, id : RecordIds, detail : RecordDetails]
DiscoveryRow == [exists : BOOLEAN, version_count : Nat, discovery : Nat]

AccountsType ==
  /\ config \in ConfigAccount
  /\ profile \in [Wallets -> AgentProfile]
  /\ records \in [Wallets -> SUBSET AnchoredRecord]
  /\ \A w \in Wallets : IsFiniteSet(records[w])
  /\ reputation \in [Wallets -> ReputationAccount]
  /\ row \in [SkillKeys -> DiscoveryRow]

\* A profile that does not exist has no counts and no scores.
FreshProfiles == \A w \in Wallets : ~profile[w].exists => profile[w] = NoProfile

\* A skill that does not exist has no versions.
NoVersionsYet == \A k \in SkillKeys : skill[k].status = "None" => skill[k].version_count = 0

ProfilesCounted == config.profiles = Cardinality({w \in Wallets : profile[w].exists})
SkillsCounted == config.skills = Cardinality(Published)
SkillCounts ==
  \A w \in Wallets : profile[w].skill_count = Cardinality({k \in Published : k[1] = w})
VersionsSummed == config.versions = SumFunction([k \in SkillKeys |-> skill[k].version_count])
RowsCounted == config.discovery_rows = Cardinality({k \in SkillKeys : row[k].exists})
EventsSummed == config.reputation_events = SumFunction([w \in Wallets |-> reputation[w].usage])
RecordsOf(w, k) == {r \in records[w] : r.kind = k}
RecordsCounted ==
  \A k \in RecordKinds, w \in Wallets : profile[w].recorded[k] = Cardinality(RecordsOf(w, k))
RecordsSummed ==
  \A k \in RecordKinds :
    config.recorded[k] = SumFunction([w \in Wallets |-> profile[w].recorded[k]])

\* The trust of a reputation is that of its counts, also before the first
\* event.
TrustOf(rep) ==
  TrustScore(rep.success, rep.failure, rep.events["verified_authorship"], rep.events["deployment"])
TrustIsCurrent == \A w \in Wallets : reputation[w].trust = TrustOf(reputation[w])

AccountsInv ==
  /\ AccountsType /\ FreshProfiles /\ NoVersionsYet
  /\ ProfilesCounted /\ SkillsCounted /\ SkillCounts /\ VersionsSummed /\ RowsCounted
  /\ EventsSummed /\ RecordsCounted /\ RecordsSummed
  /\ RowsLagBehind /\ StepsAddUpBelowMax /\ ReputationAddsUp /\ TrustIsCurrent

\* The scores are numbers, and a row's score grows with the versions.
LEMMA TrustIsNat ==
  ASSUME NEW s \in Nat, NEW f \in Nat, NEW a \in Nat, NEW d \in Nat
  PROVE  TrustScore(s, f, a, d) \in Nat
<1> DEFINE ratio == SuccessBps(s, SaturatingAdd(s, f))
           x == ratio \div 2
           y == Capped(a, 25, 120)
           z == Capped(d, 25, 80)
<1>1. SaturatingAdd(s, f) \in Nat BY NumbersAssumption DEF SaturatingAdd, Lesser
<1>2. ratio \in Nat BY <1>1, SuccessBpsBound
<1>3. x \in Nat BY <1>2
<1>4. y \in Nat /\ z \in Nat BY CappedBound
<1>5. TrustSum(s, f, a, d) = x + y + z BY DEF TrustSum
<1> HIDE DEF ratio, x, y, z
<1>6. TrustSum(s, f, a, d) \in Nat BY <1>3, <1>4, <1>5
<1>7. Wrapped16(TrustSum(s, f, a, d)) \in Nat BY <1>6 DEF Wrapped16
<1> QED BY <1>7, NumbersAssumption DEF TrustScore, Lesser

\* Any discovery score is a natural number.
LEMMA DiscoveryIsNat ==
  ASSUME NEW t \in Nat, NEW u \in Nat, NEW s \in Nat, NEW v \in Nat, NEW p \in Nat,
         NEW a \in Nat, NEW q \in Nat
  PROVE  DiscoveryScore(t, u, s, v, p, a, q) \in Nat
<1> DEFINE ratio == SuccessBps(s, u)
           sum == DiscoverySum(t, u, s, v, p, a, q)
           x1 == t \div 2
           x2 == Capped(u, 1000, 3)
           x3 == ratio \div 2
           x4 == Capped(v, 20, 40)
           x5 == Capped(p, 50, 50)
           x6 == Capped(a, 50, 30)
           x7 == q \div 2
<1>1. ratio \in Nat BY SuccessBpsBound
<1>2. x1 \in Nat /\ x3 \in Nat /\ x7 \in Nat BY <1>1
<1>3. x2 \in Nat /\ x4 \in Nat /\ x5 \in Nat /\ x6 \in Nat
 <2>1. x2 \in Nat BY CappedBound
 <2>2. x4 \in Nat BY CappedBound
 <2>3. x5 \in Nat /\ x6 \in Nat BY CappedBound
 <2> QED BY <2>1, <2>2, <2>3
<1>4. sum = x1 + x2 + x3 + x4 + x5 + x6 + x7 BY DEF DiscoverySum
<1> HIDE DEF ratio, sum, x1, x2, x3, x4, x5, x6, x7
<1>5. sum \in Nat BY <1>2, <1>3, <1>4
<1>6. Wrapped16(sum) \in Nat BY <1>5 DEF Wrapped16
<1> QED BY <1>6, NumbersAssumption DEF DiscoveryScore, Lesser, sum

\* What a row's score is made of: its versions and one publication.
LEMMA RowSum ==
  ASSUME NEW n \in Nat
  PROVE  DiscoverySum(0, 0, 0, n, 1, 0, 0) = Lesser(n, 20) * 40 + 50
<1>1. SaturatingMul(0, BpsScale) = 0 BY NumbersAssumption DEF SaturatingMul, Lesser
<1>2. SuccessBps(0, 0) = 0
 <2>1. Greater(0, 1) = 1 BY DEF Greater
 <2> QED BY <1>1, <2>1, NumbersAssumption DEF SuccessBps, BpsFromRatio, Lesser
<1>3. /\ Capped(0, 1000, 3) = 0 /\ Capped(0, 50, 30) = 0 /\ Capped(1, 50, 50) = 50
      /\ Capped(n, 20, 40) = Lesser(n, 20) * 40
  BY DEF Capped, Lesser
<1>4. 0 \div 2 = 0 OBVIOUS
<1> DEFINE x == Lesser(n, 20) * 40
<1>5. x \in Nat BY DEF Lesser
<1>6. DiscoverySum(0, 0, 0, n, 1, 0, 0) = 0 + 0 + 0 + x + 50 + 0 + 0 BY <1>2, <1>3, <1>4 DEF DiscoverySum
<1> HIDE DEF x
<1>7. DiscoverySum(0, 0, 0, n, 1, 0, 0) = x + 50 BY <1>5, <1>6
<1> QED BY <1>7 DEF x

\* More versions never score lower.
LEMMA RowScoreGrows ==
  ASSUME NEW m \in Nat, NEW n \in Nat, m <= n
  PROVE  DiscoveryScore(0, 0, 0, m, 1, 0, 0) <= DiscoveryScore(0, 0, 0, n, 1, 0, 0)
<1> DEFINE a == DiscoverySum(0, 0, 0, m, 1, 0, 0)
           b == DiscoverySum(0, 0, 0, n, 1, 0, 0)
<1>1. a = Lesser(m, 20) * 40 + 50 /\ b = Lesser(n, 20) * 40 + 50 BY RowSum
<1>2. a \in Nat /\ b \in Nat /\ a <= b /\ b < 65536 BY <1>1 DEF Lesser
<1>3. \A s \in Nat : s < 65536 => s % 65536 = s OBVIOUS
<1> HIDE DEF a, b
<1>4. Wrapped16(a) = a /\ Wrapped16(b) = b BY <1>2, <1>3 DEF Wrapped16
<1>5. Lesser(a, BpsScale) <= Lesser(b, BpsScale) BY <1>2, NumbersAssumption DEF Lesser
<1> QED BY <1>4, <1>5 DEF DiscoveryScore, a, b

\* There are finitely many accounts.
LEMMA TablesFinite == IsFiniteSet(Wallets) /\ IsFiniteSet(SkillKeys) /\ IsFiniteSet(CountedKinds)
<1>1. IsFiniteSet(SkillKeys) BY OnchainAssumption, FS_Product DEF SkillKeys
<1>2. IsFiniteSet({"memory_anchor", "planner_run", "deployment"})
 <2>1. IsFiniteSet({"memory_anchor"}) BY FS_Singleton
 <2>2. IsFiniteSet({"memory_anchor"} \cup {"planner_run"}) BY <2>1, FS_AddElement
 <2>3. IsFiniteSet(({"memory_anchor"} \cup {"planner_run"}) \cup {"deployment"}) BY <2>2, FS_AddElement
 <2>4. ({"memory_anchor"} \cup {"planner_run"}) \cup {"deployment"}
         = {"memory_anchor", "planner_run", "deployment"}
   OBVIOUS
 <2> QED BY <2>3, <2>4
<1>3. IsFiniteSet(CountedKinds)
 <2> DEFINE A == {"memory_anchor", "planner_run", "deployment"}
 <2>1. IsFiniteSet(A \cup {"skill_publish"}) BY <1>2, FS_AddElement
 <2>2. IsFiniteSet((A \cup {"skill_publish"}) \cup {"skill_version"}) BY <2>1, FS_AddElement
 <2>3. IsFiniteSet(((A \cup {"skill_publish"}) \cup {"skill_version"}) \cup {"verified_authorship"})
   BY <2>2, FS_AddElement
 <2>4. CountedKinds = ((A \cup {"skill_publish"}) \cup {"skill_version"}) \cup {"verified_authorship"}
   BY DEF CountedKinds
 <2> QED BY <2>3, <2>4
<1> QED BY <1>1, <1>3, OnchainAssumption

\* What a step leaves alone stays counted.
LEMMA KeepProfiles ==
  ASSUME ProfilesCounted, config'.profiles = config.profiles,
         \A w \in Wallets : profile'[w].exists = profile[w].exists
  PROVE  ProfilesCounted'
<1>1. {w \in Wallets : profile'[w].exists} = {w \in Wallets : profile[w].exists} OBVIOUS
<1> QED BY <1>1 DEF ProfilesCounted

\* No skill published, none counted.
LEMMA KeepSkills ==
  ASSUME SkillsCounted, SkillCounts, config'.skills = config.skills, Published' = Published,
         \A w \in Wallets : profile'[w].skill_count = profile[w].skill_count
  PROVE  SkillsCounted' /\ SkillCounts'
BY DEF SkillsCounted, SkillCounts

\* No version made, none counted.
LEMMA KeepVersions ==
  ASSUME VersionsSummed, config'.versions = config.versions,
         \A k \in SkillKeys : skill'[k].version_count = skill[k].version_count
  PROVE  VersionsSummed'
<1>1. [k \in SkillKeys |-> skill'[k].version_count] = [k \in SkillKeys |-> skill[k].version_count] OBVIOUS
<1> QED BY <1>1 DEF VersionsSummed

\* No row made, none counted.
LEMMA KeepRows ==
  ASSUME RowsCounted, config'.discovery_rows = config.discovery_rows, row' = row
  PROVE  RowsCounted'
BY DEF RowsCounted

\* No event, none counted.
LEMMA KeepEvents ==
  ASSUME EventsSummed, config'.reputation_events = config.reputation_events,
         reputation' = reputation
  PROVE  EventsSummed'
BY DEF EventsSummed

\* No record anchored, none counted.
LEMMA KeepRecords ==
  ASSUME RecordsCounted, RecordsSummed, StepsAddUpBelowMax,
         config'.recorded = config.recorded, records' = records,
         \A w \in Wallets : profile'[w].recorded = profile[w].recorded
  PROVE  RecordsCounted' /\ RecordsSummed' /\ StepsAddUpBelowMax'
<1>1. \A k \in RecordKinds, w \in Wallets : RecordsOf(w, k)' = RecordsOf(w, k) BY DEF RecordsOf
<1>2. RecordsCounted' BY <1>1 DEF RecordsCounted
<1>3. ASSUME NEW k \in RecordKinds
      PROVE  [w \in Wallets |-> profile'[w].recorded[k]] = [w \in Wallets |-> profile[w].recorded[k]]
  OBVIOUS
<1>4. RecordsSummed' BY <1>3 DEF RecordsSummed
<1> QED BY <1>2, <1>4 DEF StepsAddUpBelowMax

\* Rows that lag behind go on doing so while versions stay.
LEMMA KeepLag ==
  ASSUME RowsLagBehind, row' = row,
         \A k \in SkillKeys : skill'[k].version_count = skill[k].version_count
  PROVE  RowsLagBehind'
BY DEF RowsLagBehind

\* Scores that are shown stay shown.
LEMMA KeepReputation ==
  ASSUME ReputationAddsUp, TrustIsCurrent, reputation' = reputation,
         \A w \in Wallets : /\ profile'[w].trust = profile[w].trust
                            /\ profile'[w].discovery = profile[w].discovery
  PROVE  ReputationAddsUp' /\ TrustIsCurrent'
BY DEF ReputationAddsUp, TrustIsCurrent, TrustOf

\* A profile that is not there stays as it was.
LEMMA KeepFresh ==
  ASSUME FreshProfiles, profile' = profile
  PROVE  FreshProfiles'
BY DEF FreshProfiles

\* Nor does a skill that is not there get a version.
LEMMA KeepNone ==
  ASSUME NoVersionsYet, skill' = skill
  PROVE  NoVersionsYet'
BY DEF NoVersionsYet

\* The settings may change, the counters of the configuration stay.
LEMMA SettingsOnly ==
  ASSUME AccountsInv, config' \in ConfigAccount,
         /\ config'.profiles = config.profiles /\ config'.skills = config.skills
         /\ config'.versions = config.versions /\ config'.recorded = config.recorded
         /\ config'.reputation_events = config.reputation_events
         /\ config'.discovery_rows = config.discovery_rows,
         UNCHANGED <<profile, skill, version, records, reputation, row>>
  PROVE  AccountsInv'
<1>1. AccountsType' BY DEF AccountsInv, AccountsType
<1>2. Published' = Published BY DEF Published
<1>3. ProfilesCounted' /\ SkillsCounted' /\ SkillCounts' /\ VersionsSummed' /\ RowsCounted'
      /\ EventsSummed'
  BY <1>2, KeepProfiles, KeepSkills, KeepVersions, KeepRows, KeepEvents DEF AccountsInv
<1>4. RecordsCounted' /\ RecordsSummed' /\ StepsAddUpBelowMax' BY KeepRecords DEF AccountsInv
<1>5. RowsLagBehind' /\ ReputationAddsUp' /\ TrustIsCurrent' /\ FreshProfiles' /\ NoVersionsYet'
  BY KeepLag, KeepReputation, KeepFresh, KeepNone DEF AccountsInv
<1> QED BY <1>1, <1>3, <1>4, <1>5 DEF AccountsInv

\* One lemma for each instruction: initialize_config,
LEMMA ConfigMade ==
  ASSUME AccountsInv, NEW quota \in Quotas, InitializeConfig(quota) PROVE AccountsInv'
<1>1. config \in ConfigAccount /\ quota \in Nat BY OnchainAssumption DEF AccountsInv, AccountsType
<1>2. config' = [config EXCEPT !.live = TRUE, !.max_skills = quota]
      /\ UNCHANGED <<profile, skill, version, records, reputation, row>>
  BY DEF InitializeConfig
<1>3. config' \in ConfigAccount BY <1>1, <1>2 DEF ConfigAccount
<1>4. /\ config'.profiles = config.profiles /\ config'.skills = config.skills
      /\ config'.versions = config.versions /\ config'.recorded = config.recorded
      /\ config'.reputation_events = config.reputation_events
      /\ config'.discovery_rows = config.discovery_rows
  BY <1>1, <1>2 DEF ConfigAccount
<1> QED BY <1>2, <1>3, <1>4, SettingsOnly

\* update_config,
LEMMA ConfigUpdated ==
  ASSUME AccountsInv, NEW quota \in Quotas, NEW paused \in BOOLEAN, UpdateConfig(paused, quota)
  PROVE  AccountsInv'
<1>1. config \in ConfigAccount /\ quota \in Nat BY OnchainAssumption DEF AccountsInv, AccountsType
<1>2. config' = [config EXCEPT !.paused = paused, !.max_skills = quota]
      /\ UNCHANGED <<profile, skill, version, records, reputation, row>>
  BY DEF UpdateConfig
<1>3. config' \in ConfigAccount BY <1>1, <1>2 DEF ConfigAccount
<1>4. /\ config'.profiles = config.profiles /\ config'.skills = config.skills
      /\ config'.versions = config.versions /\ config'.recorded = config.recorded
      /\ config'.reputation_events = config.reputation_events
      /\ config'.discovery_rows = config.discovery_rows
  BY <1>1, <1>2 DEF ConfigAccount
<1> QED BY <1>2, <1>3, <1>4, SettingsOnly

\* A new profile is the empty one, marked as existing.
LEMMA ProfileMade ==
  ASSUME AccountsInv, NEW w \in Wallets, CreateProfile(w) PROVE AccountsInv'
<1> DEFINE p == [NoProfile EXCEPT !.exists = TRUE]
           c == [config EXCEPT !.profiles = @ + 1]
<1>0. /\ config \in ConfigAccount /\ profile \in [Wallets -> AgentProfile] BY DEF AccountsInv, AccountsType
<1>1. /\ ~profile[w].exists /\ profile' = [profile EXCEPT ![w] = p] /\ config' = c
      /\ UNCHANGED <<skill, version, records, reputation, row>>
  BY DEF CreateProfile
<1>2. /\ p \in AgentProfile /\ p.exists /\ p.skill_count = NoProfile.skill_count
      /\ p.recorded = NoProfile.recorded /\ p.trust = NoProfile.trust
      /\ p.discovery = NoProfile.discovery
  BY DEF NoProfile, AgentProfile
<1>3. /\ c \in ConfigAccount /\ c.profiles = config.profiles + 1 /\ c.skills = config.skills
      /\ c.versions = config.versions /\ c.recorded = config.recorded
      /\ c.reputation_events = config.reputation_events
      /\ c.discovery_rows = config.discovery_rows
  BY <1>0 DEF ConfigAccount
<1>4. profile[w] = NoProfile BY <1>1 DEF AccountsInv, FreshProfiles
<1> HIDE DEF p, c
<1>5. /\ profile' \in [Wallets -> AgentProfile] /\ profile'[w] = p
      /\ \A v \in Wallets : v # w => profile'[v] = profile[v]
  BY <1>0, <1>1, <1>2
<1>6. \A v \in Wallets : /\ profile'[v].skill_count = profile[v].skill_count
                         /\ profile'[v].recorded = profile[v].recorded
                         /\ profile'[v].trust = profile[v].trust
                         /\ profile'[v].discovery = profile[v].discovery
  BY <1>2, <1>4, <1>5
<1>7. AccountsType' BY <1>1, <1>3, <1>5 DEF AccountsInv, AccountsType
<1>8. FreshProfiles' BY <1>2, <1>5 DEF AccountsInv, FreshProfiles
<1>9. ProfilesCounted'
 <2> DEFINE S == {v \in Wallets : profile[v].exists}
            T == {v \in Wallets : profile'[v].exists}
 <2>1. w \notin S /\ T = S \cup {w} BY <1>1, <1>2, <1>5
 <2>2. IsFiniteSet(S) BY TablesFinite, FS_Subset
 <2>3. Cardinality(T) = Cardinality(S) + 1 BY <2>1, <2>2, FS_AddElement
 <2> HIDE DEF S, T
 <2>4. config.profiles = Cardinality(S) BY DEF AccountsInv, ProfilesCounted, S
 <2>5. config'.profiles = Cardinality(T) BY <1>1, <1>3, <2>3, <2>4
 <2> QED BY <2>5 DEF ProfilesCounted, T
<1>10. Published' = Published BY <1>1 DEF Published
<1>11. SkillsCounted' /\ SkillCounts' BY <1>1, <1>3, <1>6, <1>10, KeepSkills DEF AccountsInv
<1>12. VersionsSummed' /\ RowsCounted' /\ EventsSummed'
  BY <1>1, <1>3, KeepVersions, KeepRows, KeepEvents DEF AccountsInv
<1>13. RecordsCounted' /\ RecordsSummed' /\ StepsAddUpBelowMax' BY <1>1, <1>3, <1>6, KeepRecords DEF AccountsInv
<1>14. RowsLagBehind' /\ ReputationAddsUp' /\ TrustIsCurrent' /\ NoVersionsYet'
  BY <1>1, <1>6, KeepLag, KeepReputation, KeepNone DEF AccountsInv
<1> QED BY <1>7, <1>8, <1>9, <1>11, <1>12, <1>13, <1>14 DEF AccountsInv

\* update_profile,
LEMMA ProfileUpdated ==
  ASSUME AccountsInv, NEW w \in Wallets, NEW points \in Reputations \cup {profile[w].reputation},
         NEW verified \in BOOLEAN, UpdateProfile(w, points, verified)
  PROVE  AccountsInv'
<1> DEFINE p == [profile[w] EXCEPT !.reputation = points, !.verified = verified]
<1>0. config \in ConfigAccount /\ profile \in [Wallets -> AgentProfile]
      /\ profile[w] \in AgentProfile
  BY DEF AccountsInv, AccountsType
<1>1. /\ profile[w].exists /\ profile' = [profile EXCEPT ![w] = p]
      /\ UNCHANGED <<config, skill, version, records, reputation, row>>
  BY DEF UpdateProfile
<1>2. points \in Nat BY <1>0, OnchainAssumption, NumbersAssumption DEF AgentProfile, U64
<1>3. /\ p \in AgentProfile /\ p.exists = profile[w].exists
      /\ p.skill_count = profile[w].skill_count /\ p.recorded = profile[w].recorded
      /\ p.trust = profile[w].trust /\ p.discovery = profile[w].discovery
  BY <1>0, <1>2 DEF AgentProfile
<1> HIDE DEF p
<1>5. /\ profile' \in [Wallets -> AgentProfile] /\ profile'[w] = p
      /\ \A v \in Wallets : v # w => profile'[v] = profile[v]
  BY <1>0, <1>1, <1>3
<1>6. \A v \in Wallets : /\ profile'[v].exists = profile[v].exists
                         /\ profile'[v].skill_count = profile[v].skill_count
                         /\ profile'[v].recorded = profile[v].recorded
                         /\ profile'[v].trust = profile[v].trust
                         /\ profile'[v].discovery = profile[v].discovery
  BY <1>3, <1>5
<1>7. AccountsType' BY <1>1, <1>5 DEF AccountsInv, AccountsType
<1>8. FreshProfiles' BY <1>1, <1>3, <1>5 DEF AccountsInv, FreshProfiles
<1>9. ProfilesCounted' BY <1>1, <1>6, KeepProfiles DEF AccountsInv
<1>10. Published' = Published BY <1>1 DEF Published
<1>11. SkillsCounted' /\ SkillCounts' BY <1>1, <1>6, <1>10, KeepSkills DEF AccountsInv
<1>12. VersionsSummed' /\ RowsCounted' /\ EventsSummed' BY <1>1, KeepVersions, KeepRows, KeepEvents DEF AccountsInv
<1>13. RecordsCounted' /\ RecordsSummed' /\ StepsAddUpBelowMax' BY <1>1, <1>6, KeepRecords DEF AccountsInv
<1>14. RowsLagBehind' /\ ReputationAddsUp' /\ TrustIsCurrent' /\ NoVersionsYet'
  BY <1>1, <1>6, KeepLag, KeepReputation, KeepNone DEF AccountsInv
<1> QED BY <1>7, <1>8, <1>9, <1>11, <1>12, <1>13, <1>14 DEF AccountsInv

\* A published skill is counted by its owner and by the configuration.
LEMMA SkillPublished ==
  ASSUME SkillsType, AccountsInv, NEW k \in SkillKeys, PublishSkill(k)
  PROVE  AccountsInv'
<1> DEFINE w == k[1]
           p == [profile[w] EXCEPT !.skill_count = @ + 1]
           c == [config EXCEPT !.skills = @ + 1]
           s == [skill[k] EXCEPT !.status = "Draft"]
<1>0. /\ config \in ConfigAccount /\ profile \in [Wallets -> AgentProfile]
      /\ w \in Wallets /\ profile[w] \in AgentProfile
      /\ skill \in [SkillKeys -> SkillRecord] /\ skill[k] \in SkillRecord
  BY DEF AccountsInv, AccountsType, SkillsType, SkillKeys
<1>1. /\ profile[w].exists /\ skill[k].status = "None"
      /\ profile' = [profile EXCEPT ![w] = p] /\ config' = c
      /\ skill' = [skill EXCEPT ![k] = s]
      /\ UNCHANGED <<version, records, reputation, row>>
  BY DEF PublishSkill
<1>2. /\ p \in AgentProfile /\ p.exists = profile[w].exists
      /\ p.skill_count = profile[w].skill_count + 1 /\ p.recorded = profile[w].recorded
      /\ p.trust = profile[w].trust /\ p.discovery = profile[w].discovery
  BY <1>0, SMTT(20) DEF AgentProfile
<1>3. /\ c \in ConfigAccount /\ c.profiles = config.profiles /\ c.skills = config.skills + 1
      /\ c.versions = config.versions /\ c.recorded = config.recorded
      /\ c.reputation_events = config.reputation_events
      /\ c.discovery_rows = config.discovery_rows
  BY <1>0 DEF ConfigAccount
<1>4. s.status = "Draft" /\ s.version_count = skill[k].version_count BY <1>0 DEF SkillRecord
<1> HIDE DEF p, c, s
<1>5. /\ profile' \in [Wallets -> AgentProfile] /\ profile'[w] = p
      /\ \A v \in Wallets : v # w => profile'[v] = profile[v]
 <2> HIDE DEF w
 <2> QED BY <1>0, <1>1, <1>2
<1>6. skill'[k] = s /\ \A j \in SkillKeys : j # k => skill'[j] = skill[j] BY <1>0, <1>1
<1>7. \A v \in Wallets : /\ profile'[v].exists = profile[v].exists
                         /\ profile'[v].recorded = profile[v].recorded
                         /\ profile'[v].trust = profile[v].trust
                         /\ profile'[v].discovery = profile[v].discovery
 <2> HIDE DEF w
 <2> QED BY <1>2, <1>5
<1>8. \A j \in SkillKeys : skill'[j].version_count = skill[j].version_count BY <1>4, <1>6
<1>9. k \notin Published /\ Published' = Published \cup {k} BY <1>1, <1>4, <1>6 DEF Published
<1>10. AccountsType' BY <1>1, <1>3, <1>5 DEF AccountsInv, AccountsType
<1>11. FreshProfiles'
 <2> HIDE DEF w
 <2> QED BY <1>1, <1>2, <1>5 DEF AccountsInv, FreshProfiles
<1>12. ProfilesCounted' BY <1>1, <1>3, <1>7, KeepProfiles DEF AccountsInv
<1>13. \A S \in SUBSET Published : IsFiniteSet(S) BY TablesFinite, FS_Subset DEF Published
<1>14. SkillsCounted'
 <2>1. Cardinality(Published') = Cardinality(Published) + 1 BY <1>9, <1>13, FS_AddElement
 <2> QED BY <1>1, <1>3, <2>1 DEF AccountsInv, SkillsCounted
<1>15. SkillCounts'
 <2> SUFFICES ASSUME NEW v \in Wallets
              PROVE  profile'[v].skill_count = Cardinality({j \in Published' : j[1] = v})
   BY DEF SkillCounts
 <2> DEFINE S == {j \in Published : j[1] = v}
            T == {j \in Published' : j[1] = v}
 <2>1. profile[v].skill_count = Cardinality(S) BY DEF AccountsInv, SkillCounts
 <2>2. CASE v = w
  <3>1. k \notin S /\ T = S \cup {k} BY <1>9, <2>2
  <3>2. Cardinality(T) = Cardinality(S) + 1 BY <1>13, <3>1, FS_AddElement
  <3> HIDE DEF S, T, w
  <3> QED BY <1>2, <1>5, <2>1, <2>2, <3>2 DEF T
 <2>3. CASE v # w
  <3>1. T = S BY <1>9, <2>3
  <3> HIDE DEF w
  <3> QED BY <1>5, <2>1, <2>3, <3>1
 <2> QED BY <2>2, <2>3
<1>16. VersionsSummed' /\ RowsCounted' /\ EventsSummed'
  BY <1>1, <1>3, <1>8, KeepVersions, KeepRows, KeepEvents DEF AccountsInv
<1>17. RecordsCounted' /\ RecordsSummed' /\ StepsAddUpBelowMax' BY <1>1, <1>3, <1>7, KeepRecords DEF AccountsInv
<1>19. NoVersionsYet' BY <1>4, <1>6 DEF AccountsInv, NoVersionsYet
<1>18. RowsLagBehind' /\ ReputationAddsUp' /\ TrustIsCurrent'
  BY <1>1, <1>7, <1>8, KeepLag, KeepReputation DEF AccountsInv
<1> QED BY <1>10, <1>11, <1>12, <1>14, <1>15, <1>16, <1>17, <1>18, <1>19 DEF AccountsInv

\* A new version is counted by the configuration; the skill's own count
\* follows it (StepSkills).
LEMMA VersionMade ==
  ASSUME SkillsType, AccountsInv, NEW k \in SkillKeys, NEW v \in Versions,
         CreateSkillVersion(k, v)
  PROVE  AccountsInv'
<1> DEFINE n == skill[k].version_count
           s == [skill[k] EXCEPT !.version_count = VersionsCounted(k),
                                 !.latest_version_index = VersionsCounted(k) - 1]
           c == [config EXCEPT !.versions = @ + 1]
<1>0. /\ config \in ConfigAccount /\ skill \in [SkillKeys -> SkillRecord]
      /\ skill[k] \in SkillRecord /\ n \in Nat
  BY DEF AccountsInv, AccountsType, SkillsType, SkillRecord
<1>1. /\ skill[k].status # "None" /\ config' = c /\ skill' = [skill EXCEPT ![k] = s]
      /\ UNCHANGED <<profile, records, reputation, row>>
  BY DEF CreateSkillVersion
<1>2. /\ c \in ConfigAccount /\ c.profiles = config.profiles /\ c.skills = config.skills
      /\ c.versions = config.versions + 1 /\ c.recorded = config.recorded
      /\ c.reputation_events = config.reputation_events
      /\ c.discovery_rows = config.discovery_rows
  BY <1>0 DEF ConfigAccount
<1>3. s.status = skill[k].status /\ s.version_count = n + 1 BY <1>0 DEF SkillRecord, VersionsCounted
<1> HIDE DEF c, s
<1>4. skill'[k] = s /\ \A j \in SkillKeys : j # k => skill'[j] = skill[j] BY <1>0, <1>1
<1>5. Published' = Published BY <1>1, <1>3, <1>4 DEF Published
<1>6. AccountsType' BY <1>1, <1>2 DEF AccountsInv, AccountsType
<1>7. FreshProfiles' /\ ProfilesCounted' /\ SkillsCounted' /\ SkillCounts'
  BY <1>1, <1>2, <1>5, KeepFresh, KeepProfiles, KeepSkills DEF AccountsInv
<1>8. RowsCounted' /\ EventsSummed' /\ RecordsCounted' /\ RecordsSummed' /\ StepsAddUpBelowMax'
      /\ ReputationAddsUp' /\ TrustIsCurrent'
  BY <1>1, <1>2, KeepRows, KeepEvents, KeepRecords, KeepReputation DEF AccountsInv
<1>9. VersionsSummed'
 <2> DEFINE f == [j \in SkillKeys |-> skill[j].version_count]
            e == [j \in SkillKeys |-> skill'[j].version_count]
 <2>1. f \in [SkillKeys -> Nat] /\ f[k] = n BY <1>0 DEF SkillRecord
 <2>2. e[k] = n + 1 /\ \A j \in SkillKeys \ {k} : e[j] = f[j] BY <1>3, <1>4
 <2>3. e \in [SkillKeys -> Nat]
  <3> HIDE DEF n
  <3>1. \A j \in SkillKeys : e[j] \in Nat BY <1>0, <2>1, <2>2
  <3> QED BY <3>1
 <2> HIDE DEF e, f, n
 <2>4. SumFunction(e) + f[k] = SumFunction(f) + e[k] /\ SumFunction(e) \in Nat /\ SumFunction(f) \in Nat
   BY <2>1, <2>2, <2>3, TablesFinite, FunctionSumOfChange
 <2>5. SumFunction(e) = SumFunction(f) + 1 BY <1>0, <2>1, <2>2, <2>4
 <2>6. config.versions = SumFunction(f) BY DEF AccountsInv, VersionsSummed, f
 <2>7. config'.versions = SumFunction(e) BY <1>1, <1>2, <2>5, <2>6
 <2> QED BY <2>7 DEF VersionsSummed, e
<1>10. RowsLagBehind'
 <2> SUFFICES ASSUME NEW j \in SkillKeys, row[j].exists
              PROVE  /\ row[j].version_count <= skill'[j].version_count
                     /\ row[j].discovery <= DiscoveryScore(0, 0, 0, skill'[j].version_count, 1, 0, 0)
   BY <1>1 DEF RowsLagBehind
 <2> DEFINE a == skill[j].version_count
            b == skill'[j].version_count
 <2>1. /\ row[j].version_count <= a
       /\ row[j].discovery <= DiscoveryScore(0, 0, 0, a, 1, 0, 0)
       /\ row[j].version_count \in Nat /\ row[j].discovery \in Nat
   BY DEF AccountsInv, RowsLagBehind, AccountsType, DiscoveryRow
 <2>2. a \in Nat /\ b \in Nat /\ a <= b
  <3>1. a \in Nat BY <1>0 DEF SkillRecord
  <3>2. CASE j = k
   <4>1. b = a + 1 BY <1>3, <1>4, <3>2
   <4> QED BY <3>1, <4>1
  <3>3. CASE j # k BY <1>4, <3>1, <3>3
  <3> QED BY <3>2, <3>3
 <2> DEFINE x == DiscoveryScore(0, 0, 0, a, 1, 0, 0)
            y == DiscoveryScore(0, 0, 0, b, 1, 0, 0)
 <2> HIDE DEF a, b
 <2>3. x <= y BY <2>2, RowScoreGrows
 <2>4. x \in Nat /\ y \in Nat BY <2>2, DiscoveryIsNat
 <2> HIDE DEF x, y
 <2>5. row[j].version_count <= b /\ row[j].discovery <= y BY <2>1, <2>2, <2>3, <2>4 DEF x
 <2> QED BY <2>5 DEF y, b
<1>11. NoVersionsYet' BY <1>1, <1>3, <1>4 DEF AccountsInv, NoVersionsYet
<1> QED BY <1>6, <1>7, <1>8, <1>9, <1>10, <1>11 DEF AccountsInv

\* Only a skill that exists has a version to activate.
LEMMA VersionActivated ==
  ASSUME SkillInv, AccountsInv, NEW k \in SkillKeys, NEW v \in Versions,
         ActivateSkillVersion(k, v)
  PROVE  AccountsInv'
<1> DEFINE s == [skill[k] EXCEPT !.status = "Active",
                   !.latest_version_index = Greater(skill[k].version_count, 1) - 1]
<1>0. skill \in [SkillKeys -> SkillRecord] /\ skill[k] \in SkillRecord BY DEF SkillInv, SkillsType
<1>1. /\ version[k][v] = "Draft" /\ skill' = [skill EXCEPT ![k] = s]
      /\ UNCHANGED <<config, profile, records, reputation, row>>
  BY DEF ActivateSkillVersion
<1>2. s.version_count = skill[k].version_count /\ s.status = "Active" BY <1>0 DEF SkillRecord
<1> HIDE DEF s
<1>3. skill'[k] = s /\ \A j \in SkillKeys : j # k => skill'[j] = skill[j] BY <1>0, <1>1
<1>4. \A j \in SkillKeys : skill'[j].version_count = skill[j].version_count BY <1>2, <1>3
<1>5. skill[k].status # "None"
 <2>1. v \in VersionsOf(k) BY <1>1 DEF VersionsOf
 <2>2. IsFiniteSet(VersionsOf(k)) BY OnchainAssumption, FS_Subset DEF VersionsOf
 <2>3. Cardinality(VersionsOf(k)) # 0 BY <2>1, <2>2, FS_EmptySet
 <2>4. skill[k].version_count # 0 BY <2>3 DEF SkillInv, Matches
 <2> QED BY <2>4 DEF AccountsInv, NoVersionsYet
<1>6. Published' = Published BY <1>2, <1>3, <1>5 DEF Published
<1>7. AccountsType' BY <1>1 DEF AccountsInv, AccountsType
<1>8. FreshProfiles' /\ ProfilesCounted' /\ SkillsCounted' /\ SkillCounts'
  BY <1>1, <1>6, KeepFresh, KeepProfiles, KeepSkills DEF AccountsInv
<1>9. RowsCounted' /\ EventsSummed' /\ RecordsCounted' /\ RecordsSummed' /\ StepsAddUpBelowMax'
      /\ ReputationAddsUp' /\ TrustIsCurrent'
  BY <1>1, KeepRows, KeepEvents, KeepRecords, KeepReputation DEF AccountsInv
<1>10. VersionsSummed' /\ RowsLagBehind' BY <1>1, <1>4, KeepVersions, KeepLag DEF AccountsInv
<1>11. NoVersionsYet' BY <1>2, <1>3 DEF AccountsInv, NoVersionsYet
<1> QED BY <1>7, <1>8, <1>9, <1>10, <1>11 DEF AccountsInv

\* A record more, of one kind and of one wallet, is counted by the wallet
\* and by the configuration, for that kind.
LEMMA RecordMade ==
  ASSUME AccountsInv, NEW w \in Wallets, NEW kind \in RecordKinds, NEW id \in RecordIds,
         NEW detail \in RecordDetails,
         kind = "planner" /\ detail[1] < U16Max => detail[2] + detail[3] <= detail[1],
         Record(w, kind, id, detail)
  PROVE  AccountsInv'
<1> DEFINE r == [kind |-> kind, id |-> id, detail |-> detail]
           pc == [profile[w].recorded EXCEPT ![kind] = @ + 1]
           p == [profile[w] EXCEPT !.recorded = pc]
           cc == [config.recorded EXCEPT ![kind] = @ + 1]
           c == [config EXCEPT !.recorded = cc]
<1>0. /\ config \in ConfigAccount /\ profile \in [Wallets -> AgentProfile]
      /\ profile[w] \in AgentProfile /\ records \in [Wallets -> SUBSET AnchoredRecord]
      /\ profile[w].recorded \in [RecordKinds -> Nat] /\ config.recorded \in [RecordKinds -> Nat]
  BY DEF AccountsInv, AccountsType, AgentProfile, ConfigAccount
<1>1. /\ profile[w].exists /\ \A q \in records[w] : ~(q.kind = kind /\ q.id = id)
      /\ records' = [records EXCEPT ![w] = records[w] \cup {r}]
      /\ profile' = [profile EXCEPT ![w] = p] /\ config' = c
      /\ UNCHANGED <<skill, version, reputation, row>>
  BY DEF Record, NewRecord
<1>2. /\ pc \in [RecordKinds -> Nat] /\ pc[kind] = profile[w].recorded[kind] + 1
      /\ \A k \in RecordKinds : k # kind => pc[k] = profile[w].recorded[k]
  BY <1>0
<1>3. /\ cc \in [RecordKinds -> Nat] /\ cc[kind] = config.recorded[kind] + 1
      /\ \A k \in RecordKinds : k # kind => cc[k] = config.recorded[k]
  BY <1>0
<1>4. r \in AnchoredRecord /\ r.kind = kind /\ r.id = id /\ r.detail = detail BY DEF AnchoredRecord
<1> HIDE DEF pc, cc, r
<1>5. /\ p \in AgentProfile /\ p.exists = profile[w].exists
      /\ p.skill_count = profile[w].skill_count /\ p.recorded = pc
      /\ p.trust = profile[w].trust /\ p.discovery = profile[w].discovery
  BY <1>0, <1>2 DEF AgentProfile
<1>6. /\ c \in ConfigAccount /\ c.profiles = config.profiles /\ c.skills = config.skills
      /\ c.versions = config.versions /\ c.recorded = cc
      /\ c.reputation_events = config.reputation_events
      /\ c.discovery_rows = config.discovery_rows
  BY <1>0, <1>3 DEF ConfigAccount
<1> HIDE DEF p, c
<1>7. /\ profile' \in [Wallets -> AgentProfile] /\ profile'[w] = p
      /\ \A v \in Wallets : v # w => profile'[v] = profile[v]
  BY <1>0, <1>1, <1>5
<1>8. /\ records' \in [Wallets -> SUBSET AnchoredRecord] /\ records'[w] = records[w] \cup {r}
      /\ \A v \in Wallets : v # w => records'[v] = records[v]
  BY <1>0, <1>1, <1>4
<1>9. \A v \in Wallets : /\ profile'[v].exists = profile[v].exists
                         /\ profile'[v].skill_count = profile[v].skill_count
                         /\ profile'[v].trust = profile[v].trust
                         /\ profile'[v].discovery = profile[v].discovery
  BY <1>5, <1>7
<1>10. \A v \in Wallets : IsFiniteSet(records[v]) /\ IsFiniteSet(records'[v])
 <2>1. \A v \in Wallets : IsFiniteSet(records[v]) BY DEF AccountsInv, AccountsType
 <2>2. IsFiniteSet(records[w] \cup {r}) BY <2>1, FS_AddElement
 <2> QED BY <1>8, <2>1, <2>2
<1>11. AccountsType' BY <1>1, <1>6, <1>7, <1>8, <1>10 DEF AccountsInv, AccountsType
<1>12. FreshProfiles' BY <1>1, <1>5, <1>7 DEF AccountsInv, FreshProfiles
<1>13. Published' = Published BY <1>1 DEF Published
<1>14. ProfilesCounted' /\ SkillsCounted' /\ SkillCounts'
  BY <1>1, <1>6, <1>9, <1>13, KeepProfiles, KeepSkills DEF AccountsInv
<1>15. VersionsSummed' /\ RowsCounted' /\ EventsSummed' /\ NoVersionsYet'
  BY <1>1, <1>6, KeepVersions, KeepRows, KeepEvents, KeepNone DEF AccountsInv
<1>16. RowsLagBehind' /\ ReputationAddsUp' /\ TrustIsCurrent' BY <1>1, <1>9, KeepLag, KeepReputation DEF AccountsInv
<1>17. RecordsCounted'
 <2> SUFFICES ASSUME NEW k \in RecordKinds, NEW v \in Wallets
              PROVE  profile'[v].recorded[k] = Cardinality(RecordsOf(v, k)')
   BY DEF RecordsCounted
 <2>1. /\ profile[v].recorded[k] = Cardinality(RecordsOf(v, k))
       /\ IsFiniteSet(RecordsOf(v, k))
   BY <1>10, FS_Subset DEF AccountsInv, RecordsCounted, RecordsOf
 <2>2. CASE v = w /\ k = kind
  <3>1. r \notin RecordsOf(v, k) /\ RecordsOf(v, k)' = RecordsOf(v, k) \cup {r}
    BY <1>1, <1>4, <1>8, <2>2 DEF RecordsOf
  <3>2. Cardinality(RecordsOf(v, k)') = Cardinality(RecordsOf(v, k)) + 1 BY <2>1, <3>1, FS_AddElement
  <3> QED BY <1>2, <1>5, <1>7, <2>1, <2>2, <3>2
 <2>3. CASE v = w /\ k # kind
  <3>1. RecordsOf(v, k)' = RecordsOf(v, k) BY <1>4, <1>8, <2>3 DEF RecordsOf
  <3> QED BY <1>2, <1>5, <1>7, <2>1, <2>3, <3>1
 <2>4. CASE v # w
  <3>1. RecordsOf(v, k)' = RecordsOf(v, k) BY <1>8, <2>4 DEF RecordsOf
  <3> QED BY <1>7, <2>1, <2>4, <3>1
 <2> QED BY <2>2, <2>3, <2>4
<1>18. RecordsSummed'
 <2> SUFFICES ASSUME NEW k \in RecordKinds
              PROVE  config'.recorded[k] = SumFunction([v \in Wallets |-> profile'[v].recorded[k]])
   BY DEF RecordsSummed
 <2> DEFINE f == [v \in Wallets |-> profile[v].recorded[k]]
            e == [v \in Wallets |-> profile'[v].recorded[k]]
 <2>1. config.recorded[k] = SumFunction(f) BY DEF AccountsInv, RecordsSummed
 <2>2. CASE k # kind
  <3>1. \A v \in Wallets : profile'[v].recorded[k] = profile[v].recorded[k] BY <1>2, <1>5, <1>7, <2>2
  <3>2. e = f BY <3>1
  <3>3. config'.recorded[k] = config.recorded[k] BY <1>1, <1>3, <1>6, <2>2
  <3> QED BY <2>1, <3>2, <3>3
 <2>3. CASE k = kind
  <3>1. f \in [Wallets -> Nat] /\ e \in [Wallets -> Nat] BY <1>0, <1>7 DEF AgentProfile
  <3>2. e[w] = f[w] + 1 /\ \A v \in Wallets \ {w} : e[v] = f[v] BY <1>2, <1>5, <1>7, <2>3
  <3>3. config'.recorded[k] = config.recorded[k] + 1 BY <1>1, <1>3, <1>6, <2>3
  <3> HIDE DEF e, f
  <3>4. SumFunction(e) + f[w] = SumFunction(f) + e[w] /\ SumFunction(e) \in Nat
        /\ SumFunction(f) \in Nat /\ f[w] \in Nat
    BY <3>1, <3>2, TablesFinite, FunctionSumOfChange
  <3>5. SumFunction(e) = SumFunction(f) + 1 BY <3>2, <3>4
  <3>6. config'.recorded[k] = SumFunction(e) BY <2>1, <3>3, <3>5
  <3> QED BY <3>6 DEF e
 <2> QED BY <2>2, <2>3
<1>19. StepsAddUpBelowMax'
 <2> SUFFICES ASSUME NEW v \in Wallets, NEW q \in records'[v], q.kind = "planner",
                     q.detail[1] < U16Max
              PROVE  q.detail[2] + q.detail[3] <= q.detail[1]
   BY DEF StepsAddUpBelowMax
 <2>1. CASE q \in records[v] BY <2>1 DEF AccountsInv, StepsAddUpBelowMax
 <2>2. CASE q \notin records[v]
  <3>1. q = r BY <1>8, <2>2
  <3> QED BY <1>4, <3>1
 <2> QED BY <2>1, <2>2
<1> QED BY <1>11, <1>12, <1>14, <1>15, <1>16, <1>17, <1>18, <1>19 DEF AccountsInv

\* record_planner_run checks a saturating sum: below the largest u16 it is
\* the sum.
LEMMA PlannerRunRecorded ==
  ASSUME AccountsInv, NEW w \in Wallets, NEW id \in RecordIds,
         NEW s \in StepCounts, NEW c \in StepCounts, NEW f \in StepCounts,
         RecordPlannerRun(w, id, s, c, f)
  PROVE  AccountsInv'
<1> DEFINE d == <<s, c, f>>
<1>1. d \in RecordDetails /\ d[1] = s /\ d[2] = c /\ d[3] = f BY DEF RecordDetails
<1>2. s \in Nat /\ c \in Nat /\ f \in Nat /\ U16Max \in Nat BY OnchainAssumption
<1>3. s < U16Max => c + f <= s BY <1>2 DEF RecordPlannerRun, StepsCounted, SaturatingAdd16, Lesser
<1>4. Record(w, "planner", id, d) /\ "planner" \in RecordKinds BY DEF RecordPlannerRun, RecordKinds
<1> HIDE DEF d
<1> QED BY <1>1, <1>3, <1>4, RecordMade

\* A row shows the skill as it is now, and is counted when it is new.
LEMMA RowRefreshed ==
  ASSUME SkillsType, AccountsInv, NEW k \in SkillKeys, RefreshDiscovery(k)
  PROVE  AccountsInv'
<1> DEFINE n == skill[k].version_count
           d == DiscoveryScore(0, 0, 0, n, 1, 0, 0)
           r == [exists |-> TRUE, version_count |-> n, discovery |-> d]
           c == [config EXCEPT !.discovery_rows = @ + 1]
<1>0. /\ config \in ConfigAccount /\ row \in [SkillKeys -> DiscoveryRow]
      /\ n \in Nat
  BY DEF AccountsInv, AccountsType, SkillsType, SkillRecord
<1>1. /\ row' = [row EXCEPT ![k] = r] /\ config' = IF row[k].exists THEN config ELSE c
      /\ UNCHANGED <<profile, skill, version, records, reputation>>
  BY DEF RefreshDiscovery, RowOf
<1>2. /\ c \in ConfigAccount /\ c.profiles = config.profiles /\ c.skills = config.skills
      /\ c.versions = config.versions /\ c.recorded = config.recorded
      /\ c.reputation_events = config.reputation_events
      /\ c.discovery_rows = config.discovery_rows + 1
  BY <1>0 DEF ConfigAccount
<1> HIDE DEF n, d
<1>3. d \in Nat BY <1>0, DiscoveryIsNat DEF d
<1>4. r \in DiscoveryRow /\ r.exists /\ r.version_count = n /\ r.discovery = d BY <1>0, <1>3 DEF DiscoveryRow
<1> HIDE DEF r, c
<1>5. /\ row' \in [SkillKeys -> DiscoveryRow] /\ row'[k] = r
      /\ \A j \in SkillKeys : j # k => row'[j] = row[j]
  BY <1>0, <1>1, <1>4
<1>6. /\ config' \in ConfigAccount /\ config'.profiles = config.profiles
      /\ config'.skills = config.skills /\ config'.versions = config.versions
      /\ config'.recorded = config.recorded
      /\ config'.reputation_events = config.reputation_events
  BY <1>0, <1>1, <1>2
<1>7. AccountsType' BY <1>1, <1>5, <1>6 DEF AccountsInv, AccountsType
<1>8. Published' = Published BY <1>1 DEF Published
<1>9. FreshProfiles' /\ ProfilesCounted' /\ SkillsCounted' /\ SkillCounts' /\ NoVersionsYet'
  BY <1>1, <1>6, <1>8, KeepFresh, KeepProfiles, KeepSkills, KeepNone DEF AccountsInv
<1>10. VersionsSummed' /\ EventsSummed' /\ RecordsCounted' /\ RecordsSummed'
       /\ StepsAddUpBelowMax' /\ ReputationAddsUp' /\ TrustIsCurrent'
  BY <1>1, <1>6, KeepVersions, KeepEvents, KeepRecords, KeepReputation DEF AccountsInv
<1>11. RowsCounted'
 <2> DEFINE S == {j \in SkillKeys : row[j].exists}
            T == {j \in SkillKeys : row'[j].exists}
 <2>1. config.discovery_rows = Cardinality(S) /\ IsFiniteSet(S)
   BY TablesFinite, FS_Subset DEF AccountsInv, RowsCounted
 <2>2. CASE row[k].exists
  <3>1. T = S BY <1>4, <1>5, <2>2
  <3> QED BY <1>1, <2>1, <2>2, <3>1 DEF RowsCounted
 <2>3. CASE ~row[k].exists
  <3>1. k \notin S /\ T = S \cup {k} BY <1>4, <1>5, <2>3
  <3>2. Cardinality(T) = Cardinality(S) + 1 BY <2>1, <3>1, FS_AddElement
  <3> HIDE DEF S, T
  <3>3. config'.discovery_rows = Cardinality(T) BY <1>1, <1>2, <2>1, <2>3, <3>2
  <3> QED BY <3>3 DEF RowsCounted, T
 <2> QED BY <2>2, <2>3
<1>12. RowsLagBehind'
 <2> SUFFICES ASSUME NEW j \in SkillKeys, row'[j].exists
              PROVE  /\ row'[j].version_count <= skill[j].version_count
                     /\ row'[j].discovery <= DiscoveryScore(0, 0, 0, skill[j].version_count, 1, 0, 0)
   BY <1>1 DEF RowsLagBehind
 <2>1. CASE j = k
  <3>1. row'[j].version_count = n /\ row'[j].discovery = d /\ n <= n /\ d <= d BY <1>0, <1>3, <1>4, <1>5, <2>1
  <3> QED BY <2>1, <3>1 DEF n, d
 <2>2. CASE j # k BY <1>5, <2>2 DEF AccountsInv, RowsLagBehind
 <2> QED BY <2>1, <2>2
<1> QED BY <1>7, <1>9, <1>10, <1>11, <1>12 DEF AccountsInv

\* The reputation account after an event, field by field.
LEMMA EventScored ==
  ASSUME NEW rep \in ReputationAccount, NEW kind, NEW success \in BOOLEAN,
         NEW points \in Nat, NEW quality \in Nat, NEW new,
         new = Scored(WithEvent(rep, kind, success, points), quality)
  PROVE  /\ new \in ReputationAccount
         /\ new.usage = rep.usage + 1
         /\ new.success = rep.success + IF success THEN 1 ELSE 0
         /\ new.failure = rep.failure + IF success THEN 0 ELSE 1
         /\ \A k \in CountedKinds : new.events[k] = rep.events[k] + IF k = kind THEN 1 ELSE 0
         /\ new.trust = TrustOf(new)
<1> DEFINE s == rep.success + IF success THEN 1 ELSE 0
           f == rep.failure + IF success THEN 0 ELSE 1
           e == [k \in CountedKinds |-> rep.events[k] + IF k = kind THEN 1 ELSE 0]
           v == WithEvent(rep, kind, success, points)
           a == e["verified_authorship"]
           p == e["deployment"]
           q == e["skill_publish"]
           t == TrustScore(s, f, a, p)
           d == DiscoveryScore(t, rep.usage + 1, s, 0, q, a, quality)
<1>1. /\ rep.usage \in Nat /\ rep.success \in Nat /\ rep.failure \in Nat /\ rep.rewards \in Nat
      /\ rep.events \in [CountedKinds -> Nat]
  BY DEF ReputationAccount
<1>2. s \in Nat /\ f \in Nat /\ rep.usage + 1 \in Nat /\ rep.rewards + points \in Nat BY <1>1
<1>3. e \in [CountedKinds -> Nat] BY <1>1
<1>4. a \in Nat /\ p \in Nat /\ q \in Nat
 <2> HIDE DEF e
 <2>1. "verified_authorship" \in CountedKinds /\ "deployment" \in CountedKinds
       /\ "skill_publish" \in CountedKinds
   BY DEF CountedKinds
 <2> QED BY <1>3, <2>1
<1>5. v = [rep EXCEPT !.exists = TRUE, !.usage = rep.usage + 1, !.rewards = rep.rewards + points,
                      !.success = s, !.failure = f, !.events = e]
  BY DEF WithEvent
<1> HIDE DEF s, f, e, v
<1>6. /\ v \in ReputationAccount /\ v.usage = rep.usage + 1 /\ v.success = s /\ v.failure = f
      /\ v.events = e
  BY <1>2, <1>3, <1>5 DEF ReputationAccount
<1>7. new = [v EXCEPT !.trust = t, !.discovery = d] BY <1>6 DEF Scored, v
<1>8. t \in Nat
 <2> HIDE DEF a, p
 <2> QED BY <1>2, <1>4, TrustIsNat
<1>9. d \in Nat
 <2> HIDE DEF t, a, q
 <2> QED BY <1>2, <1>4, <1>8, DiscoveryIsNat
<1> HIDE DEF t, d
<1>10. /\ new \in ReputationAccount /\ new.usage = v.usage /\ new.success = v.success
       /\ new.failure = v.failure /\ new.events = v.events /\ new.trust = t
  BY <1>6, <1>7, <1>8, <1>9 DEF ReputationAccount
<1>11. new.trust = TrustOf(new) BY <1>6, <1>10 DEF TrustOf, t
<1>12. \A k \in CountedKinds : e[k] = rep.events[k] + IF k = kind THEN 1 ELSE 0 BY DEF e
<1> QED BY <1>6, <1>10, <1>11, <1>12 DEF s, f

\* The counted events stay among the events.
LEMMA EventsAmongUsage ==
  ASSUME NEW e \in [CountedKinds -> Nat], NEW f \in [CountedKinds -> Nat], NEW kind,
         \A k \in CountedKinds : f[k] = e[k] + IF k = kind THEN 1 ELSE 0,
         NEW n \in Nat, SumFunction(e) <= n
  PROVE  SumFunction(f) <= n + 1
<1>1. SumFunction(e) \in Nat BY TablesFinite, FunctionSumIsNat
<1>2. CASE kind \in CountedKinds
 <2>1. f[kind] = e[kind] + 1 /\ \A k \in CountedKinds \ {kind} : f[k] = e[k] BY <1>2
 <2>2. SumFunction(f) + e[kind] = SumFunction(e) + f[kind] /\ SumFunction(f) \in Nat
   BY <1>2, <2>1, TablesFinite, FunctionSumOfChange
 <2>3. e[kind] \in Nat BY <1>2
 <2> QED BY <1>1, <2>1, <2>2, <2>3
<1>3. CASE kind \notin CountedKinds
 <2>1. \A k \in CountedKinds : f[k] = e[k] BY <1>3
 <2>2. f = e BY <2>1
 <2> QED BY <1>1, <2>2
<1> QED BY <1>2, <1>3

\* An event is counted once, in the wallet and in the configuration.
LEMMA EventCounted ==
  ASSUME AccountsInv, NEW w \in Wallets, NEW kind, NEW success \in BOOLEAN,
         NEW points \in Rewards, NEW quality \in Qualities,
         UpdateReputation(w, kind, success, points, quality)
  PROVE  AccountsInv'
<1> DEFINE rep == reputation[w]
           new == Scored(WithEvent(rep, kind, success, points), quality)
           p == [profile[w] EXCEPT !.reputation = new.trust, !.trust = new.trust,
                                   !.discovery = new.discovery]
           c == [config EXCEPT !.reputation_events = @ + 1]
<1>0. /\ config \in ConfigAccount /\ profile \in [Wallets -> AgentProfile]
      /\ profile[w] \in AgentProfile /\ reputation \in [Wallets -> ReputationAccount]
      /\ rep \in ReputationAccount /\ points \in Nat /\ quality \in Nat
  BY OnchainAssumption, NumbersAssumption DEF AccountsInv, AccountsType, U64
<1>1. /\ profile[w].exists /\ reputation' = [reputation EXCEPT ![w] = new]
      /\ profile' = [profile EXCEPT ![w] = p] /\ config' = c
      /\ UNCHANGED <<skill, version, records, row>>
  BY DEF UpdateReputation, Mirrored
<1> HIDE DEF new
<1>2. /\ new \in ReputationAccount
      /\ new.usage = rep.usage + 1
      /\ new.success = rep.success + IF success THEN 1 ELSE 0
      /\ new.failure = rep.failure + IF success THEN 0 ELSE 1
      /\ \A k \in CountedKinds : new.events[k] = rep.events[k] + IF k = kind THEN 1 ELSE 0
      /\ new.trust = TrustOf(new)
 <2> HIDE DEF rep
 <2> QED BY <1>0, EventScored DEF new
<1>3. /\ rep.usage \in Nat /\ rep.success \in Nat /\ rep.failure \in Nat
      /\ rep.events \in [CountedKinds -> Nat] /\ new.events \in [CountedKinds -> Nat]
      /\ new.trust \in Nat /\ new.discovery \in Nat
  BY <1>0, <1>2 DEF ReputationAccount
<1>4. /\ p \in AgentProfile /\ p.exists = profile[w].exists
      /\ p.skill_count = profile[w].skill_count /\ p.recorded = profile[w].recorded
      /\ p.trust = new.trust /\ p.discovery = new.discovery
  BY <1>0, <1>3 DEF AgentProfile
<1>5. /\ c \in ConfigAccount /\ c.profiles = config.profiles /\ c.skills = config.skills
      /\ c.versions = config.versions /\ c.recorded = config.recorded
      /\ c.reputation_events = config.reputation_events + 1
      /\ c.discovery_rows = config.discovery_rows
  BY <1>0 DEF ConfigAccount
<1> HIDE DEF p, c
<1>6. /\ profile' \in [Wallets -> AgentProfile] /\ profile'[w] = p
      /\ \A v \in Wallets : v # w => profile'[v] = profile[v]
  BY <1>0, <1>1, <1>4
<1>7. /\ reputation' \in [Wallets -> ReputationAccount] /\ reputation'[w] = new
      /\ \A v \in Wallets : v # w => reputation'[v] = reputation[v]
  BY <1>0, <1>1, <1>2
<1>8. \A v \in Wallets : /\ profile'[v].exists = profile[v].exists
                         /\ profile'[v].skill_count = profile[v].skill_count
                         /\ profile'[v].recorded = profile[v].recorded
  BY <1>4, <1>6
<1>9. AccountsType' BY <1>1, <1>5, <1>6, <1>7 DEF AccountsInv, AccountsType
<1>10. FreshProfiles' BY <1>1, <1>4, <1>6 DEF AccountsInv, FreshProfiles
<1>11. Published' = Published BY <1>1 DEF Published
<1>12. ProfilesCounted' /\ SkillsCounted' /\ SkillCounts' /\ NoVersionsYet'
  BY <1>1, <1>5, <1>8, <1>11, KeepProfiles, KeepSkills, KeepNone DEF AccountsInv
<1>13. VersionsSummed' /\ RowsCounted' /\ RecordsCounted' /\ RecordsSummed'
       /\ StepsAddUpBelowMax' /\ RowsLagBehind'
  BY <1>1, <1>5, <1>8, KeepVersions, KeepRows, KeepRecords, KeepLag DEF AccountsInv
<1>14. EventsSummed'
 <2> DEFINE f == [v \in Wallets |-> reputation[v].usage]
            e == [v \in Wallets |-> reputation'[v].usage]
 <2>1. f \in [Wallets -> Nat] /\ e \in [Wallets -> Nat] BY <1>0, <1>7 DEF ReputationAccount
 <2>2. e[w] = f[w] + 1 /\ \A v \in Wallets \ {w} : e[v] = f[v] BY <1>2, <1>7
 <2>3. config.reputation_events = SumFunction(f) BY DEF AccountsInv, EventsSummed
 <2> HIDE DEF e, f
 <2>4. SumFunction(e) + f[w] = SumFunction(f) + e[w] /\ SumFunction(e) \in Nat
       /\ SumFunction(f) \in Nat /\ f[w] \in Nat
   BY <2>1, <2>2, TablesFinite, FunctionSumOfChange
 <2>5. config'.reputation_events = SumFunction(e) BY <1>1, <1>5, <2>2, <2>3, <2>4
 <2> QED BY <2>5 DEF EventsSummed, e
<1>15. ReputationAddsUp'
 <2> SUFFICES ASSUME NEW v \in Wallets
              PROVE  /\ reputation'[v].usage = reputation'[v].success + reputation'[v].failure
                     /\ SumFunction(reputation'[v].events) <= reputation'[v].usage
                     /\ profile'[v].trust = reputation'[v].trust
                     /\ profile'[v].discovery = reputation'[v].discovery
   BY DEF ReputationAddsUp
 <2>1. /\ reputation[v].usage = reputation[v].success + reputation[v].failure
       /\ SumFunction(reputation[v].events) <= reputation[v].usage
       /\ profile[v].trust = reputation[v].trust
       /\ profile[v].discovery = reputation[v].discovery
   BY DEF AccountsInv, ReputationAddsUp
 <2>2. CASE v # w BY <1>6, <1>7, <2>1, <2>2
 <2>3. CASE v = w
  <3>1. new.usage = new.success + new.failure
   <4>1. rep.usage = rep.success + rep.failure BY <2>1, <2>3
   <4> HIDE DEF rep
   <4> QED BY <1>2, <1>3, <4>1
  <3>2. SumFunction(new.events) <= new.usage
   <4>1. SumFunction(rep.events) <= rep.usage BY <2>1, <2>3
   <4> HIDE DEF rep
   <4>2. SumFunction(new.events) <= rep.usage + 1 BY <1>2, <1>3, <4>1, EventsAmongUsage
   <4> QED BY <1>2, <4>2
  <3> QED BY <1>4, <1>6, <1>7, <2>3, <3>1, <3>2
 <2> QED BY <2>2, <2>3
<1>16. TrustIsCurrent'
 <2> SUFFICES ASSUME NEW v \in Wallets PROVE reputation'[v].trust = TrustOf(reputation'[v])
   BY DEF TrustIsCurrent, TrustOf
 <2>1. reputation[v].trust = TrustOf(reputation[v]) BY DEF AccountsInv, TrustIsCurrent
 <2> QED BY <1>2, <1>7, <2>1
<1> QED BY <1>9, <1>10, <1>12, <1>13, <1>14, <1>15, <1>16 DEF AccountsInv

\* Nothing exists and nothing is counted.
LEMMA InitAccounts == Init => AccountsInv
<1> SUFFICES ASSUME Init PROVE AccountsInv OBVIOUS
<1>1. /\ config = [live |-> FALSE, paused |-> FALSE, max_skills |-> 0,
                   profiles |-> 0, skills |-> 0, versions |-> 0,
                   recorded |-> [k \in RecordKinds |-> 0],
                   reputation_events |-> 0, discovery_rows |-> 0]
      /\ profile = [w \in Wallets |-> NoProfile]
      /\ skill = [k \in SkillKeys |-> NoSkill]
      /\ records = [w \in Wallets |-> {}]
      /\ reputation = [w \in Wallets |-> NoReputation]
      /\ row = [k \in SkillKeys |-> NoRow]
  BY DEF Init
<1>2. /\ NoProfile \in AgentProfile /\ ~NoProfile.exists /\ NoProfile.skill_count = 0
      /\ \A k \in RecordKinds : NoProfile.recorded[k] = 0
      /\ NoProfile.trust = 0 /\ NoProfile.discovery = 0
  BY DEF NoProfile, AgentProfile
<1>3. /\ NoReputation \in ReputationAccount /\ NoReputation.usage = 0
      /\ NoReputation.success = 0 /\ NoReputation.failure = 0
      /\ NoReputation.trust = 0 /\ NoReputation.discovery = 0
      /\ NoReputation.events \in [CountedKinds -> Nat]
      /\ \A k \in CountedKinds : NoReputation.events[k] = 0
  BY DEF NoReputation, ReputationAccount
<1>4. NoRow \in DiscoveryRow /\ ~NoRow.exists BY DEF NoRow, DiscoveryRow
<1>5. config \in ConfigAccount BY <1>1 DEF ConfigAccount
<1>6. AccountsType
 <2>1. records \in [Wallets -> SUBSET AnchoredRecord] /\ \A w \in Wallets : IsFiniteSet(records[w])
   BY <1>1, FS_EmptySet
 <2> QED BY <1>1, <1>2, <1>3, <1>4, <1>5, <2>1 DEF AccountsType
<1>7. FreshProfiles BY <1>1 DEF FreshProfiles
<1>8. NoVersionsYet BY <1>1 DEF NoVersionsYet, NoSkill
<1>9. ProfilesCounted
 <2>1. {w \in Wallets : profile[w].exists} = {} BY <1>1, <1>2
 <2> QED BY <1>1, <2>1, FS_EmptySet DEF ProfilesCounted
<1>10. SkillsCounted /\ SkillCounts
 <2>1. Published = {} BY <1>1 DEF Published, NoSkill
 <2>2. \A w \in Wallets : {k \in Published : k[1] = w} = {} BY <2>1
 <2>3. \A w \in Wallets : profile[w].skill_count = Cardinality({k \in Published : k[1] = w})
   BY <1>1, <1>2, <2>2, FS_EmptySet
 <2> QED BY <1>1, <2>1, <2>3, FS_EmptySet DEF SkillsCounted, SkillCounts
<1>11. VersionsSummed
 <2> DEFINE f == [k \in SkillKeys |-> skill[k].version_count]
 <2>1. f \in [SkillKeys -> Nat] /\ \A k \in SkillKeys : f[k] = 0 BY <1>1 DEF NoSkill
 <2> HIDE DEF f
 <2>2. SumFunction(f) = 0 BY <2>1, TablesFinite, FunctionSumOfZeros
 <2> QED BY <1>1, <2>2 DEF VersionsSummed, f
<1>12. RowsCounted
 <2>1. {k \in SkillKeys : row[k].exists} = {} BY <1>1, <1>4
 <2> QED BY <1>1, <2>1, FS_EmptySet DEF RowsCounted
<1>13. EventsSummed
 <2> DEFINE f == [w \in Wallets |-> reputation[w].usage]
 <2>1. f \in [Wallets -> Nat] /\ \A w \in Wallets : f[w] = 0 BY <1>1, <1>3
 <2> HIDE DEF f
 <2>2. SumFunction(f) = 0 BY <2>1, TablesFinite, FunctionSumOfZeros
 <2> QED BY <1>1, <2>2 DEF EventsSummed, f
<1>14. RecordsCounted
 <2>1. \A k \in RecordKinds, w \in Wallets : RecordsOf(w, k) = {} BY <1>1 DEF RecordsOf
 <2> QED BY <1>1, <1>2, <2>1, FS_EmptySet DEF RecordsCounted
<1>15. RecordsSummed
 <2> SUFFICES ASSUME NEW k \in RecordKinds
              PROVE  config.recorded[k] = SumFunction([w \in Wallets |-> profile[w].recorded[k]])
   BY DEF RecordsSummed
 <2> DEFINE f == [w \in Wallets |-> profile[w].recorded[k]]
 <2>1. f \in [Wallets -> Nat] /\ \A w \in Wallets : f[w] = 0 BY <1>1, <1>2
 <2> HIDE DEF f
 <2>2. SumFunction(f) = 0 BY <2>1, TablesFinite, FunctionSumOfZeros
 <2>3. config.recorded[k] = 0 BY <1>1
 <2> QED BY <2>2, <2>3 DEF f
<1>16. RowsLagBehind /\ StepsAddUpBelowMax BY <1>1, <1>4 DEF RowsLagBehind, StepsAddUpBelowMax
<1>17. ReputationAddsUp
 <2>1. SumFunction(NoReputation.events) = 0 BY <1>3, TablesFinite, FunctionSumOfZeros
 <2> QED BY <1>1, <1>2, <1>3, <2>1 DEF ReputationAddsUp
<1>18. TrustIsCurrent
 <2>1. SuccessBps(0, SaturatingAdd(0, 0)) = 0
  <3>1. SaturatingAdd(0, 0) = 0 /\ Greater(0, 1) = 1 /\ SaturatingMul(0, BpsScale) = 0
    BY NumbersAssumption DEF SaturatingAdd, SaturatingMul, Lesser, Greater
  <3> QED BY <3>1, NumbersAssumption DEF SuccessBps, BpsFromRatio, Lesser
 <2>2. Capped(0, 25, 120) = 0 /\ Capped(0, 25, 80) = 0 BY DEF Capped, Lesser
 <2>3. TrustSum(0, 0, 0, 0) = 0 BY <2>1, <2>2 DEF TrustSum
 <2>4. TrustScore(0, 0, 0, 0) = 0 BY <2>3, NumbersAssumption DEF TrustScore, Wrapped16, Lesser
 <2>5. NoReputation.events["verified_authorship"] = 0 /\ NoReputation.events["deployment"] = 0
   BY DEF NoReputation, CountedKinds
 <2>6. NoReputation.trust = TrustOf(NoReputation) BY <1>3, <2>4, <2>5 DEF TrustOf
 <2> QED BY <1>1, <2>6 DEF TrustIsCurrent
<1> QED
  BY <1>6, <1>7, <1>8, <1>9, <1>10, <1>11, <1>12, <1>13, <1>14, <1>15, <1>16, <1>17, <1>18
  DEF AccountsInv

\* Every instruction keeps the accounts counted.
LEMMA StepAccounts == SkillInv /\ AccountsInv /\ [Next]_vars => AccountsInv'
<1> SUFFICES ASSUME SkillInv, AccountsInv, [Next]_vars PROVE AccountsInv' OBVIOUS
<1>0. SkillsType BY DEF SkillInv
<1>1. CASE UNCHANGED vars
 <2>1. UNCHANGED config /\ UNCHANGED <<profile, skill, version, records, reputation, row>> BY <1>1 DEF vars
 <2>2. config \in ConfigAccount BY DEF AccountsInv, AccountsType
 <2> QED BY <2>1, <2>2, SettingsOnly
<1>2. CASE \E quota \in Quotas : InitializeConfig(quota) BY <1>2, ConfigMade
<1>3. CASE \E quota \in Quotas, paused \in BOOLEAN : UpdateConfig(paused, quota) BY <1>3, ConfigUpdated
<1>4. CASE \E w \in Wallets : CreateProfile(w) BY <1>4, ProfileMade
<1>5. CASE \E w \in Wallets : \E points \in Reputations \cup {profile[w].reputation}, verified \in BOOLEAN :
             UpdateProfile(w, points, verified)
  BY <1>5, ProfileUpdated
<1>6. CASE \E w \in Wallets, id \in RecordIds : AnchorMemory(w, id) \/ RecordDeployment(w, id)
 <2>1. <<>> \in RecordDetails /\ "memory" \in RecordKinds /\ "deployment" \in RecordKinds
       /\ "memory" # "planner" /\ "deployment" # "planner"
   BY DEF RecordDetails, RecordKinds
 <2>2. ASSUME NEW w \in Wallets, NEW id \in RecordIds, Record(w, "memory", id, <<>>)
       PROVE  AccountsInv'
   BY <2>1, <2>2, RecordMade
 <2>3. ASSUME NEW w \in Wallets, NEW id \in RecordIds, Record(w, "deployment", id, <<>>)
       PROVE  AccountsInv'
   BY <2>1, <2>3, RecordMade
 <2> QED BY <1>6, <2>2, <2>3 DEF AnchorMemory, RecordDeployment
<1>7. CASE \E w \in Wallets, id \in RecordIds : \E steps, completed, failed \in StepCounts :
             RecordPlannerRun(w, id, steps, completed, failed)
  BY <1>7, PlannerRunRecorded
<1>8. CASE \E w \in Wallets, kind \in EventKinds, success \in BOOLEAN, points \in Rewards,
             quality \in Qualities : UpdateReputation(w, kind, success, points, quality)
  BY <1>8, EventCounted
<1>9. CASE \E k \in SkillKeys : PublishSkill(k) BY <1>0, <1>9, SkillPublished
<1>10. CASE \E k \in SkillKeys : RefreshDiscovery(k) BY <1>0, <1>10, RowRefreshed
<1>11. CASE \E k \in SkillKeys, v \in Versions : CreateSkillVersion(k, v) BY <1>0, <1>11, VersionMade
<1>12. CASE \E k \in SkillKeys, v \in Versions : ActivateSkillVersion(k, v) BY <1>12, VersionActivated
<1>13. CASE Next BY <1>13, <1>2, <1>3, <1>4, <1>5, <1>6, <1>7, <1>8, <1>9, <1>10, <1>11, <1>12, Zenon DEF Next
<1> QED BY <1>1, <1>13

\* With the versions of each skill counted, the totals are those of the run.
LEMMA CountersFollow == SkillInv /\ AccountsInv => CountersMatchAccounts
<1> SUFFICES ASSUME SkillInv, AccountsInv PROVE CountersMatchAccounts OBVIOUS
<1>1. [k \in SkillKeys |-> skill[k].version_count] = [k \in SkillKeys |-> Cardinality(VersionsOf(k))]
  BY DEF SkillInv, Matches
<1>2. config.versions = SumFunction([k \in SkillKeys |-> Cardinality(VersionsOf(k))])
  BY <1>1 DEF AccountsInv, VersionsSummed
<1> QED
  BY <1>2
  DEF AccountsInv, CountersMatchAccounts, ProfilesCounted, SkillsCounted, SkillCounts, RowsCounted,
      EventsSummed, RecordsCounted, RecordsSummed, RecordsOf

\* Every counter of the configuration and of the profiles is the number of
\* accounts it counts, rows lag behind their skills, planner steps add up
\* and profiles show the scores of their reputation.
THEOREM AccountsHold ==
  Spec => [](CountersMatchAccounts /\ RowsLagBehind /\ StepsAddUpBelowMax /\ ReputationAddsUp)
<1>1. SkillInv /\ AccountsInv
        => CountersMatchAccounts /\ RowsLagBehind /\ StepsAddUpBelowMax /\ ReputationAddsUp
  BY CountersFollow DEF AccountsInv
<1> QED BY <1>1, InitSkills, StepSkills, InitAccounts, StepAccounts, PTL DEF Spec

----
\* One more success and no fewer counted events never lower the trust,
\* while the product in bps_from_ratio does not saturate.
CodeScale == BpsScale = 10000
Unsaturated(n) == n * BpsScale <= U64Max

\* One more success among one more event does not lower the ratio.
LEMMA RatioGrows ==
  ASSUME NEW s \in Nat, NEW f \in Nat, Unsaturated(s + f + 1)
  PROVE  /\ SuccessBps(s, s + f) \in Nat /\ SuccessBps(s + 1, s + f + 1) \in Nat
         /\ SuccessBps(s, s + f) <= SuccessBps(s + 1, s + f + 1)
         /\ s + f + 1 <= U64Max
<1> DEFINE n == s + f
           r == SuccessBps(s, n)
           q == SuccessBps(s + 1, n + 1)
<1>1. n \in Nat /\ n + 1 \in Nat /\ s + 1 \in Nat OBVIOUS
<1>2. n + 1 <= U64Max /\ (s + 1) * BpsScale <= U64Max
 <2>1. (n + 1) * BpsScale <= U64Max BY DEF Unsaturated
 <2>2. n + 1 <= (n + 1) * BpsScale
  <3>1. 1 * (n + 1) <= BpsScale * (n + 1) BY <1>1, NumbersAssumption, ProductMonotone
  <3> QED BY <1>1, <3>1, NumbersAssumption
 <2>3. (s + 1) * BpsScale <= (n + 1) * BpsScale BY <1>1, NumbersAssumption, ProductMonotone
 <2>4. (n + 1) * BpsScale \in Nat /\ (s + 1) * BpsScale \in Nat BY <1>1, NumbersAssumption
 <2> QED BY <1>1, <2>1, <2>2, <2>3, <2>4, NumbersAssumption
<1>3. r \in Nat BY <1>1, SuccessBpsBound, Zenon
<1>4. q \in Nat BY <1>1, SuccessBpsBound, Zenon
<1>5. r <= q
 <2>1. Greater(n + 1, 1) = n + 1 BY <1>1 DEF Greater
 <2>2. CASE n = 0
  <3>1. s = 0 /\ Greater(n, 1) = 1 BY <2>2 DEF Greater
  <3>2. SaturatingMul(0, BpsScale) = 0 BY NumbersAssumption DEF SaturatingMul, Lesser
  <3>3. BpsFromRatio(0, 1) = 0 BY <3>2, NumbersAssumption DEF BpsFromRatio, Lesser
  <3>4. r = 0 BY <3>1, <3>3 DEF SuccessBps
  <3> HIDE DEF r, q
  <3> QED BY <1>4, <3>4
 <2>3. CASE n # 0
  <3>1. Greater(n, 1) = n /\ s + f > 0 BY <1>1, <2>3 DEF Greater
  <3>2. BpsFromRatio(s + 1, s + 1 + f) >= BpsFromRatio(s, s + f)
   <4>1. (s + 1) * BpsScale <= U64Max BY <1>2
   <4> QED BY <3>1, <4>1, SuccessNeverLowersRatio, Zenon
  <3>3. s + 1 + f = n + 1 OBVIOUS
  <3>4. r = BpsFromRatio(s, s + f) BY <3>1 DEF SuccessBps
  <3>5. q = BpsFromRatio(s + 1, s + 1 + f) BY <2>1, <3>3 DEF SuccessBps
  <3> HIDE DEF r, q
  <3> QED BY <1>3, <1>4, <3>2, <3>4, <3>5
 <2> QED BY <2>2, <2>3
<1> QED BY <1>2, <1>3, <1>4, <1>5

\* More of a capped count never scores less.
LEMMA CappedGrows ==
  ASSUME NEW a \in Nat, NEW b \in Nat, a <= b, NEW cap \in Nat, NEW points \in Nat
  PROVE  /\ Capped(a, cap, points) \in Nat /\ Capped(b, cap, points) \in Nat
         /\ Capped(a, cap, points) <= Capped(b, cap, points)
<1>1. /\ Lesser(a, cap) \in Nat /\ Lesser(b, cap) \in Nat
      /\ Lesser(a, cap) <= Lesser(b, cap)
  BY DEF Lesser
<1>2. Lesser(a, cap) * points <= Lesser(b, cap) * points BY <1>1, ProductMonotone
<1> QED BY <1>1, <1>2 DEF Capped

\* The trust sum of any counts fits its sixteen bits.
Fits16(n) == n \in Nat /\ n < 65536

LEMMA TrustFits ==
  ASSUME CodeScale
  PROVE  \A s, f, a, d \in Nat : Fits16(TrustSum(s, f, a, d))
<1>1. BpsScale = 10000 BY DEF CodeScale
<1> SUFFICES ASSUME NEW s \in Nat, NEW f \in Nat, NEW a \in Nat, NEW d \in Nat
             PROVE  Fits16(TrustSum(s, f, a, d))
  OBVIOUS
<1> QED BY <1>1, TrustNeverWraps DEF Fits16

\* So the trust is not lower, for as many or more counted events.
LEMMA TrustGrows ==
  ASSUME CodeScale, NEW s \in Nat, NEW f \in Nat, NEW a \in Nat, NEW b \in Nat,
         NEW d \in Nat, NEW e \in Nat, a <= b, d <= e, Unsaturated(s + f + 1)
  PROVE  TrustScore(s, f, a, d) <= TrustScore(s + 1, f, b, e)
<1> DEFINE r == SuccessBps(s, s + f)
           q == SuccessBps(s + 1, s + f + 1)
           h == r \div 2
           g == q \div 2
           x == Capped(a, 25, 120)
           y == Capped(b, 25, 120)
           u == Capped(d, 25, 80)
           v == Capped(e, 25, 80)
           t == TrustSum(s, f, a, d)
           z == TrustSum(s + 1, f, b, e)
<1>1. r \in Nat /\ q \in Nat /\ r <= q /\ s + f + 1 <= U64Max BY RatioGrows
<1>2. SaturatingAdd(s, f) = s + f /\ SaturatingAdd(s + 1, f) = s + f + 1
  BY <1>1, NumbersAssumption DEF SaturatingAdd, Lesser
<1>3. t = h + x + u /\ z = g + y + v BY <1>2 DEF TrustSum
<1> HIDE DEF r, q
<1>4. h \in Nat /\ g \in Nat /\ h <= g BY <1>1
<1>5. x \in Nat /\ y \in Nat /\ x <= y BY CappedGrows, 25 \in Nat, 120 \in Nat, Zenon
<1>6. u \in Nat /\ v \in Nat /\ u <= v BY CappedGrows, 25 \in Nat, 80 \in Nat, Zenon
<1>7. Fits16(t) BY TrustFits, Zenon
<1>8. Fits16(z) BY s + 1 \in Nat, TrustFits, Zenon
<1> HIDE DEF h, g, x, y, u, v
<1>10. t <= z BY <1>3, <1>4, <1>5, <1>6
<1>11. \A i \in Nat : i < 65536 => i % 65536 = i OBVIOUS
<1> HIDE DEF t, z
<1>12. Wrapped16(t) = t /\ Wrapped16(z) = z BY <1>7, <1>8, <1>11 DEF Wrapped16, Fits16
<1>13. Lesser(t, BpsScale) <= Lesser(z, BpsScale) BY <1>7, <1>8, <1>10, NumbersAssumption DEF Lesser, Fits16
<1> QED BY <1>12, <1>13 DEF TrustScore, t, z

\* What an event does to the reputation it is counted in.
OneMoreIf(n, success) == n + IF success THEN 1 ELSE 0
Followed(old, new, kind, success) ==
  /\ new \in ReputationAccount
  /\ new.success = OneMoreIf(old.success, success)
  /\ new.failure = OneMoreIf(old.failure, ~success)
  /\ \A k \in CountedKinds : new.events[k] = OneMoreIf(old.events[k], k = kind)
  /\ new.trust = TrustOf(new)

WrittenFor(w, kind, success) ==
  \E new : /\ Followed(reputation[w], new, kind, success)
          /\ reputation' = [reputation EXCEPT ![w] = new]

\* An event writes such a successor.
LEMMA EventWritten ==
  ASSUME AccountsInv, NEW w \in Wallets, NEW kind, NEW success \in BOOLEAN,
         NEW points \in Rewards, NEW quality \in Qualities,
         UpdateReputation(w, kind, success, points, quality)
  PROVE  WrittenFor(w, kind, success)
<1> DEFINE rep == reputation[w]
           new == Scored(WithEvent(rep, kind, success, points), quality)
<1>0. /\ config \in ConfigAccount /\ profile \in [Wallets -> AgentProfile]
      /\ profile[w] \in AgentProfile /\ reputation \in [Wallets -> ReputationAccount]
      /\ rep \in ReputationAccount /\ points \in Nat /\ quality \in Nat
  BY OnchainAssumption, NumbersAssumption DEF AccountsInv, AccountsType, U64
<1>1. reputation' = [reputation EXCEPT ![w] = new] BY DEF UpdateReputation
<1> HIDE DEF new
<1>2. /\ new \in ReputationAccount
      /\ new.usage = rep.usage + 1
      /\ new.success = rep.success + IF success THEN 1 ELSE 0
      /\ new.failure = rep.failure + IF success THEN 0 ELSE 1
      /\ \A k \in CountedKinds : new.events[k] = rep.events[k] + IF k = kind THEN 1 ELSE 0
      /\ new.trust = TrustOf(new)
 <2> HIDE DEF rep
 <2> QED BY <1>0, EventScored DEF new
<1>3. Followed(rep, new, kind, success) BY <1>2 DEF Followed, OneMoreIf
<1> HIDE DEF rep
<1> QED BY <1>1, <1>3, Zenon DEF rep, WrittenFor

\* An event that adds a success to a wallet does not lower its trust.
LEMMA SuccessEvent ==
  ASSUME CodeScale, Unsaturated(MaxEvents), AccountsInv, NEW w \in Wallets, NEW kind,
         NEW success \in BOOLEAN, NEW points \in Rewards, NEW quality \in Qualities,
         UpdateReputation(w, kind, success, points, quality),
         reputation'[w].success > reputation[w].success
  PROVE  reputation'[w].trust >= reputation[w].trust
<1> DEFINE rep == reputation[w]
<1>1. reputation \in [Wallets -> ReputationAccount] /\ rep \in ReputationAccount BY DEF AccountsInv, AccountsType
<1>2. rep.usage < MaxEvents BY DEF UpdateReputation
<1>21. WrittenFor(w, kind, success) BY EventWritten
<1>22. PICK n : /\ Followed(rep, n, kind, success)
               /\ reputation' = [reputation EXCEPT ![w] = n]
  BY <1>21 DEF WrittenFor
<1>3. /\ n \in ReputationAccount
      /\ n.success = rep.success + IF success THEN 1 ELSE 0
      /\ n.failure = rep.failure + IF success THEN 0 ELSE 1
      /\ \A k \in CountedKinds : n.events[k] \in Nat /\ n.events[k] >= rep.events[k]
      /\ n.trust = TrustOf(n)
 <2>1. n \in ReputationAccount /\ n.trust = TrustOf(n) BY <1>22 DEF Followed
 <2>2. /\ n.success = rep.success + IF success THEN 1 ELSE 0
       /\ n.failure = rep.failure + IF success THEN 0 ELSE 1
   BY <1>22 DEF Followed, OneMoreIf
 <2>3. ASSUME NEW k \in CountedKinds PROVE n.events[k] \in Nat /\ n.events[k] >= rep.events[k]
  <3>1. n.events[k] = rep.events[k] \/ n.events[k] = rep.events[k] + 1
   <4>1. n.events[k] = OneMoreIf(rep.events[k], k = kind) BY <1>22 DEF Followed
   <4>2. CASE k = kind BY <4>1, <4>2 DEF OneMoreIf
   <4>3. CASE k # kind
    <5>1. OneMoreIf(rep.events[k], k = kind) = rep.events[k] + 0 BY <4>3 DEF OneMoreIf
    <5>2. rep.events[k] \in Nat BY <1>1 DEF ReputationAccount
    <5> QED BY <4>1, <5>1, <5>2
   <4> QED BY <4>2, <4>3
  <3>2. rep.events[k] \in Nat BY <1>1 DEF ReputationAccount
  <3> HIDE DEF rep
  <3> QED BY <3>1, <3>2
 <2> QED BY <2>1, <2>2, <2>3
<1>4. reputation'[w] = n BY <1>1, <1>22
<1>5. rep = reputation[w] OBVIOUS
<1> HIDE DEF rep
<1>6. rep.success \in Nat /\ rep.failure \in Nat /\ rep.usage \in Nat
      /\ rep.events \in [CountedKinds -> Nat] /\ rep.trust \in Nat
  BY <1>1 DEF ReputationAccount
<1>7. n.success > rep.success BY <1>4, <1>5
<1>8. n.success = rep.success + 1 /\ n.failure = rep.failure
 <2>1. CASE success BY <1>3, <1>6, <2>1
 <2>2. CASE ~success BY <1>3, <1>6, <1>7, <2>2
 <2> QED BY <2>1, <2>2
<1>9. rep.usage = rep.success + rep.failure /\ rep.trust = TrustOf(rep) /\ rep.usage < MaxEvents
  BY <1>2, <1>5 DEF AccountsInv, ReputationAddsUp, TrustIsCurrent
<1> DEFINE s == rep.success
           f == rep.failure
           a == rep.events["verified_authorship"]
           b == n.events["verified_authorship"]
           d == rep.events["deployment"]
           e == n.events["deployment"]
           m == s + f + 1
<1>10. Unsaturated(m)
 <2>1. m \in Nat /\ m <= MaxEvents /\ MaxEvents \in Nat BY <1>6, <1>9, OnchainAssumption
 <2> HIDE DEF m
 <2>2. m * BpsScale <= MaxEvents * BpsScale BY <2>1, NumbersAssumption, ProductMonotone
 <2>3. m * BpsScale \in Nat /\ MaxEvents * BpsScale \in Nat /\ U64Max \in Nat BY <2>1, NumbersAssumption
 <2> QED BY <2>2, <2>3 DEF Unsaturated
<1>11. a \in Nat /\ b \in Nat /\ a <= b /\ d \in Nat /\ e \in Nat /\ d <= e
 <2>1. "verified_authorship" \in CountedKinds /\ "deployment" \in CountedKinds BY DEF CountedKinds
 <2> QED BY <1>3, <1>6, <2>1
<1>12. TrustOf(rep) = TrustScore(s, f, a, d) /\ TrustOf(n) = TrustScore(s + 1, f, b, e) BY <1>8 DEF TrustOf
<1>13. s \in Nat /\ f \in Nat BY <1>6
<1> HIDE DEF s, f, a, b, d, e
<1>14. TrustScore(s, f, a, d) <= TrustScore(s + 1, f, b, e) BY <1>10, <1>11, <1>13, TrustGrows
<1>15. n.trust >= rep.trust BY <1>3, <1>9, <1>12, <1>14
<1> QED BY <1>4, <1>5, <1>15

\* No other instruction writes a reputation.
LEMMA ReputationWritten ==
  ASSUME [Next]_vars
  PROVE  \/ reputation' = reputation
         \/ \E v \in Wallets, kind \in EventKinds, success \in BOOLEAN, points \in Rewards,
               quality \in Qualities : UpdateReputation(v, kind, success, points, quality)
<1>1. CASE UNCHANGED vars BY <1>1 DEF vars
<1>2. CASE Next
 <2>1. ASSUME NEW quota, InitializeConfig(quota) PROVE reputation' = reputation BY <2>1 DEF InitializeConfig
 <2>2. ASSUME NEW paused, NEW quota, UpdateConfig(paused, quota) PROVE reputation' = reputation
   BY <2>2 DEF UpdateConfig
 <2>3. ASSUME NEW u, CreateProfile(u) PROVE reputation' = reputation BY <2>3 DEF CreateProfile
 <2>4. ASSUME NEW u, NEW points, NEW verified, UpdateProfile(u, points, verified)
       PROVE  reputation' = reputation
   BY <2>4 DEF UpdateProfile
 <2>5. ASSUME NEW u, NEW kind, NEW id, NEW detail, Record(u, kind, id, detail)
       PROVE  reputation' = reputation
   BY <2>5 DEF Record
 <2>6. ASSUME NEW k, PublishSkill(k) PROVE reputation' = reputation BY <2>6 DEF PublishSkill
 <2>7. ASSUME NEW k, NEW u, CreateSkillVersion(k, u) PROVE reputation' = reputation BY <2>7 DEF CreateSkillVersion
 <2>8. ASSUME NEW k, NEW u, ActivateSkillVersion(k, u) PROVE reputation' = reputation BY <2>8 DEF ActivateSkillVersion
 <2>9. ASSUME NEW k, RefreshDiscovery(k) PROVE reputation' = reputation BY <2>9 DEF RefreshDiscovery
 <2> QED
   BY <1>2, <2>1, <2>2, <2>3, <2>4, <2>5, <2>6, <2>7, <2>8, <2>9, Zenon
   DEF Next, AnchorMemory, RecordPlannerRun, RecordDeployment
<1> QED BY <1>1, <1>2

\* Only an event of the same wallet can add to its successes.
LEMMA SuccessStep ==
  ASSUME CodeScale, Unsaturated(MaxEvents), AccountsInv, [Next]_vars,
         NEW w \in Wallets, reputation'[w].success > reputation[w].success
  PROVE  reputation'[w].trust >= reputation[w].trust
<1>0. reputation[w].success \in Nat /\ reputation \in [Wallets -> ReputationAccount]
  BY DEF AccountsInv, AccountsType, ReputationAccount
<1>1. reputation'[w] # reputation[w] BY <1>0
<1>2. PICK v \in Wallets, kind \in EventKinds, success \in BOOLEAN, points \in Rewards,
           quality \in Qualities : UpdateReputation(v, kind, success, points, quality)
  BY <1>1, ReputationWritten
<1>3. v = w
 <2>1. PICK n : reputation' = [reputation EXCEPT ![v] = n] BY <1>2 DEF UpdateReputation
 <2> QED BY <1>0, <1>1, <2>1
<1>4. UpdateReputation(w, kind, success, points, quality) BY <1>2, <1>3
<1> QED BY <1>4, SuccessEvent

\* With the code's scale, and for as many events as keep the product from
\* saturating, a success never lowers a wallet's trust.
THEOREM SuccessHurtsNobody ==
  ASSUME BpsScale = 10000, MaxEvents * BpsScale <= U64Max
  PROVE  Spec => SuccessNeverHurts
<1>1. SkillInv /\ AccountsInv /\ [Next]_vars
        => [\A w \in Wallets : reputation'[w].success > reputation[w].success =>
              reputation'[w].trust >= reputation[w].trust]_vars
  BY SuccessStep DEF CodeScale, Unsaturated
<1> QED BY <1>1, InitSkills, StepSkills, InitAccounts, StepAccounts, PTL DEF Spec, SuccessNeverHurts

----
\* claw_machine.

MachineInv ==
  /\ MachineTypeOK
  /\ RegistryCounts
  /\ CurrentVersionPublished
  /\ StatusRestsOnEvidence

CounterKinds == {"skill"} \cup ReceiptKinds

\* The addresses of the accounts that the counter of a kind counts.
MadeOf(k) == IF k = "skill" THEN SkillsMade ELSE ReceiptsMade(k)

\* There are finitely many accounts of each kind.
LEMMA MadeFinite == \A k : IsFiniteSet(MadeOf(k)) /\ Cardinality(MadeOf(k)) \in Nat
<1>1. IsFiniteSet(Addresses) BY CountAssumption, FS_Product DEF Addresses
<1>2. ASSUME NEW k PROVE MadeOf(k) \subseteq Addresses BY DEF MadeOf, SkillsMade, ReceiptsMade
<1> QED BY <1>1, <1>2, FS_Subset, FS_CardinalityType

\* A registry that exists has a counter for each kind.
LEMMA RegistryShape ==
  ASSUME MachineTypeOK, registry # NoRegistry
  PROVE  registry \in [CounterKinds -> 0..CountMax]
<1>1. CounterKinds = {"skill", "plan", "memory", "proof"} BY DEF CounterKinds, ReceiptKinds
<1> QED BY <1>1 DEF MachineTypeOK, Registry

\* Saturating at the same limit, the counter follows the accounts.
LEMMA CountedUpFollows ==
  ASSUME NEW c \in Nat, NEW n, n = IF c > CountMax THEN CountMax ELSE c
  PROVE  /\ CountedUp(n) = IF c + 1 > CountMax THEN CountMax ELSE c + 1
         /\ CountedUp(n) \in 0..CountMax
<1>1. CountMax \in Nat BY CountAssumption
<1> QED BY <1>1 DEF CountedUp

\* An instruction that makes one account of kind k at a fresh address
\* counts it, and leaves the other kinds alone.
LEMMA NewAccountCounted ==
  ASSUME MachineTypeOK, RegistryCounts, NEW k \in CounterKinds, NEW x,
         Counts(k), x \notin MadeOf(k), MadeOf(k)' = MadeOf(k) \cup {x},
         \A j \in CounterKinds : j # k => MadeOf(j)' = MadeOf(j)
  PROVE  RegistryCounts' /\ registry' \in Registry
<1> DEFINE c(j) == Cardinality(MadeOf(j))
<1>1. registry # NoRegistry /\ registry \in [CounterKinds -> 0..CountMax] BY RegistryShape DEF Counts
<1>2. \A j \in CounterKinds : registry[j] = IF c(j) > CountMax THEN CountMax ELSE c(j)
  BY <1>1 DEF RegistryCounts, NumberOf, MadeOf, CounterKinds
<1>3. c(k) \in Nat BY MadeFinite
<1>4. Cardinality(MadeOf(k)') = c(k) + 1 BY MadeFinite, FS_AddElement
<1>5. registry' = [registry EXCEPT ![k] = CountedUp(registry[k])] BY DEF Counts
<1>6. /\ CountedUp(registry[k]) = IF c(k) + 1 > CountMax THEN CountMax ELSE c(k) + 1
      /\ CountedUp(registry[k]) \in 0..CountMax
 <2> HIDE DEF c
 <2>1. registry[k] = IF c(k) > CountMax THEN CountMax ELSE c(k) BY <1>2
 <2> QED BY <1>3, <2>1, CountedUpFollows
<1>7. registry' \in [CounterKinds -> 0..CountMax] BY <1>1, <1>5, <1>6
<1>8. registry' \in Registry BY <1>7 DEF CounterKinds, ReceiptKinds, Registry
<1>9. registry' # NoRegistry BY <1>7 DEF NoRegistry, CounterKinds
<1>10. ASSUME NEW j \in CounterKinds
       PROVE  registry'[j] = IF Cardinality(MadeOf(j)') > CountMax THEN CountMax
                             ELSE Cardinality(MadeOf(j)')
 <2>1. CASE j = k BY <1>1, <1>4, <1>5, <1>6, <2>1
 <2>2. CASE j # k
  <3>1. registry'[j] = registry[j] BY <1>1, <1>5, <2>2
  <3>2. MadeOf(j)' = MadeOf(j) BY <2>2
  <3> QED BY <1>2, <3>1, <3>2
 <2> QED BY <2>1, <2>2
<1>11. \A j \in CounterKinds : NumberOf(j)' = Cardinality(MadeOf(j)') BY DEF NumberOf, MadeOf
<1>12. RegistryCounts' BY <1>9, <1>10, <1>11 DEF RegistryCounts, CounterKinds
<1> QED BY <1>8, <1>12

\* No account, no count.
LEMMA InitMachine == MachineInit => MachineInv
<1> SUFFICES ASSUME MachineInit PROVE MachineInv OBVIOUS
<1>1. MachineTypeOK
 <2>1. skills \in [Addresses -> 0..NoMachineSkill] BY CountAssumption DEF MachineInit, NoMachineSkill
 <2>2. skillVersions \in [Addresses -> SUBSET VersionAddresses] BY DEF MachineInit
 <2>3. machineReceipts \in [ReceiptKinds -> [Addresses -> MachineReceipt]] BY DEF MachineInit, MachineReceipt
 <2> QED BY <2>1, <2>2, <2>3 DEF MachineInit, MachineTypeOK
<1>2. RegistryCounts
 <2>1. ASSUME NEW k \in CounterKinds PROVE MadeOf(k) = {}
   BY <2>1 DEF MachineInit, MadeOf, SkillsMade, ReceiptsMade, CounterKinds
 <2>2. \A k \in CounterKinds : NumberOf(k) = 0 BY <2>1, FS_EmptySet DEF NumberOf, MadeOf
 <2> QED BY <2>2 DEF MachineInit, RegistryCounts, CounterKinds
<1>3. CurrentVersionPublished BY DEF MachineInit, CurrentVersionPublished
<1>4. StatusRestsOnEvidence BY DEF MachineInit, StatusRestsOnEvidence, ReceiptKinds, NoMachineReceipt
<1> QED BY <1>1, <1>2, <1>3, <1>4 DEF MachineInv

\* One lemma for each instruction: initialize_registry,
LEMMA RegistryMade == MachineInv /\ InitializeRegistry => MachineInv'
<1> SUFFICES ASSUME MachineInv, InitializeRegistry PROVE MachineInv' OBVIOUS
<1>1. /\ registry = NoRegistry
      /\ registry' = [k \in {"skill", "plan", "memory", "proof"} |-> 0]
      /\ UNCHANGED <<skills, skillVersions, machineReceipts>>
  BY DEF InitializeRegistry
<1>2. CounterKinds = {"skill", "plan", "memory", "proof"} /\ CountMax \in Nat
  BY CountAssumption DEF CounterKinds, ReceiptKinds
<1>3. MachineTypeOK'
 <2>1. registry' \in Registry BY <1>1, <1>2 DEF Registry
 <2> QED BY <1>1, <2>1 DEF MachineInv, MachineTypeOK
<1>4. \A k \in CounterKinds : NumberOf(k)' = NumberOf(k) BY <1>1 DEF NumberOf, SkillsMade, ReceiptsMade
<1>5. \A k \in CounterKinds : NumberOf(k) = 0 BY <1>1 DEF MachineInv, RegistryCounts, CounterKinds
<1>6. RegistryCounts' BY <1>1, <1>2, <1>4, <1>5 DEF RegistryCounts, CounterKinds
<1>7. CurrentVersionPublished' /\ StatusRestsOnEvidence'
  BY <1>1 DEF MachineInv, CurrentVersionPublished, StatusRestsOnEvidence
<1> QED BY <1>3, <1>6, <1>7 DEF MachineInv

\* create_skill,
LEMMA SkillMade == ASSUME MachineInv, NEW x \in Addresses, CreateSkill(x) PROVE MachineInv'
<1>1. /\ skills[x] = NoMachineSkill /\ skills' = [skills EXCEPT ![x] = 0]
      /\ Counts("skill") /\ UNCHANGED <<skillVersions, machineReceipts>>
  BY DEF CreateSkill
<1>2. skills \in [Addresses -> 0..NoMachineSkill] /\ MaxSkillVersion \in Nat
  BY CountAssumption DEF MachineInv, MachineTypeOK
<1>3. /\ skills' \in [Addresses -> 0..NoMachineSkill] /\ skills'[x] = 0 /\ 0 # NoMachineSkill
      /\ \A y \in Addresses : y # x => skills'[y] = skills[y]
  BY <1>1, <1>2 DEF NoMachineSkill
<1>4. x \notin SkillsMade /\ SkillsMade' = SkillsMade \cup {x} BY <1>1, <1>3 DEF SkillsMade
<1>5. \A k \in CounterKinds : k # "skill" => MadeOf(k)' = MadeOf(k) BY <1>1 DEF MadeOf, ReceiptsMade
<1>6. x \notin MadeOf("skill") /\ MadeOf("skill")' = MadeOf("skill") \cup {x}
      /\ "skill" \in CounterKinds
  BY <1>4 DEF MadeOf, CounterKinds
<1>7. RegistryCounts' /\ registry' \in Registry BY <1>1, <1>5, <1>6, NewAccountCounted DEF MachineInv
<1>8. MachineTypeOK' BY <1>1, <1>3, <1>7 DEF MachineInv, MachineTypeOK
<1>9. CurrentVersionPublished' BY <1>1, <1>3 DEF MachineInv, CurrentVersionPublished
<1>10. StatusRestsOnEvidence' BY <1>1 DEF MachineInv, StatusRestsOnEvidence
<1> QED BY <1>7, <1>8, <1>9, <1>10 DEF MachineInv

\* publish_skill_version,
LEMMA VersionPublished ==
  ASSUME MachineInv, NEW x \in Addresses, NEW front \in Fronts, NEW n \in 0..MaxSkillVersion,
         PublishSkillVersion(x, front, n)
  PROVE  MachineInv'
<1> DEFINE v == <<front, n>>
           made == skillVersions[x] \cup {v}
<1>1. /\ v \in VersionAddresses /\ skills[x] # NoMachineSkill
      /\ skillVersions' = [skillVersions EXCEPT ![x] = made]
      /\ skills' = [skills EXCEPT ![x] = n]
      /\ UNCHANGED <<registry, machineReceipts>>
  BY DEF PublishSkillVersion, CurrentVersion
<1>2. /\ skills \in [Addresses -> 0..NoMachineSkill] /\ MaxSkillVersion \in Nat
      /\ skillVersions \in [Addresses -> SUBSET VersionAddresses]
  BY CountAssumption DEF MachineInv, MachineTypeOK
<1>3. /\ skills' \in [Addresses -> 0..NoMachineSkill] /\ skills'[x] = n
      /\ n # 0 /\ n # NoMachineSkill
      /\ \A y \in Addresses : y # x => skills'[y] = skills[y]
  BY <1>1, <1>2 DEF NoMachineSkill, VersionAddresses
<1>4. v[2] = n /\ v \in made /\ made \in SUBSET VersionAddresses BY <1>1, <1>2
<1> HIDE DEF made, v
<1>5. /\ skillVersions' \in [Addresses -> SUBSET VersionAddresses] /\ skillVersions'[x] = made
      /\ \A y \in Addresses : y # x => skillVersions'[y] = skillVersions[y]
  BY <1>1, <1>2, <1>4
<1>6. MachineTypeOK' BY <1>1, <1>3, <1>5 DEF MachineInv, MachineTypeOK
<1>7. SkillsMade' = SkillsMade BY <1>1, <1>3 DEF SkillsMade
<1>8. \A k \in CounterKinds : NumberOf(k)' = NumberOf(k) BY <1>1, <1>7 DEF NumberOf, ReceiptsMade
<1>9. RegistryCounts' BY <1>1, <1>8 DEF MachineInv, RegistryCounts, CounterKinds
<1>10. CurrentVersionPublished'
 <2> DEFINE P(y) == {a[2] : a \in skillVersions[y]}
            Good(y) == IF skills[y] \in {0, NoMachineSkill} THEN P(y) = {}
                       ELSE skills[y] \in P(y)
 <2>1. \A y \in Addresses : Good(y) BY DEF MachineInv, CurrentVersionPublished
 <2>2. ASSUME NEW y \in Addresses PROVE Good(y)'
  <3>1. CASE y = x
   <4>1. n \in {a[2] : a \in made} BY <1>4
   <4> QED BY <1>3, <1>5, <3>1, <4>1
  <3>2. CASE y # x BY <1>3, <1>5, <2>1, <3>2, ZenonT(20)
  <3> QED BY <3>1, <3>2
 <2> QED BY <2>2 DEF CurrentVersionPublished
<1>11. StatusRestsOnEvidence' BY <1>1 DEF MachineInv, StatusRestsOnEvidence
<1> QED BY <1>6, <1>9, <1>10, <1>11 DEF MachineInv

\* A step that gives the receipt of kind k at x the value r.
LEMMA ReceiptSet ==
  ASSUME MachineTypeOK, NEW k \in ReceiptKinds, NEW x \in Addresses, NEW r \in MachineReceipt,
         machineReceipts' = [machineReceipts EXCEPT ![k][x] = r]
  PROVE  /\ machineReceipts' \in [ReceiptKinds -> [Addresses -> MachineReceipt]]
         /\ machineReceipts'[k][x] = r
         /\ \A j \in ReceiptKinds, y \in Addresses :
              j # k \/ y # x => machineReceipts'[j][y] = machineReceipts[j][y]
<1> DEFINE f == [machineReceipts[k] EXCEPT ![x] = r]
<1>1. machineReceipts \in [ReceiptKinds -> [Addresses -> MachineReceipt]] BY DEF MachineTypeOK
<1>2. machineReceipts' = [machineReceipts EXCEPT ![k] = f] OBVIOUS
<1>3. /\ f \in [Addresses -> MachineReceipt] /\ f[x] = r
      /\ \A y \in Addresses : y # x => f[y] = machineReceipts[k][y]
  BY <1>1
<1> HIDE DEF f
<1> QED BY <1>1, <1>2, <1>3

\* What the evidence of a receipt must be for its kind.
Evidence(k, r) ==
  /\ k = "memory" => (r.settled <=> r.status = "Linked")
  /\ k = "proof" => (r.settled <=> r.status = "Verified")
  /\ k = "plan" => (r.status \notin {"None", "Pending"} => r.settled)

\* The evidence of a status, kind by kind.
LEMMA EvidenceSplit ==
  StatusRestsOnEvidence <=>
    \A k \in ReceiptKinds, x \in Addresses : Evidence(k, machineReceipts[k][x])
  BY DEF StatusRestsOnEvidence, Evidence, ReceiptKinds

\* And after a step.
LEMMA EvidenceSplitNext ==
  StatusRestsOnEvidence' <=>
    \A k \in ReceiptKinds, x \in Addresses : Evidence(k, machineReceipts'[k][x])
  BY DEF StatusRestsOnEvidence, Evidence, ReceiptKinds

\* The three instructions that create a receipt,
LEMMA ReceiptMade ==
  ASSUME MachineInv, NEW k \in ReceiptKinds, NEW x \in Addresses, CreateReceipt(k, x)
  PROVE  MachineInv'
<1> DEFINE r == [status |-> "Pending", settled |-> FALSE]
<1>1. /\ machineReceipts[k][x] = NoMachineReceipt /\ Counts(k)
      /\ machineReceipts' = [machineReceipts EXCEPT ![k][x] = r]
      /\ UNCHANGED <<skills, skillVersions>>
  BY DEF CreateReceipt, Uninitialized
<1>2. r \in MachineReceipt /\ r # NoMachineReceipt /\ Evidence(k, r)
  BY DEF MachineReceipt, NoMachineReceipt, ReceiptStatus, Evidence
<1> HIDE DEF r
<1>3. /\ machineReceipts' \in [ReceiptKinds -> [Addresses -> MachineReceipt]]
      /\ machineReceipts'[k][x] = r
      /\ \A j \in ReceiptKinds, y \in Addresses :
           j # k \/ y # x => machineReceipts'[j][y] = machineReceipts[j][y]
  BY <1>1, <1>2, ReceiptSet, ZenonT(20) DEF MachineInv
<1>4. /\ x \notin ReceiptsMade(k) /\ ReceiptsMade(k)' = ReceiptsMade(k) \cup {x}
      /\ \A j \in ReceiptKinds : j # k => ReceiptsMade(j)' = ReceiptsMade(j)
  BY <1>1, <1>2, <1>3 DEF ReceiptsMade
<1>5. /\ x \notin MadeOf(k) /\ MadeOf(k)' = MadeOf(k) \cup {x} /\ k \in CounterKinds
      /\ \A j \in CounterKinds : j # k => MadeOf(j)' = MadeOf(j)
 <2>1. k # "skill" BY DEF ReceiptKinds
 <2>2. SkillsMade' = SkillsMade BY <1>1 DEF SkillsMade
 <2> QED BY <1>4, <2>1, <2>2 DEF MadeOf, CounterKinds
<1>6. RegistryCounts' /\ registry' \in Registry BY <1>1, <1>5, NewAccountCounted DEF MachineInv
<1>7. MachineTypeOK' BY <1>1, <1>3, <1>6 DEF MachineInv, MachineTypeOK
<1>8. CurrentVersionPublished' BY <1>1 DEF MachineInv, CurrentVersionPublished
<1>9. StatusRestsOnEvidence' BY <1>2, <1>3, EvidenceSplit, EvidenceSplitNext DEF MachineInv
<1> QED BY <1>6, <1>7, <1>8, <1>9 DEF MachineInv

\* and the three that settle one.
LEMMA ReceiptSettled ==
  ASSUME MachineInv, NEW k \in ReceiptKinds, NEW x \in Addresses, NEW status \in ReceiptStatus,
         Settle(k, x, status),
         (k = "memory" => status = "Linked") /\ (k = "proof" => status = "Verified")
  PROVE  MachineInv'
<1> DEFINE r == [status |-> status, settled |-> TRUE]
<1>1. /\ machineReceipts[k][x] # NoMachineReceipt
      /\ machineReceipts' = [machineReceipts EXCEPT ![k][x] = r]
      /\ UNCHANGED <<registry, skills, skillVersions>>
  BY DEF Settle
<1>2. r \in MachineReceipt /\ r # NoMachineReceipt /\ Evidence(k, r)
  BY DEF MachineReceipt, NoMachineReceipt, ReceiptStatus, Evidence
<1> HIDE DEF r
<1>3. /\ machineReceipts' \in [ReceiptKinds -> [Addresses -> MachineReceipt]]
      /\ machineReceipts'[k][x] = r
      /\ \A j \in ReceiptKinds, y \in Addresses :
           j # k \/ y # x => machineReceipts'[j][y] = machineReceipts[j][y]
  BY <1>1, <1>2, ReceiptSet, ZenonT(20) DEF MachineInv
<1>4. \A j \in ReceiptKinds : ReceiptsMade(j)' = ReceiptsMade(j) BY <1>1, <1>2, <1>3 DEF ReceiptsMade
<1>5. \A j \in CounterKinds : NumberOf(j)' = NumberOf(j)
 <2>1. SkillsMade' = SkillsMade BY <1>1 DEF SkillsMade
 <2> QED BY <1>4, <2>1 DEF NumberOf, CounterKinds
<1>6. RegistryCounts' BY <1>1, <1>5 DEF MachineInv, RegistryCounts, CounterKinds
<1>7. MachineTypeOK' BY <1>1, <1>3 DEF MachineInv, MachineTypeOK
<1>8. CurrentVersionPublished' BY <1>1 DEF MachineInv, CurrentVersionPublished
<1>9. StatusRestsOnEvidence' BY <1>2, <1>3, EvidenceSplit, EvidenceSplitNext DEF MachineInv
<1> QED BY <1>6, <1>7, <1>8, <1>9 DEF MachineInv

\* Every instruction of claw_machine keeps its invariant.
LEMMA StepMachine == MachineInv /\ [MachineNext]_machineVars => MachineInv'
<1> SUFFICES ASSUME MachineInv, [MachineNext]_machineVars PROVE MachineInv' OBVIOUS
<1>1. CASE UNCHANGED machineVars
 <2>1. UNCHANGED <<registry, skills, skillVersions, machineReceipts>> BY <1>1 DEF machineVars
 <2>2. MachineTypeOK' /\ CurrentVersionPublished' /\ StatusRestsOnEvidence'
   BY <2>1 DEF MachineInv, MachineTypeOK, CurrentVersionPublished, StatusRestsOnEvidence
 <2>3. \A k \in CounterKinds : NumberOf(k)' = NumberOf(k) BY <2>1 DEF NumberOf, SkillsMade, ReceiptsMade
 <2>4. RegistryCounts' BY <2>1, <2>3 DEF MachineInv, RegistryCounts, CounterKinds
 <2> QED BY <2>2, <2>4 DEF MachineInv
<1>2. ASSUME NEW x \in Addresses, CreatePlanReceipt(x) \/ CreateMemoryReceipt(x) \/ CreateProofReceipt(x)
      PROVE  MachineInv'
  BY <1>2, ReceiptMade
  DEF CreatePlanReceipt, CreateMemoryReceipt, CreateProofReceipt, ReceiptKinds
<1>3. ASSUME NEW x \in Addresses, NEW status \in ReceiptStatus, CompletePlanReceipt(x, status)
      PROVE  MachineInv'
 <2>1. "plan" \in ReceiptKinds /\ "plan" # "memory" /\ "plan" # "proof" BY DEF ReceiptKinds
 <2> QED BY <1>3, <2>1, ReceiptSettled DEF CompletePlanReceipt
<1>4. ASSUME NEW x \in Addresses, LinkMemoryToNextTurn(x) PROVE MachineInv'
 <2>1. "memory" \in ReceiptKinds /\ "memory" # "proof" /\ "Linked" \in ReceiptStatus
   BY DEF ReceiptKinds, ReceiptStatus
 <2> QED BY <1>4, <2>1, ReceiptSettled DEF LinkMemoryToNextTurn
<1>5. ASSUME NEW x \in Addresses, VerifyProofReceipt(x) PROVE MachineInv'
 <2>1. "proof" \in ReceiptKinds /\ "memory" # "proof" /\ "Verified" \in ReceiptStatus
   BY DEF ReceiptKinds, ReceiptStatus
 <2> QED BY <1>5, <2>1, ReceiptSettled DEF VerifyProofReceipt
<1>6. CASE MachineNext
 <2> USE <1>6 DEF MachineNext
 <2>1. CASE InitializeRegistry BY <2>1, RegistryMade
 <2>2. CASE \E x \in Addresses : CreateSkill(x) BY <2>2, SkillMade
 <2>3. CASE \E x \in Addresses, front \in Fronts, n \in 0..MaxSkillVersion :
              PublishSkillVersion(x, front, n)
   BY <2>3, VersionPublished
 <2> QED BY <1>2, <1>3, <1>4, <1>5, <2>1, <2>2, <2>3
<1> QED BY <1>1, <1>6

\* Every account of claw_machine is counted once, and every status and
\* every current version rests on an account or a field that shows it.
THEOREM MachineHolds ==
  MachineSpec => [](MachineTypeOK /\ RegistryCounts /\ CurrentVersionPublished
                      /\ StatusRestsOnEvidence)
<1>1. MachineInv => MachineTypeOK /\ RegistryCounts /\ CurrentVersionPublished
                      /\ StatusRestsOnEvidence
  BY DEF MachineInv
<1> QED BY <1>1, InitMachine, StepMachine, PTL DEF MachineSpec

----
\* claw_nft.

NftTypeOK ==
  /\ collection \in CollectionConfig \cup {NftNone}
  /\ nftReceipts \in [NftMints -> NftReceipt \cup {NftNone}]
  /\ supply \in [NftMints -> 0..TokenMax]
  /\ before \in [NftMints -> 0..TokenMax]

NftInv == NftTypeOK /\ SupplyHeld /\ OneTokenEach

\* There are finitely many tokens.
LEMMA MintedFinite == IsFiniteSet(Minted) /\ Cardinality(Minted) \in Nat
<1>1. IsFiniteSet(NftMints) /\ Minted \subseteq NftMints BY SupplyAssumption DEF Minted
<1> QED BY <1>1, FS_Subset, FS_CardinalityType

\* Without a collection nothing is minted.
LEMMA InitNft == NftInit => NftInv
<1> SUFFICES ASSUME NftInit PROVE NftInv OBVIOUS
<1>1. Minted = {} BY DEF NftInit, Minted
<1>2. supply \in [NftMints -> 0..TokenMax] /\ supply = before BY SupplyAssumption DEF NftInit
<1>3. OneTokenEach BY <1>1, <1>2, SupplyAssumption DEF OneTokenEach
<1> QED BY <1>1, <1>2, <1>3 DEF NftInit, NftInv, NftTypeOK, SupplyHeld

\* A step that mints nothing keeps the tokens and their receipts.
LEMMA NothingMinted ==
  ASSUME NftInv, supply' = supply, before' = before,
         nftReceipts' \in [NftMints -> NftReceipt \cup {NftNone}],
         Minted' = Minted, collection' \in CollectionConfig,
         IF collection = NftNone THEN collection'.minted = 0
         ELSE collection'.minted = collection.minted /\ collection'.max = collection.max
  PROVE  NftInv'
<1>1. collection' # NftNone /\ collection'.max \in Nat BY SupplyAssumption DEF CollectionConfig
<1>2. NftTypeOK' BY DEF NftInv, NftTypeOK
<1>3. SupplyHeld'
 <2>1. CASE collection = NftNone BY <1>1, <2>1, FS_EmptySet DEF NftInv, SupplyHeld
 <2>2. CASE collection # NftNone BY <1>1, <2>2 DEF NftInv, SupplyHeld
 <2> QED BY <2>1, <2>2
<1>4. OneTokenEach' BY DEF NftInv, OneTokenEach
<1> QED BY <1>2, <1>3, <1>4 DEF NftInv

\* mint_nft adds one receipt, one token and one to the count.
LEMMA NftMade ==
  ASSUME NftInv, NEW w \in NftWallets, NEW owner \in NftWallets, NEW m \in NftMints,
         MintNft(w, owner, m), before' = before
  PROVE  NftInv'
<1> DEFINE r == [authority |-> w, owner |-> owner, signed |-> FALSE]
           c == [collection EXCEPT !.minted = @ + 1]
<1>1. /\ collection # NftNone /\ nftReceipts[m] = NftNone /\ collection.minted < collection.max
      /\ supply[m] < TokenMax /\ supply' = [supply EXCEPT ![m] = @ + 1]
      /\ nftReceipts' = [nftReceipts EXCEPT ![m] = r]
      /\ collection' = c
  BY DEF MintNft, Unminted, Mintable
<1>2. /\ collection \in CollectionConfig /\ supply \in [NftMints -> 0..TokenMax]
      /\ before \in [NftMints -> 0..TokenMax] /\ TokenMax \in Nat
      /\ nftReceipts \in [NftMints -> NftReceipt \cup {NftNone}]
  BY <1>1, SupplyAssumption DEF NftInv, NftTypeOK
<1>3. r \in NftReceipt /\ r # NftNone
 <2>1. r \in NftReceipt BY DEF NftReceipt
 <2> QED BY <2>1, SupplyAssumption
<1>4. /\ c \in CollectionConfig /\ c.minted = collection.minted + 1 /\ c.max = collection.max
      /\ collection.minted \in Nat /\ collection.max \in Nat
  BY <1>2, SupplyAssumption DEF CollectionConfig
<1>5. c # NftNone BY <1>4, SupplyAssumption
<1> HIDE DEF r, c
<1>6. /\ nftReceipts' \in [NftMints -> NftReceipt \cup {NftNone}] /\ nftReceipts'[m] = r
      /\ \A j \in NftMints : j # m => nftReceipts'[j] = nftReceipts[j]
  BY <1>1, <1>2, <1>3
<1>7. /\ supply' \in [NftMints -> 0..TokenMax] /\ supply'[m] = supply[m] + 1
      /\ \A j \in NftMints : j # m => supply'[j] = supply[j]
  BY <1>1, <1>2
<1>8. m \notin Minted /\ Minted' = Minted \cup {m} BY <1>1, <1>3, <1>6 DEF Minted
<1>9. Cardinality(Minted') = Cardinality(Minted) + 1 BY <1>8, MintedFinite, FS_AddElement
<1>10. SupplyHeld' BY <1>1, <1>4, <1>5, <1>9 DEF NftInv, SupplyHeld
<1>11. OneTokenEach' BY <1>2, <1>7, <1>8 DEF NftInv, OneTokenEach
<1>12. NftTypeOK' BY <1>1, <1>2, <1>4, <1>6, <1>7 DEF NftTypeOK
<1> QED BY <1>10, <1>11, <1>12 DEF NftInv

\* Every instruction of claw_nft keeps its invariant.
LEMMA StepNft == NftInv /\ [NftNext]_nftVars => NftInv'
<1> SUFFICES ASSUME NftInv, [NftNext]_nftVars PROVE NftInv' OBVIOUS
<1>0. nftReceipts \in [NftMints -> NftReceipt \cup {NftNone}] BY DEF NftInv, NftTypeOK
<1>1. ASSUME NEW w \in NftWallets, NEW max \in MaxSupplies, InitializeCollection(w, max),
             before' = before
      PROVE  NftInv'
 <2> DEFINE c == [authority |-> w, minted |-> 0, max |-> max, frozen |-> FALSE]
 <2>1. collection = NftNone /\ collection' = c /\ UNCHANGED <<nftReceipts, supply>> BY <1>1 DEF InitializeCollection
 <2>2. c \in CollectionConfig /\ c.minted = 0 BY DEF CollectionConfig
 <2> HIDE DEF c
 <2>3. Minted' = Minted BY <2>1 DEF Minted
 <2> QED BY <1>0, <1>1, <2>1, <2>2, <2>3, NothingMinted
<1>2. ASSUME NEW w \in NftWallets, FreezeCollection(w), before' = before PROVE NftInv'
 <2> DEFINE c == [collection EXCEPT !.frozen = TRUE]
 <2>1. collection # NftNone /\ collection' = c /\ UNCHANGED <<nftReceipts, supply>> BY <1>2 DEF FreezeCollection
 <2>2. collection \in CollectionConfig BY <2>1 DEF NftInv, NftTypeOK
 <2>3. c \in CollectionConfig /\ c.minted = collection.minted /\ c.max = collection.max BY <2>2 DEF CollectionConfig
 <2> HIDE DEF c
 <2>4. Minted' = Minted BY <2>1 DEF Minted
 <2> QED BY <1>0, <1>2, <2>1, <2>3, <2>4, NothingMinted
<1>3. ASSUME NEW w \in NftWallets, NEW m \in NftMints, RecordReceipt(w, m), before' = before PROVE NftInv'
 <2> DEFINE r == [nftReceipts[m] EXCEPT !.signed = TRUE]
 <2>1. /\ nftReceipts[m] # NftNone /\ UNCHANGED <<collection, supply>>
       /\ nftReceipts' = [nftReceipts EXCEPT ![m] = r]
   BY <1>3 DEF RecordReceipt
 <2>2. nftReceipts[m] \in NftReceipt BY <1>0, <2>1
 <2>3. r \in NftReceipt /\ r # NftNone BY <2>2, SupplyAssumption DEF NftReceipt
 <2> HIDE DEF r
 <2>4. /\ nftReceipts' \in [NftMints -> NftReceipt \cup {NftNone}] /\ nftReceipts'[m] = r
       /\ \A j \in NftMints : j # m => nftReceipts'[j] = nftReceipts[j]
   BY <1>0, <2>1, <2>3
 <2>5. Minted' = Minted BY <2>1, <2>3, <2>4 DEF Minted
 <2> QED BY <1>3, <2>1, <2>4, <2>5 DEF NftInv, NftTypeOK, SupplyHeld, OneTokenEach
<1>4. CASE UNCHANGED nftVars BY <1>4 DEF nftVars, NftInv, NftTypeOK, SupplyHeld, OneTokenEach, Minted
<1>5. CASE NftNext BY <1>1, <1>2, <1>3, <1>5, NftMade DEF NftNext
<1> QED BY <1>4, <1>5

\* The collection counts its receipts, within its supply, and every token the
\* program minted has one receipt, whatever its mint had before.
THEOREM CollectionHolds == NftSpec => [](SupplyHeld /\ OneTokenEach)
<1>1. NftInv => SupplyHeld /\ OneTokenEach BY DEF NftInv
<1> QED BY <1>1, InitNft, StepNft, PTL DEF NftSpec

----
\* What the records of claw_machine and claw_nft never lose.

\* No instruction writes a settled receipt anew.
LEMMA SettledStays ==
  ASSUME MachineInv, [MachineNext]_machineVars, NEW k \in ReceiptKinds, NEW x \in Addresses,
         machineReceipts[k][x].settled
  PROVE  machineReceipts'[k][x].settled
<1>1. machineReceipts \in [ReceiptKinds -> [Addresses -> MachineReceipt]] BY DEF MachineInv, MachineTypeOK
<1>2. machineReceipts[k][x] # NoMachineReceipt BY DEF NoMachineReceipt
<1>3. ASSUME NEW j \in ReceiptKinds, NEW y \in Addresses, CreateReceipt(j, y)
      PROVE  machineReceipts'[k][x].settled
 <2> DEFINE r == [status |-> "Pending", settled |-> FALSE]
 <2>1. machineReceipts[j][y] = NoMachineReceipt /\ machineReceipts' = [machineReceipts EXCEPT ![j][y] = r]
   BY <1>3 DEF CreateReceipt, Uninitialized
 <2> HIDE DEF r
 <2>2. machineReceipts'[k][x] = machineReceipts[k][x] BY <1>1, <1>2, <2>1
 <2> QED BY <2>2
<1>4. ASSUME NEW j \in ReceiptKinds, NEW y \in Addresses, NEW status, Settle(j, y, status)
      PROVE  machineReceipts'[k][x].settled
 <2> DEFINE r == [status |-> status, settled |-> TRUE]
 <2>1. machineReceipts' = [machineReceipts EXCEPT ![j][y] = r] /\ r.settled BY <1>4 DEF Settle
 <2> HIDE DEF r
 <2>2. machineReceipts'[k][x] = machineReceipts[k][x] \/ machineReceipts'[k][x] = r BY <1>1, <2>1
 <2> QED BY <2>1, <2>2
<1>5. ASSUME machineReceipts' = machineReceipts PROVE machineReceipts'[k][x].settled BY <1>5
<1>6. "plan" \in ReceiptKinds /\ "memory" \in ReceiptKinds /\ "proof" \in ReceiptKinds BY DEF ReceiptKinds
<1>7. ASSUME NEW y \in Addresses, CreateSkill(y) PROVE machineReceipts' = machineReceipts BY <1>7 DEF CreateSkill
<1>8. ASSUME NEW y, NEW seed, NEW n, PublishSkillVersion(y, seed, n)
      PROVE  machineReceipts' = machineReceipts
  BY <1>8 DEF PublishSkillVersion
<1>9. ASSUME InitializeRegistry PROVE machineReceipts' = machineReceipts BY <1>9 DEF InitializeRegistry
<1>10. CASE UNCHANGED machineVars BY <1>5, <1>10 DEF machineVars
<1>11. CASE MachineNext
  BY <1>3, <1>4, <1>5, <1>6, <1>7, <1>8, <1>9, <1>11, Zenon
  DEF MachineNext, CreatePlanReceipt, CreateMemoryReceipt, CreateProofReceipt,
      CompletePlanReceipt, LinkMemoryToNextTurn, VerifyProofReceipt
<1> QED BY <1>10, <1>11

\* What a receipt of claw_machine has received it keeps.
THEOREM EvidenceAlwaysStays == MachineSpec => EvidenceStays
<1>1. MachineInv /\ [MachineNext]_machineVars
        => [\A k \in ReceiptKinds, x \in Addresses :
              machineReceipts[k][x].settled => machineReceipts'[k][x].settled]_machineReceipts
  BY SettledStays
<1> QED BY <1>1, InitMachine, StepMachine, PTL DEF MachineSpec, EvidenceStays

\* No instruction changes a frozen collection, mints in it, or takes a
\* token or its signature from a receipt.
LEMMA CollectionKeeps ==
  ASSUME NftInv, [NftNext]_nftVars
  PROVE  /\ (collection # NftNone /\ collection.frozen) => collection' = collection /\ supply' = supply
         /\ \A m \in Minted : /\ nftReceipts'[m].owner = nftReceipts[m].owner
                              /\ nftReceipts[m].signed => nftReceipts'[m].signed
<1>0. nftReceipts \in [NftMints -> NftReceipt \cup {NftNone}]
      /\ collection \in CollectionConfig \cup {NftNone}
  BY DEF NftInv, NftTypeOK
<1> DEFINE Kept == \A m \in Minted : /\ nftReceipts'[m].owner = nftReceipts[m].owner
                                     /\ nftReceipts[m].signed => nftReceipts'[m].signed
           Frozen == (collection # NftNone /\ collection.frozen)
                       => collection' = collection /\ supply' = supply
<1>1. ASSUME nftReceipts' = nftReceipts PROVE Kept BY <1>1
<1>2. ASSUME NEW w, NEW max, InitializeCollection(w, max) PROVE Frozen /\ Kept BY <1>1, <1>2 DEF InitializeCollection
<1>3. ASSUME NEW w, NEW owner, NEW i \in NftMints, MintNft(w, owner, i) PROVE Frozen /\ Kept
 <2> DEFINE r == [authority |-> w, owner |-> owner, signed |-> FALSE]
 <2>1. ~collection.frozen /\ nftReceipts[i] = NftNone /\ nftReceipts' = [nftReceipts EXCEPT ![i] = r]
   BY <1>3 DEF MintNft, Mintable, Unminted
 <2> HIDE DEF r
 <2>2. \A m \in Minted : m \in NftMints /\ m # i BY <2>1 DEF Minted
 <2>3. \A m \in Minted : nftReceipts'[m] = nftReceipts[m] BY <1>0, <2>1, <2>2
 <2> QED BY <2>1, <2>3
<1>4. ASSUME NEW w, FreezeCollection(w) PROVE Frozen /\ Kept
 <2>1. /\ collection # NftNone /\ collection' = [collection EXCEPT !.frozen = TRUE]
       /\ UNCHANGED <<nftReceipts, supply>>
   BY <1>4 DEF FreezeCollection
 <2>2. collection \in CollectionConfig BY <1>0, <2>1
 <2>3. collection.frozen => collection' = collection BY <2>1, <2>2 DEF CollectionConfig
 <2> QED BY <1>1, <2>1, <2>3
<1>5. ASSUME NEW w, NEW i \in NftMints, RecordReceipt(w, i) PROVE Frozen /\ Kept
 <2> DEFINE r == [nftReceipts[i] EXCEPT !.signed = TRUE]
 <2>1. /\ nftReceipts[i] # NftNone /\ UNCHANGED <<collection, supply>>
       /\ nftReceipts' = [nftReceipts EXCEPT ![i] = r]
   BY <1>5 DEF RecordReceipt
 <2>2. nftReceipts[i] \in NftReceipt BY <1>0, <2>1
 <2>3. r.owner = nftReceipts[i].owner /\ r.signed BY <2>2 DEF NftReceipt
 <2> HIDE DEF r
 <2>4. ASSUME NEW m \in Minted
       PROVE  nftReceipts'[m] = IF m = i THEN r ELSE nftReceipts[m]
   BY <1>0, <2>1 DEF Minted
 <2> QED BY <2>1, <2>3, <2>4
<1>6. ASSUME UNCHANGED nftVars PROVE Frozen /\ Kept BY <1>1, <1>6 DEF nftVars
<1> HIDE DEF Kept, Frozen
<1>7. ASSUME NftNext PROVE Frozen /\ Kept BY <1>2, <1>3, <1>4, <1>5, <1>7, Zenon DEF NftNext
<1>8. Frozen /\ Kept BY <1>7, <1>6 DEF Frozen, Kept
<1> QED BY <1>8 DEF Frozen, Kept

\* A frozen collection of claw_nft stays as it is.
THEOREM FrozenAlwaysForGood == NftSpec => FrozenForGood
<1>1. NftInv /\ [NftNext]_nftVars
        => [/\ (collection # NftNone /\ collection.frozen)
                 => collection' = collection /\ supply' = supply
            /\ \A m \in Minted : /\ nftReceipts'[m].owner = nftReceipts[m].owner
                                 /\ nftReceipts[m].signed => nftReceipts'[m].signed]_nftVars
  BY CollectionKeeps
<1> QED BY <1>1, InitNft, StepNft, PTL DEF NftSpec, FrozenForGood

----
\* The programs side by side: a step of the checked instance is a step of
\* one program and leaves the accounts of the others as they are.

\* The accounts' part of the run takes steps of the program,
LEMMA AccountsStep == AccountsNext => Next
BY Zenon DEF AccountsNext, Next

\* and so does its part of reputation events.
LEMMA ReputationStep == ReputationNext => Next
<1>1. ASSUME NEW quota \in Quotas, InitializeConfig(quota) \/ UpdateConfig(TRUE, quota) PROVE Next
 <2>1. TRUE \in BOOLEAN OBVIOUS
 <2> QED BY <1>1, <2>1, Zenon DEF Next
<1>2. ASSUME NEW w \in Wallets, CreateProfile(w) PROVE Next BY <1>2, Zenon DEF Next
<1>3. ASSUME NEW w \in Wallets, NEW points \in Reputations, UpdateProfile(w, points, TRUE) PROVE Next
 <2>1. TRUE \in BOOLEAN /\ points \in Reputations \cup {profile[w].reputation} OBVIOUS
 <2> QED BY <1>3, <2>1, Zenon DEF Next
<1>4. ASSUME NEW w \in Wallets, NEW kind \in EventKinds, NEW success \in BOOLEAN,
             NEW points \in Rewards, NEW quality \in Qualities,
             UpdateReputation(w, kind, success, points, quality)
      PROVE  Next
  BY <1>4, Zenon DEF Next
<1> QED BY <1>1, <1>2, <1>3, <1>4, Zenon DEF ReputationNext

\* A step of one program leaves the accounts of the others alone.
LEMMA OnchainStep ==
  [OnchainNext]_onchainVars => [Next]_vars /\ [MachineNext]_machineVars /\ [NftNext]_nftVars
<1>1. UNCHANGED onchainVars => UNCHANGED <<vars, machineVars, nftVars>> BY DEF onchainVars
<1> QED BY <1>1, AccountsStep, ReputationStep DEF OnchainNext, SmallMachineNext

\* So a behaviour of the run is one of each program.
LEMMA OnchainParts == OnchainSpec => Spec /\ MachineSpec /\ NftSpec
<1>1. OnchainInit => Init /\ MachineInit /\ NftInit BY DEF OnchainInit
<1> QED BY <1>1, OnchainStep, PTL DEF OnchainSpec, Spec, MachineSpec, NftSpec

\* Skills agree with their versions, beside whatever the other programs do.
THEOREM SkillsMatchOnchain == OnchainSpec => []SkillsMatchVersions
BY OnchainParts, SkillsAlwaysMatch, PTL

\* So do the counters, records, rows and scores with the accounts.
THEOREM AccountsAlwaysAgree == OnchainSpec => []AccountsAgree
<1>1. CountersMatchAccounts /\ RowsLagBehind /\ StepsAddUpBelowMax /\ ReputationAddsUp
        => AccountsAgree
  BY DEF AccountsAgree
<1> QED BY <1>1, OnchainParts, AccountsHold, PTL

\* The registry of claw_machine and the collection of claw_nft count what
\* was made under them, and every status rests on its evidence.
THEOREM RegistersAlwaysHold == OnchainSpec => []RegistersHold
<1>1. MachineTypeOK /\ RegistryCounts /\ CurrentVersionPublished /\ StatusRestsOnEvidence
        /\ SupplyHeld /\ OneTokenEach
          => RegistersHold
  BY DEF RegistersHold
<1> QED BY <1>1, OnchainParts, MachineHolds, CollectionHolds, PTL
=============================================================================
