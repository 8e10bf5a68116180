---------------------------- MODULE SolanaIdentity ----------------------------
(***************************************************************************)
(* The identity of one wallet: sign-in with a challenge, its receipt on    *)
(* chain, the seed skills and memories, the records that events leave and  *)
(* the reputation and profile computed from them.                          *)
(*                                                                         *)
(* A handler runs without a break from one write of the store's file, or   *)
(* one call of the chain, to the next: `at' is what a request does once    *)
(* the write it waits for is done.  A write may fail, and its request with *)
(* it, while what was changed in memory stays.                             *)
(*                                                                         *)
(* The store hands out its arrays, and addMemory, savePlannerRun and       *)
(* saveDeployment put the new element in the array at hand before they     *)
(* keep a shortened copy: `arrays' holds every array a list has had, the   *)
(* last one the store's own.                                               *)
(***************************************************************************)
EXTENDS Naturals, Sequences, FiniteSets, SequencesExt

CONSTANTS
    Requests,       \* the requests of a behaviour, each made once
    Records,        \* the records made: pairs of a kind and an outcome, good, bad or open
    Reported,       \* the events a client reports itself: of any kind, good, bad or none
    ListCap,        \* by kind of record: 100 memories, 200 runs, 200 deployments
    Overlap,        \* bound: requests served at once
    MaxFaults       \* bound: writes that fail

Kinds == {"memory", "planner_run", "deployment"}

ASSUME IdentityAssumption ==
    /\ Records \subseteq Kinds \X {"good", "bad", "open"}
    /\ ListCap \in [Kinds -> Nat \ {0}]
    /\ Overlap \in Nat /\ MaxFaults \in Nat

VARIABLES
    anchors,        \* opts.onchain is given
    challenge,      \* the status of the wallet's challenge, or "expired", or "none"
    skills,         \* the seed skills: whether they are there, and their usage
    arrays,         \* by kind, the arrays of the list, the store's own last
    receipts,       \* by request, the receipt it saved
    onchain,        \* the receipts the chain has accepted
    reputation,     \* the wallet's reputation (zeros: none yet)
    profile,        \* the wallet's profile, with counts of -none- before the first
    task,           \* by request, what is asked: the kind and outcome of its event, or
                    \* "sign_in", or "discovery"
    at,             \* by request, what it does next
    held,           \* by request, what upsertProfile has read
    events,         \* reputation events counted so far
    recorded,       \* records made so far
    disturbed,      \* requests overlapped, or a write failed, since the last lone one began
    faults

walletVars == <<challenge, skills, arrays, receipts, onchain, reputation, profile>>
identityVars == <<anchors, walletVars, task, at, held, events, recorded, disturbed, faults>>

Larger(a, b) == IF a >= b THEN a ELSE b
Smaller(a, b) == IF a <= b THEN a ELSE b

\* The arrays read, whether there was one of receipts, the trust score of the reputation
\* and whether that is still the store's, which an event changes in place.
NothingHeld == [arrays |-> [k \in Kinds |-> 0], receipts |-> FALSE, trust |-> 0, current |-> FALSE]

NoTask == [kind |-> "none", outcome |-> "none"]
NoReceipt == [status |-> "none", tx |-> FALSE]
Seeds == <<"seed", "seed">>
SeedUsage == 73
SeedSuccess == 65
SeedFailure == 8
SeedVersions == 5

\* What the store lists; the empty array when it has none is nobody's.
Length(k, index) == IF index = 0 THEN 0 ELSE Len(arrays[k][index])
Listed(k) == IF arrays[k] = <<>> THEN <<>> ELSE arrays[k][Len(arrays[k])]
Receipts == {r \in Requests : receipts[r].status # "none"}
Counted(k, outcome) == Cardinality({i \in DOMAIN Listed(k) : Listed(k)[i] = outcome})

IdentityInit ==
    /\ anchors \in BOOLEAN
    /\ challenge = "none"
    /\ skills = [published |-> FALSE, usage |-> 0]
    /\ arrays = [k \in Kinds |-> <<>>]
    /\ receipts = [r \in Requests |-> NoReceipt]
    /\ onchain = {}
    /\ reputation = [usage |-> 0, success |-> 0, failure |-> 0,
                     listed |-> [k \in Kinds |-> 0], skills |-> 0,
                     versions |-> 0, authorship |-> 0, trust |-> 0,
                     quality |-> 0, discovery |-> 0]
    /\ profile = [saved |-> FALSE, listed |-> [k \in Kinds |-> 0], receipts |-> 0, trust |-> 0]
    /\ task = [r \in Requests |-> NoTask]
    /\ at = [r \in Requests |-> "idle"]
    /\ held = [r \in Requests |-> NothingHeld]
    /\ events = 0
    /\ recorded = 0
    /\ disturbed = FALSE
    /\ faults = 0

----------------------------------------
(* The numbers.                                                            *)

BpsFromRatio(part, whole) == IF whole = 0 THEN 0 ELSE Smaller(10000, (part * 10000) \div whole)

TrustScore(success, failure, authorship, deployments) ==
    Smaller(10000, BpsFromRatio(success, Larger(success + failure, 1)) \div 2
                     + Smaller(25, authorship) * 120 + Smaller(25, deployments) * 80)

\* avgReflectionQualityBps is the ratio of a sum that is in bps already: any confidence at
\* all, of a memory, a run or a seed, makes it the cap.  The records here come with one.
AvgQuality(confident) == BpsFromRatio(IF confident THEN 1 ELSE 0, 1)

\* The halves of trust and successes are added before they are rounded.
DiscoveryScore(rep, signals) ==
    Smaller(10000, (rep.trust + BpsFromRatio(rep.success, Larger(rep.usage, 1))) \div 2
                     + Smaller(1000, rep.usage) * 3 + Smaller(20, rep.versions) * 40
                     + Smaller(50, rep.skills) * 50 + Smaller(50, rep.authorship) * 30
                     + rep.quality \div 2 + Smaller(400, signals) * 2)

\* A reputation with its score: its signals are what it lists and its versions.
Scored(rep) ==
    [rep EXCEPT !.discovery =
        DiscoveryScore(rep, rep.listed["memory"] + rep.listed["planner_run"]
                              + rep.listed["deployment"] + rep.versions)]

\* Fault: what events have counted is forgotten.
ListedOnly(counted, listed) == listed

\* Successes and failures: the larger of what was counted and what the lists hold.
CountedOrListed(counted, listed) == Larger(counted, listed)

UsageCount(listed) == Larger(Larger(skills.usage, reputation.usage), listed)

\* buildWalletReputation: some counts never fall, the others are those of the lists.
WalletReputation ==
    LET length == [k \in Kinds |-> Len(Listed(k))]
        versions == IF skills.published THEN SeedVersions ELSE 0
        authorship == IF skills.published THEN 2 ELSE 0
        jobs(outcome) == Counted("planner_run", outcome) + Counted("deployment", outcome)
        success == CountedOrListed(reputation.success,
                          (IF skills.published THEN SeedSuccess ELSE 0) + jobs("good"))
        failure == CountedOrListed(reputation.failure,
                          (IF skills.published THEN SeedFailure ELSE 0) + jobs("bad"))
    IN  Scored(
        [usage |-> UsageCount(length["memory"] + length["planner_run"] + length["deployment"]),
         success |-> success, failure |-> failure,
         listed |-> length,
         skills |-> Larger(reputation.skills, IF skills.published THEN 2 ELSE 0),
         versions |-> versions, authorship |-> authorship,
         trust |-> TrustScore(success, failure, authorship, length["deployment"]),
         quality |-> AvgQuality(skills.published \/ length["memory"] > 0), discovery |-> 0])

\* What one event adds.  A record with an open outcome counts as a failure.
WithEvent(kind, outcome) ==
    LET plus(hit) == IF hit THEN 1 ELSE 0
        success == reputation.success + plus(outcome = "good")
        failure == reputation.failure + plus(outcome \in {"bad", "open"})
        listed == [k \in Kinds |-> reputation.listed[k] + plus(kind = k)]
        authorship == reputation.authorship + plus(kind = "verified_authorship")
    IN  Scored(
        [usage |-> reputation.usage + 1,
         success |-> success, failure |-> failure,
         listed |-> listed,
         skills |-> reputation.skills + plus(kind = "skill_publish"),
         versions |-> reputation.versions + plus(kind = "skill_version"),
         authorship |-> authorship,
         trust |-> TrustScore(success, failure, authorship, listed["deployment"]),
         quality |-> AvgQuality(reputation.quality > 0 \/ kind \in {"memory", "planner_run"}),
         discovery |-> 0])

----------------------------------------
(* The steps that requests share.                                          *)

Goes(r, next) == at' = [at EXCEPT ![r] = next]

Active == {r \in Requests : at[r] \notin {"idle", "answered", "failed"}}

\* A request begins; one that will write the profile, and is alone, starts afresh.
Begins(r, kind, outcome) ==
    /\ at[r] = "idle"
    /\ Cardinality(Active) < Overlap
    /\ task' = [task EXCEPT ![r] = [kind |-> kind, outcome |-> outcome]]
    /\ disturbed' = IF Active # {} THEN TRUE
                    ELSE IF kind # "discovery" THEN FALSE ELSE disturbed

\* A sign-in writes the profile twice, before and after its receipt.
AfterProfile(r) ==
    IF task[r].kind = "sign_in" /\ r \notin Receipts THEN "receipt" ELSE "answer"

\* buildWalletReputation as a whole: a new object takes the place of the old one.
Rebuilds ==
    /\ reputation' = WalletReputation
    /\ held' = [q \in Requests |-> [held[q] EXCEPT !.current = FALSE]]

\* upsertProfile up to the write of the reputation.
BeginsUpsert(r) ==
    /\ reputation' = WalletReputation
    /\ held' = [q \in Requests |->
                  IF q = r
                  THEN [arrays |-> [k \in Kinds |-> Len(arrays[k])], receipts |-> Receipts # {},
                        trust |-> WalletReputation.trust, current |-> TRUE]
                  ELSE [held[q] EXCEPT !.current = FALSE]]
    /\ Goes(r, "profile")

\* Its end, with the lists it read before that write.
SaveProfile(r) ==
    /\ at[r] = "profile"
    /\ profile' = [saved |-> TRUE,
                    listed |-> [k \in Kinds |-> Length(k, held[r].arrays[k])],
                    receipts |-> IF held[r].receipts THEN Cardinality(Receipts) ELSE 0,
                    trust |-> held[r].trust]
    /\ held' = [held EXCEPT ![r] = NothingHeld]
    /\ Goes(r, AfterProfile(r))
    /\ UNCHANGED <<anchors, challenge, skills, arrays, receipts, onchain, reputation,
                    task, events, recorded, disturbed, faults>>

\* recordReputationEvent up to the write of the reputation, which it changes in place.
Counts(r, kind, outcome) ==
    /\ reputation' = WithEvent(kind, outcome)
    /\ held' = [q \in Requests |->
                  IF held[q].current THEN [held[q] EXCEPT !.trust = reputation'.trust] ELSE held[q]]
    /\ events' = events + 1
    /\ Goes(r, "upsert")

----------------------------------------
(* Sign-in.                                                                *)

\* createChallenge; the model looks at one challenge at a time.
CreateChallenge ==
    /\ challenge \in {"none", "expired"}
    /\ challenge' = "issued"
    /\ UNCHANGED <<anchors, skills, arrays, receipts, onchain, reputation, profile,
                    task, at, held, events, recorded, disturbed, faults>>

ChallengeExpires ==
    /\ challenge \in {"issued", "verified"}
    /\ \E r \in Requests : at[r] = "idle"
    /\ challenge' = "expired"
    /\ UNCHANGED <<anchors, skills, arrays, receipts, onchain, reputation, profile,
                    task, at, held, events, recorded, disturbed, faults>>

\* verifySignature, with a signature of the challenge: its status is not asked for.
VerifySignature(r) ==
    /\ challenge \in {"issued", "verified"}
    /\ Begins(r, "sign_in", "none")
    /\ challenge' = "verified"
    /\ Goes(r, "seed")
    /\ UNCHANGED <<anchors, skills, arrays, receipts, onchain, reputation, profile,
                    held, events, recorded, faults>>

NeedsSeeds == ~skills.published

\* publishSeedData: with skills there, straight to the profile.
PublishSeedData(r) ==
    /\ at[r] = "seed"
    /\ IF NeedsSeeds
       THEN /\ skills' = [published |-> TRUE, usage |-> SeedUsage]
            /\ Goes(r, "memories")
            /\ UNCHANGED <<reputation, held>>
       ELSE /\ BeginsUpsert(r)
            /\ UNCHANGED skills
    /\ UNCHANGED <<anchors, challenge, arrays, receipts, onchain, profile,
                    task, events, recorded, disturbed, faults>>

\* saveMemories puts the seeds in the place of the list.
SaveSeedMemories(r) ==
    /\ at[r] = "memories"
    /\ arrays' = [arrays EXCEPT !["memory"] = Append(@, Seeds)]
    /\ Goes(r, "upsert")
    /\ UNCHANGED <<anchors, challenge, skills, receipts, onchain, reputation, profile,
                    task, held, events, recorded, disturbed, faults>>

Upsert(r) ==
    /\ at[r] = "upsert"
    /\ BeginsUpsert(r)
    /\ UNCHANGED <<anchors, challenge, skills, arrays, receipts, onchain, profile,
                    task, events, recorded, disturbed, faults>>

\* Once the receipt is written the profile is written again.
AfterReceipt == "upsert"

\* createReceipt: the receipt says -confirmed- before it is anchored.
SaveReceipt(r) ==
    /\ at[r] = "receipt"
    /\ receipts' = [receipts EXCEPT ![r] = [status |-> "confirmed", tx |-> FALSE]]
    /\ Goes(r, IF anchors THEN "anchor" ELSE AfterReceipt)
    /\ UNCHANGED <<anchors, challenge, skills, arrays, onchain, reputation, profile,
                    task, held, events, recorded, disturbed, faults>>

\* anchorReceipt is called; the chain takes the receipt or does not.
AnchorReceipt(r, taken) ==
    /\ at[r] = "anchor"
    /\ onchain' = IF taken THEN onchain \cup {r} ELSE onchain
    /\ Goes(r, "anchoring")
    /\ UNCHANGED <<anchors, challenge, skills, arrays, receipts, reputation, profile,
                    task, held, events, recorded, disturbed, faults>>

Anchored(r) ==
    /\ at[r] = "anchoring"
    /\ r \in onchain
    /\ receipts' = [receipts EXCEPT ![r].tx = TRUE]
    /\ Goes(r, "upsert or pending")
    /\ UNCHANGED <<anchors, challenge, skills, arrays, onchain, reputation, profile,
                    task, held, events, recorded, disturbed, faults>>

Pending(receipt) == [receipt EXCEPT !.status = "pending"]

\* The catch: the call failed, whatever the chain did.
NotAnchored(r) ==
    /\ at[r] = "anchoring"
    /\ receipts' = [receipts EXCEPT ![r] = Pending(@)]
    /\ Goes(r, AfterReceipt)
    /\ UNCHANGED <<anchors, challenge, skills, arrays, onchain, reputation, profile,
                    task, held, events, recorded, disturbed, faults>>

\* The write of the anchored receipt: the same catch answers its failure.
AnchoredIsWritten(r) ==
    /\ at[r] = "upsert or pending"
    /\ BeginsUpsert(r)
    /\ UNCHANGED <<anchors, challenge, skills, arrays, receipts, onchain, profile,
                    task, events, recorded, disturbed, faults>>

AnchoredIsNotWritten(r) ==
    /\ at[r] = "upsert or pending"
    /\ faults < MaxFaults
    /\ faults' = faults + 1
    /\ disturbed' = TRUE
    /\ receipts' = [receipts EXCEPT ![r] = Pending(@)]
    /\ Goes(r, "upsert")
    /\ UNCHANGED <<anchors, challenge, skills, arrays, onchain, reputation, profile,
                    task, held, events, recorded>>

----------------------------------------
(* Records and events.                                                     *)

FirstOf(s, n) == SubSeq(s, 1, Smaller(n, Len(s)))

\* addMemory, savePlannerRun, saveDeployment: the array at hand gets the record, and a
\* copy of its first ones takes its place.
WithRecord(k, outcome) ==
    LET grown == <<outcome>> \o Listed(k)
    IN  IF arrays[k] = <<>> THEN <<FirstOf(grown, ListCap[k])>>
        ELSE Append([arrays[k] EXCEPT ![Len(arrays[k])] = grown], FirstOf(grown, ListCap[k]))

\* recordMemoryAnchor, recordPlannerRun, recordDeployment.
Record(r, k, outcome) ==
    /\ Begins(r, k, outcome)
    /\ recorded' = recorded + 1
    /\ arrays' = [arrays EXCEPT ![k] = WithRecord(k, outcome)]
    /\ Goes(r, "event")
    /\ UNCHANGED <<anchors, challenge, skills, receipts, onchain, reputation, profile,
                    held, events, faults>>

\* recordSkillUse of a seed skill: bumpUsage, then the event.
SkillUse(r) ==
    /\ skills.published
    /\ Begins(r, "other", "none")
    /\ skills' = [skills EXCEPT !.usage = @ + 1]
    /\ Goes(r, "event")
    /\ UNCHANGED <<anchors, challenge, arrays, receipts, onchain, reputation, profile,
                    held, events, recorded, faults>>

Event(r) ==
    /\ at[r] = "event"
    /\ Counts(r, task[r].kind, task[r].outcome)
    /\ UNCHANGED <<anchors, challenge, skills, arrays, receipts, onchain, profile,
                    task, recorded, disturbed, faults>>

\* recordReputationEvent by the client; recordSkillUse of a skill the wallet does not have.
ReportedEvent(r, kind, outcome) ==
    /\ Begins(r, kind, outcome)
    /\ Counts(r, kind, outcome)
    /\ UNCHANGED <<anchors, challenge, skills, arrays, receipts, onchain, profile, recorded, faults>>

\* The discovery reads compute, and save, the reputation.
Discover(r) ==
    /\ Begins(r, "discovery", "none")
    /\ Rebuilds
    /\ Goes(r, "answer")
    /\ UNCHANGED <<anchors, challenge, skills, arrays, receipts, onchain, profile,
                    events, recorded, faults>>

----------------------------------------
(* The end of a request.                                                   *)

Answer(r) ==
    /\ at[r] = "answer"
    /\ task' = [task EXCEPT ![r] = NoTask]
    /\ Goes(r, "answered")
    /\ UNCHANGED <<anchors, walletVars, held, events, recorded, disturbed, faults>>

\* The write a request waits for fails, and the handler with it.
WriteFails(r) ==
    /\ at[r] \in {"seed", "memories", "upsert", "profile", "receipt", "anchor", "event", "answer"}
    /\ faults < MaxFaults
    /\ faults' = faults + 1
    /\ disturbed' = TRUE
    /\ held' = [held EXCEPT ![r] = NothingHeld]
    /\ task' = [task EXCEPT ![r] = NoTask]
    /\ Goes(r, "failed")
    /\ UNCHANGED <<anchors, walletVars, events, recorded>>

IdentityNext ==
    \/ CreateChallenge \/ ChallengeExpires
    \/ \E r \in Requests :
        \/ VerifySignature(r) \/ PublishSeedData(r) \/ SaveSeedMemories(r) \/ Upsert(r)
        \/ SaveProfile(r) \/ SaveReceipt(r)
        \/ \E taken \in BOOLEAN : AnchorReceipt(r, taken)
        \/ Anchored(r) \/ NotAnchored(r) \/ AnchoredIsWritten(r) \/ AnchoredIsNotWritten(r)
        \/ \E record \in Records : Record(r, record[1], record[2])
        \/ SkillUse(r) \/ Event(r)
        \/ \E event \in Reported : ReportedEvent(r, event[1], event[2])
        \/ Discover(r) \/ Answer(r) \/ WriteFails(r)

----------------------------------------
(* The discovery reads.                                                    *)

\* The seed skills as the store has them, when used of their uses were of the first.
\* What is counted as success and failure stays as it was seeded.
SeedSkills(used) ==
    {[skill |-> "planner", usage |-> 42 + used, success |-> 36, failure |-> 6,
      quality |-> 8300, versions |-> 3, authorship |-> 1],
     [skill |-> "memory-recall", usage |-> 31 + (skills.usage - SeedUsage - used), success |-> 29,
      failure |-> 2, quality |-> 9100, versions |-> 2, authorship |-> 1]}

\* The row of a skill: the counts that are its own, with those of its wallet's reputation.
DiscoveryRow(skill, rep) ==
    LET trust == TrustScore(skill.success, skill.failure, skill.authorship, rep.listed["deployment"])
    IN  [skill |-> skill.skill, usage |-> skill.usage, success |-> skill.success,
         failure |-> skill.failure, trust |-> trust,
         discovery |-> DiscoveryScore([usage |-> skill.usage, success |-> skill.success, trust |-> trust,
                                       versions |-> skill.versions, skills |-> rep.skills,
                                       authorship |-> skill.authorship, quality |-> skill.quality],
                                      skill.usage + skill.versions + skill.authorship)]

\* A set as a sequence, each element ahead of those after it.
InOrder(S, ahead) ==
    CHOOSE s \in [1..Cardinality(S) -> S] : \A i, j \in DOMAIN s : i < j => <<s[i], s[j]>> \in ahead

\* listDiscoverySkills, and of it getDiscoveryByWallet: the wallet's reputation is computed
\* first; filter has the least trust and usage that is shown.
ListDiscoverySkills(used, filter) ==
    LET rows == {row \in {DiscoveryRow(skill, WalletReputation) : skill \in SeedSkills(used)} :
                    row.trust >= filter.trust /\ row.usage >= filter.usage}
        Ahead(a, b) ==
            \/ a.discovery > b.discovery
            \/ a.discovery = b.discovery /\ a.trust > b.trust
            \/ a.discovery = b.discovery /\ a.trust = b.trust /\ a.usage > b.usage
    IN  InOrder(rows, {pair \in rows \X rows : Ahead(pair[1], pair[2])})

\* discoveryToSkillIdentity, in hundredths and rounded to the nearest.
SkillIdentity(row) ==
    [id |-> row.skill, usageCount |-> row.usage, reputationScore |-> row.trust,
     successRate |-> LET total == row.success + row.failure
                     IN  (20000 * row.success + total) \div (2 * total)]

\* GET /api/skills sorts those that are shown anew, which keeps the order of equals: the
\* place of each among the rows goes with it.
Skills(used, filter, minReputation, sort) ==
    LET rows == ListDiscoverySkills(used, filter)
        shown == {<<i, SkillIdentity(rows[i])>> : i \in
                     {i \in DOMAIN rows : SkillIdentity(rows[i]).reputationScore >= minReputation}}
        Figure(s) == CASE sort = "success_rate" -> s.successRate
                       [] sort = "most_used" -> s.usageCount
                       [] OTHER -> s.reputationScore
        Ahead(a, b) ==
            \/ Figure(a[2]) > Figure(b[2])
            \/ Figure(a[2]) = Figure(b[2]) /\ a[1] < b[1]
    IN  InOrder(shown, {pair \in shown \X shown : Ahead(pair[1], pair[2])})

----------------------------------------
(* What the identity promises.                                             *)

\* When the last request that writes the profile ran alone and nothing failed, the profile
\* and the reputation agree with the lists, whatever happened before: an overlap leaves a
\* stale profile only until then.
QuietRecordsAgree ==
    Active = {} /\ ~disturbed /\ profile.saved =>
        /\ \A k \in Kinds : profile.listed[k] = Len(Listed(k))
                           /\ reputation.listed[k] = Len(Listed(k))
        /\ profile.receipts = Cardinality(Receipts)
        /\ profile.trust = reputation.trust

\* Usage is at least the events counted and at most these with what else was ever listed: the
\* uses of the skills, which the seeds bring, and the records.  A use or a record may count
\* twice, in its list and as an event, when the reputation is computed in between, but
\* never more.  A settled usage misses no use of a skill.
UsageAccounted ==
    /\ events <= reputation.usage
    /\ reputation.usage <= skills.usage + events + recorded
    /\ Active = {} /\ ~disturbed /\ profile.saved => reputation.usage >= skills.usage

\* A sign-in that was answered left a receipt that says -confirmed- only if the chain has it
\* (when there is a chain); -pending- may stand on the chain all the same.
AnsweredReceiptIsHonest ==
    \A r \in Receipts : anchors /\ at[r] = "answered" /\ receipts[r].status = "confirmed" =>
        receipts[r].tx /\ r \in onchain

\* Usage, successes, failures and published skills never fall, whoever computes them.
ReputationNeverShrinks ==
    [][ /\ reputation'.usage >= reputation.usage
        /\ reputation'.success >= reputation.success
        /\ reputation'.failure >= reputation.failure
        /\ reputation'.skills >= reputation.skills ]_identityVars

\* Once requests have come to rest a discovery read, which computes and saves the reputation,
\* finds it as it is; no row of a skill then tells of more than the reputation it is shown
\* with, no score leaves its range, and no failure is left out of a success rate.
DiscoveryTellsTheReputation ==
    Active = {} /\ ~disturbed /\ profile.saved /\ skills.published =>
        /\ WalletReputation = reputation
        /\ \A used \in 0..(skills.usage - SeedUsage) :
            LET rows == ListDiscoverySkills(used, [trust |-> 0, usage |-> 0])
                listed == Skills(used, [trust |-> 0, usage |-> 0], 0, "success_rate")
            IN  /\ rows[1].usage + rows[2].usage <= reputation.usage
                /\ rows[1].success + rows[2].success <= reputation.success
                /\ rows[1].failure + rows[2].failure <= reputation.failure
                /\ \A i \in 1..2 : rows[i].trust <= 10000 /\ rows[i].discovery <= 10000
                /\ \A i \in DOMAIN listed : listed[i][2].successRate < 10000

\* What identityService.ts keeps of a wallet in several lists agrees, although each
\* is written after an await of its own, and is never taken back.
IdentityRecordsAgree ==
    /\ []QuietRecordsAgree
    /\ []UsageAccounted
    /\ []AnsweredReceiptIsHonest
    /\ []DiscoveryTellsTheReputation
    /\ ReputationNeverShrinks
=============================================================================
