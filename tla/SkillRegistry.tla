---------------------------- MODULE SkillRegistry ----------------------------
(***************************************************************************)
(* The registry of skills over its two tables, for one skill of one user:  *)
(* published here, or a legacy row that the first call to meet it migrates. *)
(* Every method reads, computes and writes with a statement each and no    *)
(* transaction, so a step is one statement.  A write may fail, and its     *)
(* request with it.                                                        *)
(*                                                                         *)
(* Versions are numbers; a hash is the content with the version, for both  *)
(* go into it.  The version rows are kept in the order of publishedAt.     *)
(* Rates are in hundredths of a percent and weights in ten-thousandths of  *)
(* a point; the column of the score holds whole points.  The chain is a    *)
(* mock; it does not fail.                                                 *)
(***************************************************************************)
EXTENDS Integers, Sequences, FiniteSets

CONSTANTS
    Callers,        \* the requests of a behaviour, each made once
    Contents,       \* what an update may set
    Ages,           \* how long ago a used skill was used last, a month being 10000
    MaxVersion,     \* bound: the last version
    MaxLost         \* bound: statements that fail

ASSUME RegistryAssumption ==
    /\ MaxVersion \in Nat \ {0} /\ MaxLost \in Nat
    /\ Ages \subseteq Nat /\ 0 \in Ages
    /\ {"no uid", "earlier"} \cap Callers = {}

VARIABLES
    row,            \* the skill's row of claw_skills
    versions,       \* the rows of claw_skill_versions, the newest last
    ask,            \* by request, what is asked
    turn,           \* by request, its next statement
    seen,           \* by request, the row it has read
    shown,          \* the skill ids that clients have been given
    uses,           \* usages recorded so far
    conflicts,      \* what two requests have written at once, or one in part
    lost

registryVars == <<row, versions, ask, turn, seen, shown, uses, conflicts, lost>>

NoUid == "no uid"
NoContent == "no content"

\* statusTransitions.
Transitions ==
    [draft |-> {"published"},
     published |-> {"active", "paused", "deprecated", "archived"},
     active |-> {"paused", "deprecated", "archived"},
     paused |-> {"active", "deprecated", "archived"},
     deprecated |-> {"archived"},
     archived |-> {}]

\* The statuses the routes ask for.
Asked == {"active", "paused", "deprecated", "archived"}

ContentHash(content, version) == <<content, version>>

Row(uid, version, content, status) ==
    [uid |-> uid, version |-> version, account |-> <<uid, version>>,
     hash |-> ContentHash(content, version), previous |-> <<>>, status |-> status,
     usage |-> 0, success |-> 0, failure |-> 0, score |-> 0]

\* A version row; previous is the account the row named before.
Version(uid, version, content, status, previous) ==
    [uid |-> uid, version |-> version, hash |-> ContentHash(content, version),
     status |-> status, previous |-> previous]

NoRow == [Row(NoUid, 1, NoContent, "draft") EXCEPT !.account = <<>>]
Absent == [NoRow EXCEPT !.status = "absent"]

NoAsk == [op |-> "none", id |-> NoUid, content |-> NoContent, version |-> 0,
          status |-> "draft", success |-> FALSE]

\* No skill yet; a legacy row, without a uid, a version account or version rows; or a skill
\* published before, whose id a client has.
RegistryInit ==
    /\ \/ /\ row \in {Absent} \cup {[NoRow EXCEPT !.status = s] : s \in {"draft", "active"}}
          /\ versions = <<>> /\ shown = {}
       \/ /\ row = Row("earlier", 1, NoContent, "published")
          /\ versions = <<Version("earlier", 1, NoContent, "published", <<>>)>>
          /\ shown = {"earlier"}
    /\ ask = [c \in Callers |-> NoAsk]
    /\ turn = [c \in Callers |-> "idle"]
    /\ seen = [c \in Callers |-> Absent]
    /\ uses = 0
    /\ conflicts = {}
    /\ lost = 0

----------------------------------------
Busy == {c \in Callers : turn[c] \notin {"idle", "done", "failed"}}

LesserOf(a, b) == IF a < b THEN a ELSE b

\* n in units, half a unit being rounded up.
InUnits(n, unit) == (2 * n + unit) \div (2 * unit)

SuccessRate(successes, failures) ==
    IF successes + failures = 0 THEN 0 ELSE InUnits(10000 * successes, successes + failures)

UsageWeight(usage) == LesserOf(600000, 12000 * usage)
SuccessWeight(rate) == 35 * rate

\* A month takes a point; a skill that was never used is taken for one that was used eight
\* months ago.
RecencyWeight(used, age) == IF used THEN 200000 - LesserOf(200000, age) ELSE 120000

\* In hundredths of a point (toFixed), of which the integer column keeps whole ones.
CalcReputation(usage, rate, recency) ==
    InUnits(LesserOf(1000000, UsageWeight(usage) + SuccessWeight(rate) + recency), 100)

ScoreColumn(reputation) == InUnits(reputation, 100)

\* What a request writes that another one's write can spoil; "standing" is the status of
\* a version row, which an update copies and a change of status follows.
Writes(op, migrates) ==
    (CASE op = "publish" -> {"version", "standing"}
       [] op = "update" -> {"version", "standing", "score"}
       [] op = "status" -> {"status", "standing"}
       [] op = "usage" -> {"usage", "score"}
       [] OTHER -> {})
      \cup (IF migrates THEN {"version", "standing", "migration"} ELSE {})

Migrating(c) == turn[c] \in {"insert legacy", "set legacy"}

Writing(c) == Writes(ask[c].op, Migrating(c))

\* A request begins with the look for legacy rows that every method but publish starts with.
Starts(c, asked, next, migrates) ==
    /\ turn[c] = "idle"
    /\ ask' = [ask EXCEPT ![c] = asked]
    /\ turn' = [turn EXCEPT ![c] = next]
    /\ conflicts' = conflicts \cup UNION {Writing(b) \cap Writes(asked.op, migrates) : b \in Busy}

TurnsTo(c, next) == turn' = [turn EXCEPT ![c] = next]

Legacy == row.status # "absent" /\ row.uid = NoUid

Asks(c, asked) ==
    /\ Starts(c, asked, IF Legacy THEN "insert legacy" ELSE "read", Legacy)
    /\ UNCHANGED <<row, versions, seen, shown, uses, lost>>

\* The first methods of the registry; migrateLegacySkills is part of each but publish.
List(c) == Asks(c, [NoAsk EXCEPT !.op = "list"])

Update(c, id, content, version) ==
    Asks(c, [NoAsk EXCEPT !.op = "update", !.id = id, !.content = content, !.version = version])

SetStatus(c, id, status) ==
    Asks(c, [NoAsk EXCEPT !.op = "status", !.id = id, !.status = status])

RecordUsage(c, id, success) ==
    Asks(c, [NoAsk EXCEPT !.op = "usage", !.id = id, !.success = success])

\* migrateLegacySkills: the version row under a new uid, published whatever the row says;
\* then the row, with the uid.
InsertLegacyVersion(c) ==
    /\ turn[c] = "insert legacy"
    /\ versions' = Append(versions, Version(c, 1, NoContent, "published", <<>>))
    /\ TurnsTo(c, "set legacy")
    /\ UNCHANGED <<row, ask, seen, shown, uses, conflicts, lost>>

SetLegacyRow(c) ==
    /\ turn[c] = "set legacy"
    /\ row' = [row EXCEPT !.uid = c, !.account = <<c, 1>>, !.hash = ContentHash(NoContent, 1)]
    /\ TurnsTo(c, "read")
    /\ UNCHANGED <<versions, ask, seen, shown, uses, conflicts, lost>>

----------------------------------------
(* Publish: the row, then its first version.                               *)

Publish(c, content, status) ==
    /\ row.status = "absent"
    /\ \A b \in Callers : ask[b].op # "publish"
    /\ Starts(c, [NoAsk EXCEPT !.op = "publish", !.content = content, !.status = status],
              "insert row", FALSE)
    /\ UNCHANGED <<row, versions, seen, shown, uses, lost>>

InsertRow(c) ==
    /\ turn[c] = "insert row"
    /\ row' = Row(c, 1, ask[c].content, ask[c].status)
    /\ TurnsTo(c, "insert first")
    /\ UNCHANGED <<versions, ask, seen, shown, uses, conflicts, lost>>

InsertFirstVersion(c) ==
    /\ turn[c] = "insert first"
    /\ versions' = Append(versions, Version(c, 1, ask[c].content, ask[c].status, <<>>))
    /\ shown' = shown \cup {c}
    /\ TurnsTo(c, "done")
    /\ UNCHANGED <<row, ask, seen, uses, conflicts, lost>>

----------------------------------------
(* The other methods, from the row they read.                              *)

\* rowToAsset: what is shown of a row.
Asset(r) ==
    [id |-> IF r.uid = NoUid THEN "legacy" ELSE r.uid, currentVersion |-> r.version,
     account |-> r.account, latestVersionHash |-> r.hash, status |-> r.status,
     usageCount |-> r.usage, successRate |-> SuccessRate(r.success, r.failure),
     reputationScore |-> r.score, used |-> r.usage > 0]

ReadList(c) ==
    /\ turn[c] = "read"
    /\ ask[c].op = "list"
    /\ shown' = IF row.status = "absent" THEN shown ELSE shown \cup {Asset(row).id}
    /\ TurnsTo(c, "done")
    /\ UNCHANGED <<row, versions, ask, seen, uses, conflicts, lost>>

\* What follows the read of a row; "failed": the transition is not allowed.
AfterRead(op, read, status) ==
    CASE op = "update" -> "find duplicate"
      [] op = "usage" -> "set usage"
      [] op = "status" -> IF status \in Transitions[read.status] THEN "set status" ELSE "failed"

ReadRow(c) ==
    /\ turn[c] = "read"
    /\ ask[c].op # "list"
    /\ IF row.uid = ask[c].id
       THEN /\ seen' = [seen EXCEPT ![c] = row]
            /\ TurnsTo(c, AfterRead(ask[c].op, row, ask[c].status))
       ELSE /\ UNCHANGED seen
            /\ TurnsTo(c, "failed")
    /\ UNCHANGED <<row, versions, ask, shown, uses, conflicts, lost>>

\* The version an update makes: the one asked for, or the next (a patch).
NextVersion(c) == IF ask[c].version # 0 THEN ask[c].version ELSE seen[c].version + 1

NewHash(c) == ContentHash(ask[c].content, NextVersion(c))

\* A version with this hash exists: the update is answered with it and writes nothing.
FindDuplicate(c) ==
    /\ turn[c] = "find duplicate"
    /\ TurnsTo(c, IF \E i \in 1..Len(versions) :
                     versions[i].uid = ask[c].id /\ versions[i].hash = NewHash(c)
               THEN "done" ELSE "insert version")
    /\ UNCHANGED <<row, versions, ask, seen, shown, uses, conflicts, lost>>

InsertVersion(c) ==
    /\ turn[c] = "insert version"
    /\ NextVersion(c) <= MaxVersion
    /\ versions' = Append(versions, Version(ask[c].id, NextVersion(c), ask[c].content,
                                            seen[c].status, seen[c].account))
    /\ TurnsTo(c, "set version")
    /\ UNCHANGED <<row, ask, seen, shown, uses, conflicts, lost>>

\* The columns an update sets; the score is of the counts and the last use it has read.
UpdatedRow(c, age) ==
    [row EXCEPT !.version = NextVersion(c), !.account = <<ask[c].id, NextVersion(c)>>,
                !.hash = NewHash(c), !.previous = seen[c].account,
                !.score = ScoreColumn(CalcReputation(
                    seen[c].usage, SuccessRate(seen[c].success, seen[c].failure),
                    RecencyWeight(seen[c].usage > 0, age)))]

SetVersion(c) ==
    /\ turn[c] = "set version"
    /\ \E age \in Ages : row' = UpdatedRow(c, age)
    /\ TurnsTo(c, "done")
    /\ UNCHANGED <<versions, ask, seen, shown, uses, conflicts, lost>>

SetRowStatus(c) ==
    /\ turn[c] = "set status"
    /\ row' = [row EXCEPT !.status = ask[c].status]
    /\ TurnsTo(c, "set standing")
    /\ UNCHANGED <<versions, ask, seen, shown, uses, conflicts, lost>>

\* Fault: the version rows keep their status.
NoStanding(c) == versions

\* The rows of the version that was current when the status was read.
WithStanding(c) ==
    [i \in 1..Len(versions) |->
        IF versions[i].uid = ask[c].id /\ <<versions[i].uid, versions[i].version>> = seen[c].account
        THEN [versions[i] EXCEPT !.status = ask[c].status] ELSE versions[i]]

SetVersionStatus(c) ==
    /\ turn[c] = "set standing"
    /\ versions' = WithStanding(c)
    /\ TurnsTo(c, "done")
    /\ UNCHANGED <<row, ask, seen, shown, uses, conflicts, lost>>

\* The counts are computed from the row that was read.
SetUsage(c) ==
    /\ turn[c] = "set usage"
    /\ LET successes == seen[c].success + (IF ask[c].success THEN 1 ELSE 0)
           failures == seen[c].failure + (IF ask[c].success THEN 0 ELSE 1)
       IN  row' = [row EXCEPT !.usage = seen[c].usage + 1, !.success = successes, !.failure = failures,
                              !.score = ScoreColumn(CalcReputation(
                                  seen[c].usage + 1, SuccessRate(successes, failures),
                                  RecencyWeight(TRUE, 0)))]
    /\ uses' = uses + 1
    /\ TurnsTo(c, "done")
    /\ UNCHANGED <<versions, ask, seen, shown, conflicts, lost>>

\* A write fails and its method throws.  What is half done is a conflict: a published row or
\* a migration without its other half, a second row of the current version that the skill's
\* row does not know, a status that the version row does not have.
HalfDone(c) ==
    CASE turn[c] = "insert first" -> {"version", "standing"}
      [] turn[c] = "set version" -> IF NextVersion(c) = row.version THEN {"version", "standing"} ELSE {}
      [] turn[c] = "set standing" -> {"standing"}
      [] OTHER -> {}

StatementFails(c) ==
    /\ turn[c] \in {"insert legacy", "set legacy", "insert row", "insert first",
                    "insert version", "set version", "set status", "set standing", "set usage"}
    /\ lost < MaxLost
    /\ lost' = lost + 1
    /\ conflicts' = conflicts \cup HalfDone(c)
    /\ TurnsTo(c, "failed")
    /\ UNCHANGED <<row, versions, ask, seen, shown, uses>>

RegistryNext ==
    \E c \in Callers :
        \/ \E content \in Contents, status \in {"published", "draft"} : Publish(c, content, status)
        \/ List(c)
        \/ \E id \in shown :
             \/ \E content \in Contents, version \in 0..MaxVersion : Update(c, id, content, version)
             \/ \E status \in Asked : SetStatus(c, id, status)
             \/ \E success \in BOOLEAN : RecordUsage(c, id, success)
        \/ InsertLegacyVersion(c) \/ SetLegacyRow(c)
        \/ InsertRow(c) \/ InsertFirstVersion(c)
        \/ ReadList(c) \/ ReadRow(c) \/ FindDuplicate(c) \/ InsertVersion(c) \/ SetVersion(c)
        \/ SetRowStatus(c) \/ SetVersionStatus(c) \/ SetUsage(c) \/ StatementFails(c)

----------------------------------------
(* What the registry promises.                                             *)

\* The rows versions(skillId) lists, the newest first, and what verify picks of them.
Rows == {i \in 1..Len(versions) : versions[i].uid = row.uid}
Current == {i \in Rows : versions[i].version = row.version}
Newest(S) == CHOOSE i \in S : \A j \in S : j <= i

\* verify.
Verified ==
    /\ Rows # {}
    /\ versions[Newest(IF Current # {} THEN Current ELSE Rows)].hash = Asset(row).latestVersionHash
    /\ Asset(row).account # <<>>

\* reputation: the score as it was last written, with factors of what the row says now.
Reputation(skill) ==
    [score |-> skill.reputationScore,
     factors |-> UsageWeight(skill.usageCount) + SuccessWeight(skill.successRate)
                    + (IF skill.used THEN 200000 ELSE 50000)]

Settled(kind) ==
    /\ row.uid # NoUid
    /\ kind \notin conflicts
    /\ \A b \in Busy : kind \notin Writing(b)

\* verify finds the hash of the current version, whatever usages and changes of status run
\* beside the updates, unless two writers of versions overlapped or one was left half done.
SettledSkillVerifies == Settled("version") => Verified

DidPublish == {"earlier"} \cup {c \in Callers : ask[c].op = "publish"}

\* The version row of the current version has the status of the skill, if it was published
\* here and no update overlapped a change of status.
VersionsFollowStatus ==
    Settled("standing") /\ row.uid \in DidPublish /\ Current # {} =>
        versions[Newest(Current)].status = row.status

\* No usage is counted twice, and none is lost unless two were recorded at once; updates and
\* changes of status lose none.
UsageAddsUp ==
    /\ row.usage <= uses
    /\ row.usage = row.success + row.failure
    /\ Settled("usage") => row.usage = uses

\* The factors that are told of a skill that has been used add up to its score, but for the
\* rounding and for a part of the recency that an update made after a while has left out,
\* unless an update, which scores it by the counts it has read, and a usage overlapped.
Explains(factors, score, age) ==
    LET sum == LesserOf(1000000, factors - LesserOf(200000, age))
    IN  10000 * score \in sum - 5050 .. sum + 5050

FactorsExplainScore ==
    Settled("score") /\ row.usage > 0 =>
        LET told == Reputation(Asset(row))
        IN  \E age \in Ages : Explains(told.factors, told.score, age)

\* An id a client has been given stays the skill's, unless two requests migrated it at once.
ShownIdStays == "migration" \notin conflicts => shown \subseteq {row.uid}

\* The skill's row and those of its versions agree, statement by statement of
\* skillRegistryService.ts, but for what overlapping writers of the same columns have
\* left.
SkillTablesAgree ==
    /\ SettledSkillVerifies
    /\ VersionsFollowStatus
    /\ UsageAddsUp
    /\ FactorsExplainScore
    /\ ShownIdStays
=============================================================================
