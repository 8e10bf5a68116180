----------------------------- MODULE ClawNumbers -----------------------------
(***************************************************************************)
(* The arithmetic of the on-chain programs: u64 amounts with checked,      *)
(* saturating and plain (release-mode, wrapping) addition, basis-point     *)
(* ratios, the sum of the weights of a set of records, and the scores that *)
(* are made of them.                                                       *)
(***************************************************************************)
EXTENDS Integers, FiniteSets

CONSTANTS
  U64Max,   \* the largest u64 (2^64 - 1 on chain; small in a run, so that the limit is reached)
  BpsScale  \* basis points in one whole: 10_000 in the code

ASSUME NumbersAssumption ==
  /\ U64Max \in Nat \ {0}
  /\ BpsScale \in Nat \ {0}

U64 == 0 .. U64Max

Lesser(a, b) == IF a <= b THEN a ELSE b
Greater(a, b) == IF a >= b THEN a ELSE b

SaturatingAdd(a, b) == Lesser(a + b, U64Max)
SaturatingMul(a, b) == Lesser(a * b, U64Max)

(* checked_add succeeds exactly when the sum is a u64; otherwise the       *)
(* instruction fails and the transaction rolls every account back.         *)
Fits(n) == n <= U64Max

(* `+` in a release build without overflow-checks.                         *)
WrappingAdd(a, b) == (a + b) % (U64Max + 1)

(* Fault: rounded up *)
BpsRoundedUp(numerator, denominator) ==
  IF denominator = 0 THEN 0
  ELSE Lesser((SaturatingMul(numerator, BpsScale) + denominator - 1) \div denominator, BpsScale)

(* utils.rs: the ratio in basis points, rounded down, at most BpsScale.    *)
BpsFromRatio(numerator, denominator) ==
  IF denominator = 0 THEN 0
  ELSE Lesser(SaturatingMul(numerator, BpsScale) \div denominator, BpsScale)

(* The sum of r.weight over a finite set S of records, as the size of the  *)
(* set of their single units of weight: a sum without recursion, about     *)
(* which the cardinality theorems can be used.                             *)
Units(S) == {u \in S \X (1 .. U64Max) : u[2] <= u[1].weight}
WeightOf(S) == Cardinality(Units(S))

----------------------------------------
(* The scores, all of them u16 basis points: an agent's trust, a skill's   *)
(* or agent's discovery score, and the rank of a proposal. The casts to    *)
(* u16 follow a cap, so they keep the value; the sums are plain u16        *)
(* additions, which wrap in a release build.                               *)

Wrapped16(n) == n % 65536

Capped(count, cap, points) == Lesser(count, cap) * points

(* Fault: the ratio of the failures *)
FailureBps(success, total) == BpsFromRatio(total - success, Greater(total, 1))

SuccessBps(success, total) == BpsFromRatio(success, Greater(total, 1))

TrustSum(success, failure, authored, deployed) ==
  SuccessBps(success, SaturatingAdd(success, failure)) \div 2
  + Capped(authored, 25, 120) + Capped(deployed, 25, 80)

TrustScore(success, failure, authored, deployed) ==
  Lesser(Wrapped16(TrustSum(success, failure, authored, deployed)), BpsScale)

DiscoverySum(trust, usage, success, versions, published, authored, quality) ==
  trust \div 2 + Capped(usage, 1000, 3) + SuccessBps(success, usage) \div 2
  + Capped(versions, 20, 40) + Capped(published, 50, 50) + Capped(authored, 50, 30)
  + quality \div 2

DiscoveryScore(trust, usage, success, versions, published, authored, quality) ==
  Lesser(Wrapped16(DiscoverySum(trust, usage, success, versions, published, authored, quality)),
         BpsScale)

(* The denominators are plain u64 additions: at the largest u64 they wrap  *)
(* to zero, of which bps_from_ratio makes zero.                            *)
RankScore(yes, no, abstain, total, quorum, threshold) ==
  LET sum == WrappingAdd(yes, no)
      participation == BpsFromRatio(total, WrappingAdd(WrappingAdd(sum, abstain), 1))
      approval == BpsFromRatio(yes, WrappingAdd(sum, 1))
  IN Lesser(quorum \div 2 + threshold \div 2 + participation \div 2 + approval \div 2, BpsScale)
=============================================================================
