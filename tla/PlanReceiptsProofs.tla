------------------------- MODULE PlanReceiptsProofs -------------------------
\* What server/plans keeps, for every set of plans and callers, however
\* many requests overlap and whatever fails.
EXTENDS PlanReceipts, SumTheorems

\* The types of what the store and the requests hold. A hash is the record
\* that is hashed.
Outcome == {"pending", "success", "partial", "failed", "degraded"}
Status == {"generated", "completed", "partially_completed", "failed", "degraded",
           "stored", "anchored"}
Proof == [of : Nat, tx : BOOLEAN, verified : BOOLEAN]

ReceiptWith(H) ==
    [plan : Plans, version : Nat, previous : Nat, wallet : BOOLEAN, status : Status,
     outcome : Outcome, storage : {"remote", "local", None}, solana : Proof \cup {None},
     reflection : BOOLEAN, memory : BOOLEAN, planHash : H]
Receipt == ReceiptWith(ReceiptWith({None}))

ResultWith(S, P, H) ==
    [plan : Plans, receipt : Nat, status : Outcome, reflection : BOOLEAN, memory : BOOLEAN,
     storage : S, solana : P, resultHash : H]
Hash == ResultWith({None}, {None}, {None})
Kept == {"remote", "local"}
Result == ResultWith(Kept, Proof, Hash)

Events == {"plan_created", "plan_stored", "plan_anchored", "plan_anchor_degraded",
           "plan_execution_recorded", "plan_result_recorded", "plan_reflection_linked",
           "plan_memory_linked"} \X Nat

NextSteps ==
    [do : {"finish", "anchor"}]
        \cup [do : {"store"}, receipt : Nat, anchor : BOOLEAN]
        \cup [do : {"apply"}, result : Result]

Awaits ==
    [at : {"idle"}]
        \cup [at : {"saving"}, plan : Plans, events : SUBSET Events, next : NextSteps]
        \cup [at : {"uploading"}, receipt : Nat, anchor : BOOLEAN]
        \cup [at : {"anchoring"}, receipt : Nat, wallet : BOOLEAN]
        \cup [at : {"uploadingResult"}, result : ResultWith({None}, {None}, Hash)]
        \cup [at : {"anchoringResult"}, result : ResultWith(Kept, {None}, Hash)]

Types ==
    /\ receipts \in Seq(Receipt) /\ latestReceipt \in [Plans -> Nat]
    /\ results \in Seq(Result) /\ latestResult \in [Plans -> Nat]
    /\ executions \in Seq(Nat)
    /\ calls \in [Callers -> Awaits]
    /\ started \in 0..MaxRequests /\ patient \in BOOLEAN /\ rejected \in BOOLEAN

\* What is kept of receipts refers to earlier receipts, and the latest of a
\* plan is its last.
ReceiptsFit ==
    /\ \A i \in DOMAIN receipts :
        /\ receipts[i].version \in 1..i
        /\ receipts[i].previous \in 0..(i - 1)
        /\ HashPlan(receipts[i]) = receipts[i].planHash
        /\ receipts[i].solana # None => receipts[i].solana.of \in 1..i
        /\ i <= latestReceipt[receipts[i].plan]
    /\ \A p \in Plans : latestReceipt[p] # 0 =>
        latestReceipt[p] \in DOMAIN receipts /\ receipts[latestReceipt[p]].plan = p

\* The receipt that a result was recorded against is one of its plan.
ForItsPlan(result) ==
    /\ result.receipt \in DOMAIN receipts
    /\ receipts[result.receipt].plan = result.plan

ResultsFit ==
    /\ \A n \in DOMAIN results :
        /\ ForItsPlan(results[n])
        /\ results[n].solana.of \in DOMAIN receipts
        /\ n <= latestResult[results[n].plan]
    /\ \A p \in Plans : latestResult[p] # 0 =>
        latestResult[p] \in DOMAIN results /\ results[latestResult[p]].plan = p

\* The links of a result that is not yet recorded are those it was hashed
\* with.
AsHashed(result) ==
    /\ result.reflection = result.resultHash.reflection
    /\ result.memory = result.resultHash.memory

\* A recorded result says what `result' said when a request took it along.
SaysAsMuch(n, result) ==
    /\ results[n].plan = result.plan /\ results[n].status = result.status
    /\ result.reflection => results[n].reflection
    /\ result.memory => results[n].memory

AwaitFits(s) ==
    /\ s.at \in {"uploading", "anchoring"} => s.receipt \in DOMAIN receipts
    /\ s.at \in {"uploadingResult", "anchoringResult"} =>
        ForItsPlan(s.result) /\ AsHashed(s.result)
    /\ s.at = "saving" =>
        /\ latestReceipt[s.plan] # 0
        /\ s.next.do = "store" => s.next.receipt \in DOMAIN receipts
        /\ s.next.do = "apply" =>
            /\ s.next.result.plan = s.plan
            /\ \E n \in DOMAIN results : SaysAsMuch(n, s.next.result)

CallsFit == \A c \in Callers : AwaitFits(calls[c])

\* An event is in the timeline, or a request that is writing will push it.
Told(e) == e \in timeline \/ \E c \in Callers : calls[c].at = "saving" /\ e \in calls[c].events

EventsTold ==
    /\ \A i \in DOMAIN receipts : receipts[i].previous = 0 => Told(<<"plan_created", i>>)
    /\ \A n \in DOMAIN executions : Told(<<"plan_execution_recorded", n>>)
    /\ \A n \in DOMAIN results :
        /\ Told(<<"plan_result_recorded", n>>)
        /\ results[n].reflection /\ ~results[n].resultHash.reflection =>
                Told(<<"plan_reflection_linked", n>>)
        /\ results[n].memory /\ ~results[n].resultHash.memory =>
                Told(<<"plan_memory_linked", n>>)

ExecutionsFit == \A n \in DOMAIN executions : executions[n] \in DOMAIN receipts

PlanInv ==
    /\ Types /\ ReceiptsFit /\ ResultsFit /\ CallsFit /\ ExecutionsFit
    /\ OutcomeHasResult /\ AnchorsTheLineage
    /\ rejected \/ EventsTold

\* For callers that wait: one request at a time, and it builds on the
\* latest receipt and applies the latest result of its plan.
Alone == \A c, d \in Callers : calls[c] # Idle /\ calls[d] # Idle => c = d

Applying(s) == s.at = "saving" /\ s.next.do = "apply"

BuildsOnLatest(s) ==
    /\ s.at \in {"uploading", "anchoring"} =>
        s.receipt = latestReceipt[receipts[s.receipt].plan]
    /\ s.at = "saving" /\ s.next.do = "store" =>
        s.next.receipt = latestReceipt[receipts[s.next.receipt].plan]
    /\ Applying(s) =>
        latestResult[s.plan] # 0 /\ s.next.result = results[latestResult[s.plan]]

Follows(i, n) ==
    /\ receipts[i].outcome = results[n].status
    /\ results[n].reflection => receipts[i].reflection
    /\ results[n].memory => receipts[i].memory

FollowsSoon(p) ==
    (latestResult[p] # 0 /\ results[latestResult[p]].receipt \in Lineage(latestReceipt[p])) =>
        \/ Follows(latestReceipt[p], latestResult[p])
        \/ \E c \in Callers : Applying(calls[c]) /\ calls[c].plan = p

Turns ==
    /\ Alone
    /\ \A c \in Callers : BuildsOnLatest(calls[c])
    /\ \A i, j \in DOMAIN receipts :
            receipts[i].plan = receipts[j].plan /\ i < j =>
                receipts[i].version < receipts[j].version
    /\ rejected \/ \A p \in Plans : FollowsSoon(p)

TurnInv == patient => Turns
----
\* Sequences.

LEMMA Elements ==
  ASSUME NEW R, NEW s \in Seq(R)
  PROVE  Len(s) \in Nat /\ DOMAIN s = 1..Len(s) /\ \A i \in DOMAIN s : s[i] \in R
OBVIOUS

LEMMA AppendEffect ==
  ASSUME NEW R, NEW s \in Seq(R), NEW x \in R
  PROVE  /\ Append(s, x) \in Seq(R) /\ Len(Append(s, x)) = Len(s) + 1
         /\ DOMAIN Append(s, x) = DOMAIN s \cup {Len(s) + 1}
         /\ \A i \in DOMAIN s : Append(s, x)[i] = s[i]
         /\ Append(s, x)[Len(s) + 1] = x
OBVIOUS

----
\* Lineages.

\* Each receipt but the first of a plan was cloned from an earlier one.
Descends(rs) == Len(rs) \in Nat /\ \A n \in 1..Len(rs) : rs[n].previous \in 0..(n - 1)

\* f tells the lineages of the first m receipts.
Tells(rs, m, f) ==
    f = [n \in 0..m |-> IF n = 0 THEN {0} ELSE {n} \cup f[rs[n].previous]]

LineageIn(rs, i) ==
    LET back == CHOOSE f : Tells(rs, Len(rs), f) IN back[i] \ {0}

LEMMA LineageIsIn == \A i : Lineage(i) = LineageIn(receipts, i)
BY DEF Lineage, LineageIn, Tells

LEMMA SomeTells ==
  ASSUME NEW rs, Descends(rs) PROVE \E f : Tells(rs, Len(rs), f)
<1> DEFINE S == {m \in Nat : m <= Len(rs) => \E f : Tells(rs, m, f)}
<1>1. 0 \in S
 <2>1. Tells(rs, 0, [n \in 0..0 |-> {0}]) BY DEF Tells
 <2>2. QED BY <2>1
<1>2. ASSUME NEW m \in Nat, m \in S PROVE m + 1 \in S
 <2> SUFFICES ASSUME m + 1 <= Len(rs) PROVE \E g : Tells(rs, m + 1, g) OBVIOUS
 <2>1. PICK f : Tells(rs, m, f) BY <1>2 DEF Descends
 <2>2. \A n \in 1..(m + 1) : rs[n].previous \in 0..(n - 1) BY DEF Descends
 <2> DEFINE g == [n \in 0..(m + 1) |-> IF n = m + 1 THEN {n} \cup f[rs[n].previous] ELSE f[n]]
            h == [n \in 0..(m + 1) |-> IF n = 0 THEN {0} ELSE {n} \cup g[rs[n].previous]]
 <2>3. \A n \in 0..m : g[n] = f[n] OBVIOUS
 <2>4. ASSUME NEW n \in 0..(m + 1) PROVE g[n] = h[n]
  <3>1. CASE n = 0 BY <3>1, <2>1 DEF Tells
  <3>2. CASE n # 0
   <4>1. n \in 1..(m + 1) /\ rs[n].previous \in 0..m BY <3>2, <2>2
   <4>2. g[n] = {n} \cup f[rs[n].previous] BY <4>1, <2>1 DEF Tells
   <4> QED BY <3>2, <4>1, <4>2, <2>3
  <3> QED BY <3>1, <3>2
 <2>5. g = h BY <2>4
 <2>6. Tells(rs, m + 1, g) BY <2>5 DEF Tells
 <2> QED BY <2>6
<1> HIDE DEF S
<1>3. Nat \subseteq S BY <1>1, <1>2, NatSetInduction
<1> QED BY <1>3 DEF S, Descends

Alike(rs, ss, m) ==
    \A n \in 1..m : rs[n].previous \in 0..(n - 1) /\ ss[n].previous = rs[n].previous

\* Two such functions agree on the receipts that the sequences share.
LEMMA TellsTheSame ==
  ASSUME NEW rs, NEW ss, NEW m \in Nat, NEW k \in Nat, m <= k, Alike(rs, ss, m),
         NEW f, NEW g, Tells(rs, m, f), Tells(ss, k, g)
  PROVE  \A n \in 0..m : f[n] = g[n]
<1> DEFINE S == {j \in Nat : \A n \in 0..m : n <= j => f[n] = g[n]}
<1>1. 0 \in S BY DEF Tells
<1>2. ASSUME NEW j \in Nat, j \in S PROVE j + 1 \in S
 <2> SUFFICES ASSUME j + 1 <= m PROVE f[j + 1] = g[j + 1] BY <1>2
 <2>1. rs[j + 1].previous \in 0..j /\ ss[j + 1].previous = rs[j + 1].previous BY DEF Alike
 <2>2. f[j + 1] = {j + 1} \cup f[rs[j + 1].previous]
  <3>1. j + 1 \in 0..m /\ j + 1 # 0 OBVIOUS
  <3> QED BY <3>1 DEF Tells
 <2>3. g[j + 1] = {j + 1} \cup g[ss[j + 1].previous]
  <3>1. j + 1 \in 0..k /\ j + 1 # 0 OBVIOUS
  <3> QED BY <3>1 DEF Tells
 <2> QED BY <1>2, <2>1, <2>2, <2>3
<1> HIDE DEF S
<1>3. Nat \subseteq S BY <1>1, <1>2, NatSetInduction
<1> QED BY <1>3 DEF S

LEMMA LineageOf ==
  ASSUME NEW rs, Descends(rs)
  PROVE  /\ LineageIn(rs, 0) = {}
         /\ \A i \in 1..Len(rs) :
                LineageIn(rs, i) = {i} \cup LineageIn(rs, rs[i].previous)
<1> DEFINE back == CHOOSE f : Tells(rs, Len(rs), f)
<1>1. Tells(rs, Len(rs), back) BY SomeTells
<1>2. \A i : LineageIn(rs, i) = back[i] \ {0} BY DEF LineageIn
<1> HIDE DEF back
<1>3. Len(rs) \in Nat /\ back[0] = {0} BY <1>1 DEF Tells, Descends
<1>4. \A i \in 1..Len(rs) : back[i] = {i} \cup back[rs[i].previous] BY <1>1, SMTT(20) DEF Tells
<1> QED BY <1>2, <1>3, <1>4

\* A receipt that is appended leaves the lineages of the others alone.
LEMMA LineageAfter ==
  ASSUME NEW rs, NEW ss, Descends(rs), Descends(ss), Len(rs) <= Len(ss),
         \A n \in 1..Len(rs) : ss[n] = rs[n]
  PROVE  \A i \in 0..Len(rs) : LineageIn(ss, i) = LineageIn(rs, i)
<1> DEFINE f == CHOOSE h : Tells(rs, Len(rs), h)
           g == CHOOSE h : Tells(ss, Len(ss), h)
<1>1. Tells(rs, Len(rs), f) /\ Tells(ss, Len(ss), g) BY SomeTells
<1>2. \A i : LineageIn(rs, i) = f[i] \ {0} /\ LineageIn(ss, i) = g[i] \ {0} BY DEF LineageIn
<1> HIDE DEF f, g
<1>3. \A n \in 0..Len(rs) : f[n] = g[n]
 <2>1. Len(rs) \in Nat /\ Len(ss) \in Nat BY DEF Descends
 <2>2. Alike(rs, ss, Len(rs)) BY DEF Descends, Alike
 <2> QED BY <1>1, <2>1, <2>2, TellsTheSame
<1> QED BY <1>2, <1>3

\* Nothing descends from what comes after it.
LEMMA LineageIsEarlier ==
  ASSUME NEW rs, Descends(rs)
  PROVE  \A i \in 0..Len(rs) : LineageIn(rs, i) \subseteq 1..i
<1> DEFINE S == {j \in Nat : \A i \in 0..Len(rs) : i <= j => LineageIn(rs, i) \subseteq 1..i}
<1>1. 0 \in S BY LineageOf
<1>2. ASSUME NEW j \in Nat, j \in S PROVE j + 1 \in S
 <2> SUFFICES ASSUME j + 1 <= Len(rs) PROVE LineageIn(rs, j + 1) \subseteq 1..(j + 1) BY <1>2 DEF Descends
 <2>1. rs[j + 1].previous \in 0..j /\ j + 1 \in 1..Len(rs) BY DEF Descends
 <2>2. LineageIn(rs, j + 1) = {j + 1} \cup LineageIn(rs, rs[j + 1].previous) BY <2>1, LineageOf
 <2>3. LineageIn(rs, rs[j + 1].previous) \subseteq 1..rs[j + 1].previous BY <1>2, <2>1 DEF Descends
 <2> QED BY <2>1, <2>2, <2>3
<1> HIDE DEF S
<1>3. Nat \subseteq S BY <1>1, <1>2, NatSetInduction
<1>4. ASSUME NEW i \in 0..Len(rs) PROVE LineageIn(rs, i) \subseteq 1..i
 <2>1. i \in S /\ i <= i BY <1>3 DEF Descends
 <2> QED BY <2>1 DEF S
<1> QED BY <1>4

----
\* What the records of a step are.

LEMMA SealedEffect ==
  ASSUME NEW H, NEW r \in ReceiptWith(H)
  PROVE  /\ Sealed(r) \in Receipt
         /\ HashPlan(Sealed(r)) = Sealed(r).planHash
         /\ Sealed(r).plan = r.plan /\ Sealed(r).version = r.version
         /\ Sealed(r).previous = r.previous /\ Sealed(r).outcome = r.outcome
         /\ Sealed(r).solana = r.solana /\ Sealed(r).reflection = r.reflection
         /\ Sealed(r).memory = r.memory /\ Sealed(r).wallet = r.wallet
<1>1. HashPlan(r) \in ReceiptWith({None}) BY DEF HashPlan, ReceiptWith
<1>2. Sealed(r) \in Receipt BY <1>1 DEF Sealed, Receipt, ReceiptWith
<1>3. /\ Sealed(r).plan = r.plan /\ Sealed(r).version = r.version
      /\ Sealed(r).previous = r.previous /\ Sealed(r).outcome = r.outcome
      /\ Sealed(r).solana = r.solana /\ Sealed(r).reflection = r.reflection
      /\ Sealed(r).memory = r.memory /\ Sealed(r).wallet = r.wallet
      /\ Sealed(r).planHash = HashPlan(r)
  BY DEF Sealed, ReceiptWith
<1>4. HashPlan(Sealed(r)) = HashPlan(r) BY DEF Sealed, HashPlan, ReceiptWith
<1> QED BY <1>2, <1>3, <1>4

\* k is a sealed clone of the receipt i.
Clones(k, i) ==
    /\ k \in Receipt /\ HashPlan(k) = k.planHash
    /\ k.plan = receipts[i].plan /\ k.version = receipts[i].version + 1 /\ k.previous = i

KeepsClaims(k, i) ==
    /\ k.outcome = receipts[i].outcome /\ k.reflection = receipts[i].reflection
    /\ k.memory = receipts[i].memory

LEMMA CloneEffect ==
  ASSUME Types, NEW i \in DOMAIN receipts, NEW r \in Receipt, r.plan = receipts[i].plan
  PROVE  /\ Clones(CloneWithChanges(i, r), i)
         /\ CloneWithChanges(i, r).outcome = r.outcome
         /\ CloneWithChanges(i, r).reflection = r.reflection
         /\ CloneWithChanges(i, r).memory = r.memory
         /\ CloneWithChanges(i, r).solana = r.solana
<1> DEFINE k == [r EXCEPT !.version = receipts[i].version + 1, !.previous = i]
           H == ReceiptWith({None})
<1>1. receipts[i].version \in Nat /\ i \in Nat
 <2>1. receipts[i] \in Receipt /\ i \in Nat BY DEF Types
 <2> QED BY <2>1 DEF Receipt, ReceiptWith
<1>2. k \in ReceiptWith(H)
 <2>1. r \in ReceiptWith(H) BY DEF Receipt
 <2> DEFINE v == receipts[i].version + 1
 <2>2. v \in Nat BY <1>1
 <2>3. k = [r EXCEPT !.version = v, !.previous = i] OBVIOUS
 <2> HIDE DEF H, k, v
 <2> QED BY <1>1, <2>1, <2>2, <2>3 DEF ReceiptWith
<1>3. /\ k.plan = r.plan /\ k.version = receipts[i].version + 1 /\ k.previous = i
      /\ k.outcome = r.outcome /\ k.reflection = r.reflection /\ k.memory = r.memory
      /\ k.solana = r.solana
  BY DEF Receipt, ReceiptWith
<1>4. CloneWithChanges(i, r) = Sealed(k) BY DEF CloneWithChanges
<1> HIDE DEF k, H
<1> QED BY <1>2, <1>3, <1>4, SealedEffect DEF Clones

LEMMA StorageEffect ==
  ASSUME Types, NEW i \in DOMAIN receipts, NEW ok \in BOOLEAN
  PROVE  /\ Clones(WithStorage(i, ok), i) /\ KeepsClaims(WithStorage(i, ok), i)
         /\ WithStorage(i, ok).solana = receipts[i].solana
<1> DEFINE r == [receipts[i] EXCEPT !.status = IF ok THEN "stored" ELSE "degraded",
                                    !.storage = Stored(ok)]
<1>1. receipts[i] \in Receipt BY DEF Types
<1>2. r \in Receipt BY <1>1 DEF Receipt, ReceiptWith, Status, Stored
<1>3. /\ r.plan = receipts[i].plan /\ r.outcome = receipts[i].outcome
      /\ r.reflection = receipts[i].reflection /\ r.memory = receipts[i].memory
      /\ r.solana = receipts[i].solana
  BY <1>1 DEF Receipt, ReceiptWith
<1>4. WithStorage(i, ok) = CloneWithChanges(i, r) BY DEF WithStorage
<1> HIDE DEF r
<1> QED BY <1>2, <1>3, <1>4, CloneEffect DEF KeepsClaims

LEMMA AnchorEffect ==
  ASSUME Types, NEW i \in DOMAIN receipts, NEW wallet \in BOOLEAN, NEW answer
  PROVE  /\ Clones(WithAnchor(i, wallet, answer), i)
         /\ KeepsClaims(WithAnchor(i, wallet, answer), i)
         /\ WithAnchor(i, wallet, answer).solana.of = i
<1> DEFINE r == [receipts[i] EXCEPT !.status = IF answer = "error" THEN "degraded" ELSE "anchored",
                                    !.wallet = wallet,
                                    !.solana = Anchor(i, answer)]
<1>1. receipts[i] \in Receipt /\ i \in Nat BY DEF Types
<1>2. Anchor(i, answer) \in Proof /\ Anchor(i, answer).of = i BY <1>1 DEF Anchor, Proof
<1>3. r \in Receipt BY <1>1, <1>2 DEF Receipt, ReceiptWith, Status
<1>4. /\ r.plan = receipts[i].plan /\ r.outcome = receipts[i].outcome
      /\ r.reflection = receipts[i].reflection /\ r.memory = receipts[i].memory
      /\ r.solana = Anchor(i, answer)
  BY <1>1 DEF Receipt, ReceiptWith
<1>5. WithAnchor(i, wallet, answer) = CloneWithChanges(i, r) BY DEF WithAnchor
<1> HIDE DEF r
<1> QED BY <1>2, <1>3, <1>4, <1>5, CloneEffect DEF KeepsClaims

LEMMA ResultEffect ==
  ASSUME Types, NEW i \in DOMAIN receipts, NEW result \in Result
  PROVE  /\ Clones(WithResult(i, result), i)
         /\ WithResult(i, result).solana = receipts[i].solana
         /\ WithResult(i, result).outcome = result.status
         /\ WithResult(i, result).reflection = (result.reflection \/ receipts[i].reflection)
         /\ WithResult(i, result).memory = (result.memory \/ receipts[i].memory)
<1> DEFINE refl == result.reflection \/ receipts[i].reflection
           mem == result.memory \/ receipts[i].memory
           r == [receipts[i] EXCEPT !.outcome = result.status, !.status = StatusOf(result.status),
                                    !.reflection = refl, !.memory = mem]
<1>1. receipts[i] \in Receipt BY DEF Types
<1>2. refl \in BOOLEAN /\ mem \in BOOLEAN OBVIOUS
<1>3. WithResult(i, result) = CloneWithChanges(i, r) BY <1>1 DEF WithResult, Receipt, ReceiptWith
<1> HIDE DEF refl, mem
<1>4. result.status \in Outcome /\ StatusOf(result.status) \in Status
  BY DEF Result, ResultWith, StatusOf, Status, Outcome
<1>5. r \in Receipt BY <1>1, <1>2, <1>4 DEF Receipt, ReceiptWith
<1>6. /\ r.plan = receipts[i].plan /\ r.outcome = result.status
      /\ r.reflection = refl /\ r.memory = mem /\ r.solana = receipts[i].solana
  BY <1>1 DEF Receipt, ReceiptWith
<1> HIDE DEF r
<1> QED BY <1>3, <1>5, <1>6, CloneEffect DEF refl, mem

----
\* What a step may do to receipts and results.

\* A receipt that may be saved.
Fresh(r) ==
    /\ r \in Receipt /\ HashPlan(r) = r.planHash
    /\ r.version \in 1..(Len(receipts) + 1) /\ r.previous \in 0..Len(receipts)
    /\ r.solana # None => r.solana.of \in LineageIn(receipts, r.previous)

BackedBy(p) == {n \in DOMAIN results : results[n].plan = p}

Backed(r) ==
    /\ r.outcome # "pending" => \E n \in BackedBy(r.plan) : results[n].status = r.outcome
    /\ r.reflection => \E n \in BackedBy(r.plan) : results[n].reflection
    /\ r.memory => \E n \in BackedBy(r.plan) : results[n].memory

ReceiptsMove ==
    \/ UnchangedReceipts
    \/ \E r : Fresh(r) /\ Backed(r) /\ SaveReceipt(r)

ReceiptsGrow ==
    /\ DOMAIN receipts \subseteq DOMAIN receipts'
    /\ \A i \in DOMAIN receipts : receipts'[i] = receipts[i]
    /\ \A p \in Plans : latestReceipt[p] # 0 => latestReceipt'[p] # 0

LEMMA TheyDescend ==
  ASSUME Types, ReceiptsFit PROVE Descends(receipts)
BY Elements DEF Types, ReceiptsFit, Descends

LEMMA CloneIsFresh ==
  ASSUME Types, ReceiptsFit, AnchorsTheLineage, NEW i \in DOMAIN receipts,
         NEW k, Clones(k, i), k.solana = receipts[i].solana \/ k.solana.of = i
  PROVE  Fresh(k)
<1>1. Len(receipts) \in Nat /\ i \in 1..Len(receipts) BY Elements DEF Types
<1>2. receipts[i].version \in 1..i BY DEF ReceiptsFit
<1>3. k.version \in 1..(Len(receipts) + 1) /\ k.previous \in 0..Len(receipts) BY <1>1, <1>2 DEF Clones
<1>4. i \in LineageIn(receipts, i) BY <1>1, TheyDescend, LineageOf
<1>5. receipts[i].solana # None => receipts[i].solana.of \in LineageIn(receipts, i)
  BY LineageIsIn DEF AnchorsTheLineage
<1> QED BY <1>3, <1>4, <1>5 DEF Fresh, Clones

LEMMA KeptIsBacked ==
  ASSUME OutcomeHasResult, NEW i \in DOMAIN receipts, NEW k, Clones(k, i), KeepsClaims(k, i)
  PROVE  Backed(k)
BY DEF OutcomeHasResult, Clones, KeepsClaims, Backed, BackedBy

LEMMA ReceiptsStep ==
  ASSUME Types, ReceiptsFit, AnchorsTheLineage, ReceiptsMove
  PROVE  /\ receipts' \in Seq(Receipt) /\ latestReceipt' \in [Plans -> Nat]
         /\ ReceiptsFit' /\ AnchorsTheLineage' /\ ReceiptsGrow
<1>1. CASE UnchangedReceipts
 <2>1. receipts' = receipts /\ latestReceipt' = latestReceipt BY <1>1 DEF UnchangedReceipts
 <2>2. \A i : Lineage(i)' = Lineage(i) BY <2>1 DEF Lineage
 <2> QED BY <2>1, <2>2 DEF Types, ReceiptsFit, AnchorsTheLineage, ReceiptsGrow
<1>2. CASE \E r : Fresh(r) /\ Backed(r) /\ SaveReceipt(r)
 <2>1. PICK r : Fresh(r) /\ SaveReceipt(r) BY <1>2
 <2> DEFINE k == Len(receipts) + 1
 <2>2. /\ receipts \in Seq(Receipt) /\ r \in Receipt /\ r.plan \in Plans
       /\ latestReceipt \in [Plans -> Nat]
   BY <2>1 DEF Types, Fresh, Receipt, ReceiptWith
 <2>3. receipts' = Append(receipts, r) /\ latestReceipt' = [latestReceipt EXCEPT ![r.plan] = k]
   BY <2>1 DEF SaveReceipt
 <2>4. /\ receipts' \in Seq(Receipt) /\ Len(receipts') = k /\ k \in Nat
       /\ DOMAIN receipts' = DOMAIN receipts \cup {k}
       /\ \A i \in DOMAIN receipts : receipts'[i] = receipts[i]
       /\ receipts'[k] = r /\ k \notin DOMAIN receipts
       /\ Len(receipts) \in Nat /\ DOMAIN receipts = 1..Len(receipts)
       /\ k = Len(receipts) + 1 /\ \A i \in DOMAIN receipts : i < k
   BY <2>2, <2>3, AppendEffect, Elements
 <2>5. /\ latestReceipt' \in [Plans -> Nat] /\ latestReceipt'[r.plan] = k
       /\ \A p \in Plans \ {r.plan} : latestReceipt'[p] = latestReceipt[p]
   BY <2>2, <2>3, <2>4
 <2>6. ReceiptsGrow BY <2>4, <2>5 DEF ReceiptsGrow
 <2>7. /\ HashPlan(r) = r.planHash /\ r.version \in 1..k /\ r.previous \in 0..(k - 1)
       /\ r.previous \in 0..Len(receipts)
       /\ r.solana # None => r.solana.of \in LineageIn(receipts, r.previous)
   BY <2>1, <2>4 DEF Fresh
 <2> HIDE DEF k
 <2>8. Descends(receipts) /\ \A i \in DOMAIN receipts : receipts[i].plan \in Plans
  <3>1. \A i \in DOMAIN receipts : receipts[i] \in Receipt BY <2>2, Elements
  <3> QED BY <3>1, TheyDescend DEF Receipt, ReceiptWith
 <2>9. Descends(receipts')
  <3> SUFFICES ASSUME NEW n \in 1..Len(receipts') PROVE receipts'[n].previous \in 0..(n - 1) BY <2>4 DEF Descends
  <3>1. CASE n \in DOMAIN receipts BY <2>4, <2>8, <3>1 DEF Descends
  <3>2. CASE n = k BY <2>4, <2>7, <3>2
  <3> QED BY <2>4, <3>1, <3>2
 <2>10. \A i \in 0..Len(receipts) : LineageIn(receipts', i) = LineageIn(receipts, i)
  <3>1. Len(receipts) <= Len(receipts') /\ \A n \in 1..Len(receipts) : receipts'[n] = receipts[n] BY <2>4
  <3> QED BY <2>8, <2>9, <3>1, LineageAfter
 <2>11. LineageIn(receipts', k) = {k} \cup LineageIn(receipts, r.previous)
  <3>1. k \in 1..Len(receipts') /\ r.previous \in 0..Len(receipts) BY <2>4, <2>7
  <3> QED BY <2>4, <2>9, <2>10, <3>1, LineageOf
 <2>12. AnchorsTheLineage'
  <3> SUFFICES ASSUME NEW i \in DOMAIN receipts', receipts'[i].solana # None
               PROVE  receipts'[i].solana.of \in LineageIn(receipts', i) \ {i}
    BY LineageIsIn DEF AnchorsTheLineage, LineageIn, Lineage, Tells
  <3>1. CASE i \in DOMAIN receipts BY <2>4, <2>10, <3>1, LineageIsIn DEF AnchorsTheLineage
  <3>2. CASE i = k
   <4>1. r.previous \in 0..Len(receipts) BY <2>4, <2>7
   <4>2. LineageIn(receipts, r.previous) \subseteq 1..r.previous BY <2>8, <4>1, LineageIsEarlier
   <4> QED BY <2>4, <2>7, <2>11, <3>2, <4>1, <4>2
  <3> QED BY <2>4, <3>1, <3>2
 <2>13. r.solana # None => r.solana.of \in 1..k
  <3>1. r.previous \in 0..Len(receipts) BY <2>4, <2>7
  <3>2. LineageIn(receipts, r.previous) \subseteq 1..r.previous BY <2>8, <3>1, LineageIsEarlier
  <3> QED BY <2>4, <2>7, <3>1, <3>2
 <2>14. ReceiptsFit'
  <3>1. ASSUME NEW i \in DOMAIN receipts'
        PROVE  /\ receipts'[i].version \in 1..i
               /\ receipts'[i].previous \in 0..(i - 1)
               /\ HashPlan(receipts'[i]) = receipts'[i].planHash
               /\ receipts'[i].solana # None => receipts'[i].solana.of \in 1..i
               /\ i <= latestReceipt'[receipts'[i].plan]
   <4>1. CASE i \in DOMAIN receipts
    <5>1. receipts'[i] = receipts[i] /\ receipts[i].plan \in Plans /\ i < k BY <2>4, <2>8, <4>1
    <5>2. i <= latestReceipt'[receipts[i].plan] BY <2>4, <2>5, <4>1, <5>1 DEF ReceiptsFit
    <5> QED BY <4>1, <5>1, <5>2 DEF ReceiptsFit
   <4>2. CASE i = k BY <2>4, <2>5, <2>7, <2>13, <4>2
   <4> QED BY <2>4, <4>1, <4>2
  <3>2. ASSUME NEW p \in Plans, latestReceipt'[p] # 0
        PROVE  latestReceipt'[p] \in DOMAIN receipts' /\ receipts'[latestReceipt'[p]].plan = p
   <4>1. CASE p = r.plan BY <2>4, <2>5, <4>1
   <4>2. CASE p # r.plan BY <2>4, <2>5, <3>2, <4>2 DEF ReceiptsFit
   <4> QED BY <4>1, <4>2
  <3> QED BY <3>1, <3>2 DEF ReceiptsFit, HashPlan
 <2> QED BY <2>4, <2>5, <2>6, <2>12, <2>14
<1> QED BY <1>1, <1>2 DEF ReceiptsMove

\* A recorded result that was linked.
LinkedFrom(n, linked) ==
    /\ linked.plan = results[n].plan /\ linked.receipt = results[n].receipt
    /\ linked.status = results[n].status /\ linked.solana = results[n].solana
    /\ linked.resultHash = results[n].resultHash
    /\ results[n].reflection => linked.reflection
    /\ results[n].memory => linked.memory

Records(result) ==
    /\ results' = Append(results, result)
    /\ latestResult' = [latestResult EXCEPT ![result.plan] = NextResult]

Recordable(result) ==
    /\ result \in Result
    /\ ForItsPlan(result) /\ AsHashed(result) /\ result.solana.of \in DOMAIN receipts

ResultsMove ==
    \/ UnchangedResults
    \/ \E result : Recordable(result) /\ Records(result)
    \/ \E n \in DOMAIN results, linked \in Result :
        LinkedFrom(n, linked) /\ results' = [results EXCEPT ![n] = linked] /\ UNCHANGED latestResult

ResultsGrow ==
    /\ DOMAIN results \subseteq DOMAIN results'
    /\ \A n \in DOMAIN results :
        /\ results'[n].plan = results[n].plan /\ results'[n].receipt = results[n].receipt
        /\ results'[n].status = results[n].status /\ results'[n].resultHash = results[n].resultHash
        /\ results[n].reflection => results'[n].reflection
        /\ results[n].memory => results'[n].memory

LEMMA ResultsStep ==
  ASSUME Types, ReceiptsFit, ResultsFit, ReceiptsMove, ResultsMove
  PROVE  /\ results' \in Seq(Result) /\ latestResult' \in [Plans -> Nat]
         /\ ResultsFit' /\ ResultsGrow
<1>1. ReceiptsGrow
 <2>1. CASE UnchangedReceipts BY <2>1 DEF UnchangedReceipts, ReceiptsGrow
 <2>2. CASE \E r : Fresh(r) /\ Backed(r) /\ SaveReceipt(r)
  <3>1. PICK r : Fresh(r) /\ SaveReceipt(r) BY <2>2
  <3>2. /\ receipts \in Seq(Receipt) /\ r \in Receipt /\ r.plan \in Plans
        /\ latestReceipt \in [Plans -> Nat] /\ Len(receipts) \in Nat
    BY <3>1, Elements DEF Types, Fresh, Receipt, ReceiptWith
  <3>3. /\ DOMAIN receipts \subseteq DOMAIN receipts'
        /\ \A i \in DOMAIN receipts : receipts'[i] = receipts[i]
    BY <3>1, <3>2, AppendEffect DEF SaveReceipt
  <3>4. \A p \in Plans : latestReceipt[p] # 0 => latestReceipt'[p] # 0 BY <3>1, <3>2 DEF SaveReceipt
  <3> QED BY <3>3, <3>4 DEF ReceiptsGrow
 <2> QED BY <2>1, <2>2 DEF ReceiptsMove
<1>2. /\ results \in Seq(Result) /\ latestResult \in [Plans -> Nat]
      /\ Len(results) \in Nat /\ DOMAIN results = 1..Len(results)
      /\ \A n \in DOMAIN results : results[n] \in Result /\ results[n].plan \in Plans
 <2>1. /\ results \in Seq(Result) /\ latestResult \in [Plans -> Nat]
       /\ Len(results) \in Nat /\ DOMAIN results = 1..Len(results)
       /\ \A n \in DOMAIN results : results[n] \in Result
   BY Elements DEF Types
 <2> QED BY <2>1 DEF Result, ResultWith
<1>3. ASSUME NEW x, ForItsPlan(x) PROVE ForItsPlan(x)' BY <1>1, <1>3 DEF ForItsPlan, ReceiptsGrow
<1>4. CASE UnchangedResults
  BY <1>1, <1>2, <1>4 DEF UnchangedResults, ResultsFit, ResultsGrow, ForItsPlan, ReceiptsGrow
<1>5. CASE \E result : Recordable(result) /\ Records(result)
 <2>1. PICK result : Recordable(result) /\ Records(result) BY <1>5
 <2> DEFINE k == Len(results) + 1
 <2>2. result \in Result /\ result.plan \in Plans BY <2>1 DEF Recordable, Result, ResultWith
 <2>3. /\ results' \in Seq(Result) /\ k \in Nat /\ k \notin DOMAIN results
       /\ DOMAIN results' = DOMAIN results \cup {k}
       /\ \A n \in DOMAIN results : results'[n] = results[n]
       /\ results'[k] = result
   BY <1>2, <2>1, <2>2, AppendEffect DEF Records
 <2>4. /\ latestResult' \in [Plans -> Nat] /\ latestResult'[result.plan] = k
       /\ \A p \in Plans \ {result.plan} : latestResult'[p] = latestResult[p]
   BY <1>2, <2>1, <2>2 DEF Records, NextResult
 <2> HIDE DEF k
 <2>5. ResultsGrow BY <2>3 DEF ResultsGrow
 <2>6. ForItsPlan(result)' /\ result.solana.of \in DOMAIN receipts'
   BY <1>1, <2>1 DEF Recordable, ReceiptsGrow, ForItsPlan
 <2>7. ASSUME NEW n \in DOMAIN results'
       PROVE  /\ results'[n].receipt \in DOMAIN receipts'
              /\ receipts'[results'[n].receipt].plan = results'[n].plan
              /\ results'[n].solana.of \in DOMAIN receipts'
              /\ n <= latestResult'[results'[n].plan]
  <3>1. CASE n = k BY <2>3, <2>4, <2>6, <3>1 DEF ForItsPlan
  <3>2. CASE n \in DOMAIN results
   <4>1. n < k BY <1>2, <3>2 DEF k
   <4>2. n <= latestResult'[results[n].plan]
    <5>1. results[n].plan \in Plans /\ n <= latestResult[results[n].plan] BY <1>2, <3>2 DEF ResultsFit
    <5>2. CASE results[n].plan = result.plan
     <6>1. n \in Nat /\ k \in Nat BY <1>2, <2>3, <3>2
     <6> QED BY <2>4, <4>1, <5>2, <6>1
    <5>3. CASE results[n].plan # result.plan BY <2>4, <5>1, <5>3
    <5> QED BY <5>2, <5>3
   <4> QED BY <1>1, <2>3, <3>2, <4>2 DEF ResultsFit, ForItsPlan, ReceiptsGrow
  <3> QED BY <2>3, <3>1, <3>2
 <2>8. ASSUME NEW p \in Plans, latestResult'[p] # 0
       PROVE  latestResult'[p] \in DOMAIN results' /\ results'[latestResult'[p]].plan = p
  <3>1. CASE p = result.plan BY <2>3, <2>4, <3>1
  <3>2. CASE p # result.plan BY <2>3, <2>4, <2>8, <3>2 DEF ResultsFit
  <3> QED BY <3>1, <3>2
 <2> QED BY <2>3, <2>4, <2>5, <2>7, <2>8 DEF ResultsFit, ForItsPlan
<1>6. CASE \E n \in DOMAIN results, linked \in Result :
             LinkedFrom(n, linked) /\ results' = [results EXCEPT ![n] = linked]
               /\ UNCHANGED latestResult
 <2>1. PICK n \in DOMAIN results, linked \in Result :
            LinkedFrom(n, linked) /\ results' = [results EXCEPT ![n] = linked]
              /\ UNCHANGED latestResult
   BY <1>6
 <2>2. /\ results' \in Seq(Result) /\ DOMAIN results' = DOMAIN results
       /\ results'[n] = linked /\ \A m \in DOMAIN results \ {n} : results'[m] = results[m]
   BY <1>2, <2>1
 <2>3. \A m \in DOMAIN results : /\ results'[m].plan = results[m].plan
                                 /\ results'[m].receipt = results[m].receipt
                                 /\ results'[m].solana = results[m].solana
   BY <2>1, <2>2 DEF LinkedFrom
 <2>4. ResultsGrow BY <2>1, <2>2 DEF ResultsGrow, LinkedFrom
 <2>5. ResultsFit' BY <1>1, <2>1, <2>2, <2>3 DEF ResultsFit, ForItsPlan, ReceiptsGrow
 <2> QED BY <1>2, <2>1, <2>2, <2>4, <2>5
<1> QED BY <1>4, <1>5, <1>6 DEF ResultsMove

LEMMA OutcomesStep ==
  ASSUME Types, OutcomeHasResult, ReceiptsMove, ResultsGrow PROVE OutcomeHasResult'
<1> DEFINE Said(r) ==
             /\ r.outcome # "pending" =>
                    \E n \in DOMAIN results' : results'[n].plan = r.plan /\ results'[n].status = r.outcome
             /\ r.reflection => \E n \in DOMAIN results' : results'[n].plan = r.plan /\ results'[n].reflection
             /\ r.memory => \E n \in DOMAIN results' : results'[n].plan = r.plan /\ results'[n].memory
<1>1. ASSUME NEW r, Backed(r) PROVE Said(r) BY <1>1 DEF Backed, BackedBy, ResultsGrow
<1>2. \A i \in DOMAIN receipts : Backed(receipts[i]) BY DEF OutcomeHasResult, Backed, BackedBy
<1>3. \A i \in DOMAIN receipts' : Said(receipts'[i])
 <2>1. CASE UnchangedReceipts BY <1>1, <1>2, <2>1 DEF UnchangedReceipts
 <2>2. CASE \E r : Fresh(r) /\ Backed(r) /\ SaveReceipt(r)
  <3>1. PICK r : Fresh(r) /\ Backed(r) /\ SaveReceipt(r) BY <2>2
  <3>2. /\ DOMAIN receipts' = DOMAIN receipts \cup {Len(receipts) + 1}
        /\ \A i \in DOMAIN receipts : receipts'[i] = receipts[i]
        /\ receipts'[Len(receipts) + 1] = r
    BY <3>1, AppendEffect DEF Types, Fresh, SaveReceipt
  <3> HIDE DEF Said
  <3> QED BY <1>1, <1>2, <3>1, <3>2
 <2> QED BY <2>1, <2>2 DEF ReceiptsMove
<1> QED BY <1>3 DEF OutcomeHasResult

----
\* What a step may do to the requests and the timeline.

Moves(c, s) == s \in Awaits /\ calls' = [calls EXCEPT ![c] = s]

LEMMA AwaitStays ==
  ASSUME NEW t \in Awaits, AwaitFits(t), ReceiptsGrow, ResultsGrow
  PROVE  AwaitFits(t)'
<1>1. t.at \in {"uploading", "anchoring"} => t.receipt \in DOMAIN receipts' BY DEF AwaitFits, ReceiptsGrow
<1>2. ASSUME NEW x, ForItsPlan(x) PROVE ForItsPlan(x)' BY <1>2 DEF ForItsPlan, ReceiptsGrow
<1>3. ASSUME NEW x, NEW n \in DOMAIN results, SaysAsMuch(n, x)
      PROVE  n \in DOMAIN results' /\ SaysAsMuch(n, x)'
  BY <1>3 DEF SaysAsMuch, ResultsGrow
<1>4. t.at \in {"uploadingResult", "anchoringResult"} =>
        ForItsPlan(t.result)' /\ AsHashed(t.result)
  BY <1>2 DEF AwaitFits
<1>5. ASSUME t.at = "saving"
      PROVE  /\ latestReceipt'[t.plan] # 0
             /\ t.next.do = "store" => t.next.receipt \in DOMAIN receipts'
             /\ t.next.do = "apply" =>
                 /\ t.next.result.plan = t.plan
                 /\ \E n \in DOMAIN results' : SaysAsMuch(n, t.next.result)'
 <2>1. t.plan \in Plans BY <1>5 DEF Awaits
 <2> QED BY <1>3, <1>5, <2>1 DEF AwaitFits, ReceiptsGrow
<1> QED BY <1>1, <1>4, <1>5 DEF AwaitFits, AsHashed

LEMMA CallsStep ==
  ASSUME Types, CallsFit, ReceiptsGrow, ResultsGrow,
         NEW c \in Callers, NEW s, Moves(c, s), AwaitFits(s)'
  PROVE  calls' \in [Callers -> Awaits] /\ CallsFit'
<1>1. /\ calls' \in [Callers -> Awaits] /\ calls'[c] = s
      /\ \A d \in Callers \ {c} : calls'[d] = calls[d] /\ calls[d] \in Awaits
  BY DEF Types, Moves
<1>2. ASSUME NEW d \in Callers PROVE AwaitFits(calls[d])'
 <2>1. PICK t : t = calls'[d] OBVIOUS
 <2>2. AwaitFits(t)'
  <3>1. CASE d = c BY <1>1, <2>1, <3>1
  <3>2. CASE d # c
   <4>1. t \in Awaits /\ AwaitFits(t) BY <1>1, <2>1, <3>2 DEF CallsFit
   <4> QED BY <4>1, AwaitStays
  <3> QED BY <3>1, <3>2
 <2> QED BY <2>1, <2>2 DEF AwaitFits, ForItsPlan, AsHashed, SaysAsMuch
<1> QED BY <1>1, <1>2 DEF CallsFit

\* The events a request was to push are in the timeline once it goes on.
Pushes(c) ==
    /\ timeline \subseteq timeline'
    /\ calls[c].at = "saving" => calls[c].events \subseteq timeline'

Will(s, e) == s.at = "saving" /\ e \in s.events

\* And it will push the events of what it has just changed.
NewsTold(s) ==
    /\ \A i \in DOMAIN receipts' \ DOMAIN receipts :
        receipts'[i].previous = 0 => Will(s, <<"plan_created", i>>)
    /\ \A n \in DOMAIN executions' \ DOMAIN executions :
        Will(s, <<"plan_execution_recorded", n>>)
    /\ \A n \in DOMAIN results' \ DOMAIN results :
        Will(s, <<"plan_result_recorded", n>>) /\ AsHashed(results'[n])
    /\ \A n \in DOMAIN results :
        /\ results'[n].reflection /\ ~results[n].reflection =>
                Will(s, <<"plan_reflection_linked", n>>)
        /\ results'[n].memory /\ ~results[n].memory => Will(s, <<"plan_memory_linked", n>>)

ExecutionsMove ==
    \/ UNCHANGED executions
    \/ \E i \in DOMAIN receipts : executions' = Append(executions, i)

LEMMA ExecutionsStep ==
  ASSUME Types, ExecutionsFit, ExecutionsMove, ReceiptsGrow
  PROVE  executions' \in Seq(Nat) /\ ExecutionsFit' /\ DOMAIN executions \subseteq DOMAIN executions'
<1>1. executions \in Seq(Nat) /\ \A i \in DOMAIN receipts : i \in Nat BY Elements DEF Types
<1>2. CASE UNCHANGED executions BY <1>1, <1>2 DEF ExecutionsFit, ReceiptsGrow
<1>3. CASE \E i \in DOMAIN receipts : executions' = Append(executions, i)
 <2>1. PICK i \in DOMAIN receipts : executions' = Append(executions, i) BY <1>3
 <2>2. /\ executions' \in Seq(Nat) /\ DOMAIN executions' = DOMAIN executions \cup {Len(executions) + 1}
       /\ \A n \in DOMAIN executions : executions'[n] = executions[n]
       /\ executions'[Len(executions) + 1] = i
   BY <1>1, <2>1, AppendEffect
 <2> QED BY <2>1, <2>2 DEF ExecutionsFit, ReceiptsGrow
<1> QED BY <1>2, <1>3 DEF ExecutionsMove

LEMMA EventsStep ==
  ASSUME Types, EventsTold, NEW c \in Callers, NEW s, Moves(c, s), Pushes(c), NewsTold(s),
         ReceiptsGrow, ResultsGrow, DOMAIN executions \subseteq DOMAIN executions'
  PROVE  EventsTold'
<1>1. /\ calls'[c] = s /\ \A d \in Callers \ {c} : calls'[d] = calls[d] BY DEF Types, Moves
<1>2. ASSUME NEW e, Told(e) PROVE Told(e)' BY <1>1, <1>2 DEF Told, Pushes
<1>3. ASSUME NEW e, Will(s, e) PROVE Told(e)' BY <1>1, <1>3 DEF Told, Will
<1> HIDE DEF Told
<1>4. ASSUME NEW i \in DOMAIN receipts', receipts'[i].previous = 0
      PROVE  Told(<<"plan_created", i>>)'
  BY <1>2, <1>3, <1>4 DEF EventsTold, NewsTold, ReceiptsGrow
<1>5. ASSUME NEW n \in DOMAIN executions'
      PROVE  Told(<<"plan_execution_recorded", n>>)'
  BY <1>2, <1>3, <1>5 DEF EventsTold, NewsTold
<1>6. ASSUME NEW n \in DOMAIN results'
      PROVE  /\ Told(<<"plan_result_recorded", n>>)'
             /\ results'[n].reflection /\ ~results'[n].resultHash.reflection =>
                    Told(<<"plan_reflection_linked", n>>)'
             /\ results'[n].memory /\ ~results'[n].resultHash.memory =>
                    Told(<<"plan_memory_linked", n>>)'
 <2>1. CASE n \notin DOMAIN results
  <3>1. Told(<<"plan_result_recorded", n>>)' /\ AsHashed(results'[n]) BY <1>3, <2>1 DEF NewsTold
  <3> QED BY <3>1 DEF AsHashed
 <2>2. CASE n \in DOMAIN results
  <3>1. results'[n].resultHash = results[n].resultHash BY <2>2 DEF ResultsGrow
  <3>2. Told(<<"plan_result_recorded", n>>)' BY <1>2, <2>2 DEF EventsTold
  <3>3. ASSUME results'[n].reflection, ~results'[n].resultHash.reflection
        PROVE  Told(<<"plan_reflection_linked", n>>)'
    BY <1>2, <1>3, <2>2, <3>1, <3>3 DEF EventsTold, NewsTold
  <3>4. ASSUME results'[n].memory, ~results'[n].resultHash.memory
        PROVE  Told(<<"plan_memory_linked", n>>)'
    BY <1>2, <1>3, <2>2, <3>1, <3>4 DEF EventsTold, NewsTold
  <3> QED BY <3>2, <3>3, <3>4
 <2> QED BY <2>1, <2>2
<1> QED BY <1>4, <1>5, <1>6 DEF EventsTold, Told

\* A step of one request that keeps to all this keeps the invariant.
LEMMA PlanStep ==
  ASSUME PlanInv, NEW c \in Callers, NEW s, Moves(c, s), AwaitFits(s)',
         ReceiptsMove, ResultsMove, ExecutionsMove,
         started' \in 0..MaxRequests, patient' = patient,
         \/ rejected' = TRUE
         \/ rejected' = rejected /\ Pushes(c) /\ NewsTold(s)
  PROVE  PlanInv' /\ ReceiptsGrow /\ ResultsGrow
<1>1. /\ Types /\ ReceiptsFit /\ ResultsFit /\ CallsFit /\ ExecutionsFit
      /\ OutcomeHasResult /\ AnchorsTheLineage
      /\ rejected \/ EventsTold
  BY DEF PlanInv
<1>2. /\ receipts' \in Seq(Receipt) /\ latestReceipt' \in [Plans -> Nat]
      /\ ReceiptsFit' /\ AnchorsTheLineage' /\ ReceiptsGrow
  BY <1>1, ReceiptsStep
<1>3. /\ results' \in Seq(Result) /\ latestResult' \in [Plans -> Nat]
      /\ ResultsFit' /\ ResultsGrow
  BY <1>1, ResultsStep
<1>4. calls' \in [Callers -> Awaits] /\ CallsFit' BY <1>1, <1>2, <1>3, CallsStep
<1>5. executions' \in Seq(Nat) /\ ExecutionsFit' /\ DOMAIN executions \subseteq DOMAIN executions'
  BY <1>1, <1>2, ExecutionsStep
<1>6. OutcomeHasResult' BY <1>1, <1>3, OutcomesStep
<1>7. rejected' \in BOOLEAN /\ patient' \in BOOLEAN BY <1>1 DEF Types
<1>8. Types' BY <1>2, <1>3, <1>4, <1>5, <1>7 DEF Types
<1>9. (rejected \/ EventsTold)'
 <2>1. CASE rejected' = TRUE BY <2>1
 <2>2. CASE rejected' = rejected /\ Pushes(c) /\ NewsTold(s)
  <3>1. CASE rejected BY <2>2, <3>1
  <3>2. CASE EventsTold BY <1>1, <1>2, <1>3, <1>5, <2>2, <3>2, EventsStep
  <3> QED BY <1>1, <3>1, <3>2
 <2> QED BY <2>1, <2>2
<1> QED BY <1>2, <1>3, <1>4, <1>5, <1>6, <1>8, <1>9 DEF PlanInv

----
\* The shapes of the steps.

\* What create saves.
Blank(r) ==
    /\ r \in Receipt /\ HashPlan(r) = r.planHash
    /\ r.version = NextVersion(r.plan) /\ r.previous = 0 /\ r.outcome = "pending"
    /\ r.solana = None /\ ~r.reflection /\ ~r.memory

Creates == \E r : Blank(r) /\ SaveReceipt(r)

\* What storing and anchoring save.
ClonesOne ==
    \E i \in DOMAIN receipts, k \in Receipt :
        /\ Clones(k, i) /\ KeepsClaims(k, i)
        /\ k.solana = receipts[i].solana \/ k.solana.of = i
        /\ patient /\ Turns => i = latestReceipt[receipts[i].plan]
        /\ SaveReceipt(k)

AppliesIt(c) ==
    SaveReceipt(WithResult(latestReceipt[calls[c].plan], calls[c].next.result))

RecordsIt(s) ==
    \E result : /\ Recordable(result) /\ Records(result)
                /\ Applying(s) /\ s.plan = result.plan /\ s.next.result = result

LinksIt(s) ==
    \E p \in Plans, linked \in Result :
        /\ latestResult[p] # 0 /\ LinkedFrom(latestResult[p], linked)
        /\ results' = [results EXCEPT ![latestResult[p]] = linked] /\ UNCHANGED latestResult
        /\ Applying(s) /\ s.plan = p /\ s.next.result = linked

Shape(c, s) ==
    \/ UnchangedReceipts /\ UnchangedResults /\ (rejected' \/ ~Applying(calls[c]))
    \/ Creates /\ UnchangedResults /\ ~Applying(calls[c])
    \/ ClonesOne /\ UnchangedResults /\ ~Applying(calls[c])
    \/ AppliesIt(c) /\ UnchangedResults /\ Applying(calls[c])
    \/ UnchangedReceipts /\ RecordsIt(s) /\ ~Applying(calls[c])
    \/ UnchangedReceipts /\ LinksIt(s) /\ ~Applying(calls[c])

HasTurn(c) == calls[c] # Idle \/ \A d \in Callers : calls[d] = Idle

Shaped(c, s) ==
    /\ Moves(c, s) /\ AwaitFits(s)' /\ Shape(c, s) /\ ExecutionsMove
    /\ started' \in 0..MaxRequests /\ patient' = patient
    /\ \/ rejected' = TRUE
       \/ rejected' = rejected /\ Pushes(c) /\ NewsTold(s)
    /\ patient => HasTurn(c)
    /\ patient /\ Turns => BuildsOnLatest(s)'

LEMMA SomeGreatest ==
  ASSUME NEW m \in Nat, NEW V \in SUBSET (1..m), V # {}
  PROVE  \E v \in V : \A u \in V : u <= v
<1> DEFINE S == {j \in Nat : \A W \in SUBSET (1..j) : W # {} => \E v \in W : \A u \in W : u <= v}
<1>1. 0 \in S
 <2>1. 1..0 = {} OBVIOUS
 <2> QED BY <2>1
<1>2. ASSUME NEW j \in Nat, j \in S PROVE j + 1 \in S
 <2> SUFFICES ASSUME NEW W \in SUBSET (1..(j + 1)), W # {}
              PROVE  \E v \in W : \A u \in W : u <= v
   OBVIOUS
 <2>1. CASE j + 1 \in W BY <2>1
 <2>2. CASE j + 1 \notin W
  <3>1. W \in SUBSET (1..j) BY <2>2
  <3> QED BY <1>2, <3>1
 <2> QED BY <2>1, <2>2
<1> HIDE DEF S
<1>3. Nat \subseteq S BY <1>1, <1>2, NatSetInduction
<1>4. m \in S BY <1>3
<1> QED BY <1>4 DEF S

LEMMA NextVersionEffect ==
  ASSUME Types, ReceiptsFit, NEW p
  PROVE  /\ NextVersion(p) \in 1..(Len(receipts) + 1)
         /\ \A i \in DOMAIN receipts :
                receipts[i].plan = p => receipts[i].version < NextVersion(p)
<1>1. /\ Len(receipts) \in Nat /\ DOMAIN receipts = 1..Len(receipts)
      /\ \A i \in DOMAIN receipts : receipts[i].version \in 1..i
  BY Elements DEF Types, ReceiptsFit
<1>2. Versions(p) \in SUBSET (1..Len(receipts)) BY <1>1 DEF Versions
<1>3. \A i \in DOMAIN receipts : receipts[i].plan = p => receipts[i].version \in Versions(p) BY DEF Versions
<1>4. CASE Versions(p) = {} BY <1>1, <1>3, <1>4 DEF NextVersion
<1>5. CASE Versions(p) # {}
 <2> DEFINE v == CHOOSE v \in Versions(p) : \A u \in Versions(p) : u <= v
 <2>1. v \in Versions(p) /\ \A u \in Versions(p) : u <= v BY <1>1, <1>2, <1>5, SomeGreatest
 <2>2. NextVersion(p) = 1 + v BY <1>5 DEF NextVersion
 <2> HIDE DEF v
 <2>3. v \in 1..Len(receipts) BY <1>2, <2>1
 <2> QED BY <1>1, <1>3, <2>1, <2>2, <2>3
<1> QED BY <1>4, <1>5

\* What a request is about to apply was recorded for its plan.
LEMMA ApplyEffect ==
  ASSUME PlanInv, NEW c \in Callers, Applying(calls[c]), NEW i, i = latestReceipt[calls[c].plan],
         NEW k, k = WithResult(i, calls[c].next.result)
  PROVE  /\ calls[c].plan \in Plans /\ calls[c].next.result \in Result
         /\ calls[c].next.result.plan = calls[c].plan
         /\ i \in DOMAIN receipts /\ receipts[i].plan = calls[c].plan
         /\ Clones(k, i) /\ k.solana = receipts[i].solana /\ k.outcome = calls[c].next.result.status
         /\ calls[c].next.result.reflection => k.reflection
         /\ calls[c].next.result.memory => k.memory
         /\ Backed(k)
<1>1. /\ Types /\ ReceiptsFit /\ OutcomeHasResult /\ AwaitFits(calls[c])
      /\ calls[c].at = "saving" /\ calls[c].next.do = "apply"
  BY DEF PlanInv, CallsFit, Applying
<1>2. calls[c] \in Awaits BY <1>1 DEF Types
<1>3. calls[c].plan \in Plans /\ calls[c].next \in NextSteps BY <1>1, <1>2 DEF Awaits
<1>4. calls[c].next.result \in Result BY <1>1, <1>3 DEF NextSteps
<1>5. i \in DOMAIN receipts /\ receipts[i].plan = calls[c].plan BY <1>1, <1>3 DEF AwaitFits, ReceiptsFit
<1> DEFINE x == calls[c].next.result
<1>6. x.plan = calls[c].plan /\ \E n \in DOMAIN results : SaysAsMuch(n, x) BY <1>1 DEF AwaitFits
<1>7. PICK n \in DOMAIN results : SaysAsMuch(n, x) BY <1>6
<1> HIDE DEF x
<1>8. /\ Clones(k, i) /\ k.solana = receipts[i].solana /\ k.outcome = x.status
      /\ k.reflection = (x.reflection \/ receipts[i].reflection)
      /\ k.memory = (x.memory \/ receipts[i].memory)
  BY <1>1, <1>4, <1>5, ResultEffect DEF x
<1>9. k.plan = x.plan BY <1>5, <1>6, <1>8 DEF Clones
<1>10. n \in BackedBy(k.plan) BY <1>7, <1>9 DEF BackedBy, SaysAsMuch
<1>11. /\ receipts[i].reflection => \E m \in BackedBy(receipts[i].plan) : results[m].reflection
       /\ receipts[i].memory => \E m \in BackedBy(receipts[i].plan) : results[m].memory
  BY <1>1, <1>5 DEF OutcomeHasResult, BackedBy
<1>12. k.plan = receipts[i].plan BY <1>8 DEF Clones
<1>13. k.reflection => \E m \in BackedBy(k.plan) : results[m].reflection
  BY <1>7, <1>8, <1>10, <1>11, <1>12 DEF SaysAsMuch
<1>14. k.memory => \E m \in BackedBy(k.plan) : results[m].memory BY <1>7, <1>8, <1>10, <1>11, <1>12 DEF SaysAsMuch
<1>15. Backed(k) BY <1>7, <1>8, <1>10, <1>13, <1>14 DEF Backed, SaysAsMuch
<1> QED BY <1>3, <1>4, <1>5, <1>6, <1>8, <1>15 DEF x

LEMMA ShapeMoves ==
  ASSUME PlanInv, NEW c \in Callers, NEW s, Shape(c, s)
  PROVE  ReceiptsMove /\ ResultsMove
<1>1. Types /\ ReceiptsFit /\ ResultsFit /\ OutcomeHasResult /\ AnchorsTheLineage BY DEF PlanInv
<1>2. CASE Creates /\ UnchangedResults
 <2>1. PICK r : Blank(r) /\ SaveReceipt(r) BY <1>2 DEF Creates
 <2>2. Len(receipts) \in Nat BY <1>1, Elements DEF Types
 <2>3. Fresh(r) /\ Backed(r) BY <1>1, <2>1, <2>2, NextVersionEffect DEF Blank, Fresh, Backed
 <2> QED BY <1>2, <2>1, <2>3 DEF ReceiptsMove, ResultsMove
<1>3. CASE ClonesOne /\ UnchangedResults
 <2>1. PICK i \in DOMAIN receipts, k \in Receipt :
            /\ Clones(k, i) /\ KeepsClaims(k, i) /\ SaveReceipt(k)
            /\ k.solana = receipts[i].solana \/ k.solana.of = i
   BY <1>3 DEF ClonesOne
 <2>2. Fresh(k) /\ Backed(k) BY <1>1, <2>1, CloneIsFresh, KeptIsBacked
 <2> QED BY <1>3, <2>1, <2>2 DEF ReceiptsMove, ResultsMove
<1>4. CASE AppliesIt(c) /\ UnchangedResults /\ Applying(calls[c])
 <2>1. PICK i, k : /\ i = latestReceipt[calls[c].plan]
                   /\ k = WithResult(i, calls[c].next.result)
   OBVIOUS
 <2>2. i \in DOMAIN receipts /\ Clones(k, i) /\ k.solana = receipts[i].solana /\ Backed(k) BY <1>4, <2>1, ApplyEffect
 <2>3. Fresh(k) BY <1>1, <2>2, CloneIsFresh
 <2> QED BY <1>4, <2>1, <2>2, <2>3 DEF ReceiptsMove, ResultsMove, AppliesIt
<1>5. CASE UnchangedReceipts /\ RecordsIt(s) BY <1>5 DEF ReceiptsMove, ResultsMove, RecordsIt
<1>6. CASE UnchangedReceipts /\ LinksIt(s)
 <2>1. PICK p \in Plans, linked \in Result :
         /\ latestResult[p] # 0 /\ LinkedFrom(latestResult[p], linked)
         /\ results' = [results EXCEPT ![latestResult[p]] = linked] /\ UNCHANGED latestResult
   BY <1>6 DEF LinksIt
 <2>2. latestResult[p] \in DOMAIN results BY <1>1, <2>1 DEF ResultsFit
 <2> QED BY <1>6, <2>1, <2>2 DEF ReceiptsMove, ResultsMove
<1>7. CASE UnchangedReceipts /\ UnchangedResults BY <1>7 DEF ReceiptsMove, ResultsMove
<1> QED BY <1>2, <1>3, <1>4, <1>5, <1>6, <1>7 DEF Shape

LEMMA ShapedKeeps ==
  ASSUME PlanInv, NEW c \in Callers, NEW s, Shaped(c, s)
  PROVE  PlanInv' /\ ReceiptsGrow /\ ResultsGrow
BY ShapeMoves, PlanStep DEF Shaped

----
\* Every step of a request has such a shape.

LEMMA SaveEffect ==
  ASSUME Types, NEW r \in Receipt, SaveReceipt(r)
  PROVE  /\ r.plan \in Plans /\ NextReceipt \in Nat /\ NextReceipt # 0
         /\ latestReceipt'[r.plan] = NextReceipt
         /\ DOMAIN receipts' = DOMAIN receipts \cup {NextReceipt}
         /\ \A i \in DOMAIN receipts : receipts'[i] = receipts[i]
         /\ receipts'[NextReceipt] = r
<1>1. /\ receipts \in Seq(Receipt) /\ latestReceipt \in [Plans -> Nat] /\ r.plan \in Plans
      /\ Len(receipts) \in Nat
  BY Elements DEF Types, Receipt, ReceiptWith
<1> QED BY <1>1, AppendEffect DEF SaveReceipt, NextReceipt

\* What c is at does not come after a write.
NotSaving(c) ==
    /\ ~Applying(calls[c]) /\ (timeline' = timeline => Pushes(c))
    /\ patient => HasTurn(c)

LEMMA StartEffect ==
  ASSUME Types, NEW c \in Callers, Start(c)
  PROVE  NotSaving(c) /\ started' \in 0..MaxRequests
<1>1. calls[c].at = "idle" BY DEF Start, Idle
<1>2. NotSaving(c) BY <1>1 DEF NotSaving, Applying, Pushes, HasTurn, Start
<1>3. started' \in 0..MaxRequests BY BoundAssumption DEF Start, Types
<1> QED BY <1>2, <1>3

LEMMA AnswerEffect ==
  ASSUME NEW c \in Callers,
         calls[c].at \in {"uploading", "anchoring", "uploadingResult", "anchoringResult"}
  PROVE  NotSaving(c)
BY DEF NotSaving, Applying, Pushes, HasTurn, Idle

LEMMA PersistedEffect ==
  ASSUME Types, NEW c \in Callers, NEW do, Persisted(c, do)
  PROVE  /\ calls[c].at = "saving" /\ calls[c].plan \in Plans /\ calls[c].next \in NextSteps
         /\ calls[c].next.do = do /\ Pushes(c) /\ HasTurn(c)
         /\ do # "apply" => ~Applying(calls[c])
<1>1. calls[c] \in Awaits /\ calls[c].at = "saving" /\ calls[c].next.do = do BY DEF Types, Persisted
<1>2. calls[c].plan \in Plans /\ calls[c].next \in NextSteps BY <1>1 DEF Awaits
<1>3. HasTurn(c) BY <1>1 DEF HasTurn, Idle
<1> QED BY <1>1, <1>2, <1>3 DEF Applying, Pushes, Persisted

LEMMA OldNews ==
  ASSUME UnchangedResults, UNCHANGED executions, NEW s,
         \A i \in DOMAIN receipts' \ DOMAIN receipts :
            receipts'[i].previous = 0 => Will(s, <<"plan_created", i>>)
  PROVE  NewsTold(s)
BY DEF NewsTold, UnchangedResults

\* A step that changes neither receipts nor results.
LEMMA StaysShaped ==
  ASSUME PlanInv, NEW c \in Callers, NEW s, Moves(c, s), AwaitFits(s),
         patient /\ Turns => BuildsOnLatest(s),
         UnchangedReceipts, UnchangedResults, UNCHANGED <<executions, patient>>,
         started' \in 0..MaxRequests, patient => HasTurn(c),
         \/ rejected' = TRUE
         \/ rejected' = rejected /\ Pushes(c) /\ ~Applying(calls[c])
  PROVE  Shaped(c, s)
<1>1. ReceiptsGrow /\ ResultsGrow BY DEF ReceiptsGrow, ResultsGrow, UnchangedReceipts, UnchangedResults
<1>2. AwaitFits(s)' BY <1>1, AwaitStays DEF Moves
<1>3. patient /\ Turns => BuildsOnLatest(s)' BY DEF BuildsOnLatest, Applying, UnchangedReceipts, UnchangedResults
<1>4. NewsTold(s) BY OldNews DEF UnchangedReceipts
<1>5. Shape(c, s) BY DEF Shape
<1> QED BY <1>2, <1>3, <1>4, <1>5 DEF Shaped, ExecutionsMove

\* A step that saves a clone with the claims of the receipt.
LEMMA ClonesShaped ==
  ASSUME PlanInv, NEW c \in Callers, NEW i \in DOMAIN receipts, NEW k,
         Clones(k, i), KeepsClaims(k, i), k.solana = receipts[i].solana \/ k.solana.of = i,
         patient /\ Turns => i = latestReceipt[receipts[i].plan],
         SaveReceipt(k), UnchangedResults, UNCHANGED <<executions, patient, rejected>>,
         NEW events \in SUBSET Events, NEW next \in [do : {"finish", "anchor"}],
         Goes(c, Saving(receipts[i].plan, events, next)),
         started' \in 0..MaxRequests, patient => HasTurn(c), Pushes(c), ~Applying(calls[c])
  PROVE  \E s : Shaped(c, s)
<1>1. PICK s : s = Saving(receipts[i].plan, events, next) OBVIOUS
<1>2. Types /\ k \in Receipt /\ k.plan = receipts[i].plan /\ k.previous = i BY DEF PlanInv, Clones
<1>3. /\ k.plan \in Plans /\ latestReceipt'[k.plan] = NextReceipt /\ NextReceipt # 0
      /\ DOMAIN receipts' = DOMAIN receipts \cup {NextReceipt} /\ receipts'[NextReceipt] = k
  BY <1>2, SaveEffect
<1>4. /\ s.at = "saving" /\ s.plan = k.plan /\ s.next = next
      /\ s.next.do \in {"finish", "anchor"}
  BY <1>1, <1>2 DEF Saving
<1>5. s \in Awaits BY <1>1, <1>2, <1>3 DEF Saving, Awaits, NextSteps
<1>6. AwaitFits(s)' BY <1>3, <1>4 DEF AwaitFits
<1>7. BuildsOnLatest(s)' BY <1>4 DEF BuildsOnLatest, Applying
<1>8. i # 0 BY <1>2, Elements DEF Types
<1>9. NewsTold(s) BY <1>2, <1>3, <1>8, OldNews
<1>10. Moves(c, s) BY <1>1, <1>5 DEF Moves, Goes
<1>11. ClonesOne BY <1>2 DEF ClonesOne
<1> QED BY <1>6, <1>7, <1>9, <1>10, <1>11 DEF Shaped, Shape, ExecutionsMove

LEMMA CreateShaped ==
  ASSUME PlanInv, NEW c \in Callers, NEW p \in Plans, NEW w \in BOOLEAN, NEW a \in BOOLEAN,
         Create(c, p, w, a)
  PROVE  \E s : Shaped(c, s)
<1>1. Types /\ ReceiptsFit BY DEF PlanInv
<1>2. PICK r : r = Sealed(NewReceipt(p, w)) OBVIOUS
<1>3. PICK s : s = Saving(p, {<<"plan_created", NextReceipt>>},
                          [do |-> "store", receipt |-> NextReceipt, anchor |-> a])
  OBVIOUS
<1>4. /\ Start(c) /\ SaveReceipt(r) /\ Goes(c, s) /\ UnchangedResults
      /\ UNCHANGED <<executions, timeline, patient, rejected>>
  BY <1>2, <1>3 DEF Create
<1>5. NextVersion(p) \in Nat BY <1>1, NextVersionEffect, Elements DEF Types
<1>6. NewReceipt(p, w) \in ReceiptWith({None}) BY <1>5 DEF NewReceipt, ReceiptWith, Status, Outcome
<1>7. /\ Blank(r) /\ r \in Receipt /\ r.plan = p /\ r.previous = 0
 <2>1. PICK n : n = NewReceipt(p, w) OBVIOUS
 <2>2. /\ n.plan = p /\ n.version = NextVersion(p) /\ n.previous = 0 /\ n.outcome = "pending"
       /\ n.solana = None /\ n.reflection = FALSE /\ n.memory = FALSE
   BY <2>1 DEF NewReceipt
 <2> QED BY <1>2, <1>6, <2>1, <2>2, SealedEffect DEF Blank
<1>8. /\ NextReceipt \in Nat /\ NextReceipt # 0 /\ latestReceipt'[p] = NextReceipt
      /\ DOMAIN receipts' = DOMAIN receipts \cup {NextReceipt} /\ receipts'[NextReceipt] = r
  BY <1>1, <1>4, <1>7, SaveEffect
<1>9. /\ s.at = "saving" /\ s.plan = p /\ s.events = {<<"plan_created", NextReceipt>>}
      /\ s.next.do = "store" /\ s.next.receipt = NextReceipt
  BY <1>3 DEF Saving
<1>10. s \in Awaits BY <1>3, <1>8 DEF Saving, Awaits, NextSteps, Events
<1>11. AwaitFits(s)' BY <1>8, <1>9 DEF AwaitFits
<1>12. BuildsOnLatest(s)' BY <1>7, <1>8, <1>9 DEF BuildsOnLatest, Applying
<1>13. NewsTold(s) BY <1>4, <1>8, <1>9, OldNews DEF Will
<1>14. NotSaving(c) /\ started' \in 0..MaxRequests BY <1>1, <1>4, StartEffect
<1>15. Moves(c, s) /\ Creates BY <1>4, <1>7, <1>10 DEF Moves, Goes, Creates
<1> QED BY <1>4, <1>11, <1>12, <1>13, <1>14, <1>15 DEF Shaped, Shape, ExecutionsMove, NotSaving

LEMMA StoreReceiptShaped ==
  ASSUME PlanInv, NEW c \in Callers, NEW i \in DOMAIN receipts, StoreReceipt(c, i)
  PROVE  \E s : Shaped(c, s)
<1>1. Types BY DEF PlanInv
<1>2. PICK s : s = Uploading(i, FALSE) OBVIOUS
<1>3. s \in Awaits /\ s.at = "uploading" /\ s.receipt = i BY <1>1, <1>2, Elements DEF Uploading, Awaits, Types
<1>4. AwaitFits(s) /\ (patient => BuildsOnLatest(s)) BY <1>3 DEF AwaitFits, BuildsOnLatest, Applying, StoreReceipt
<1>5. NotSaving(c) /\ started' \in 0..MaxRequests BY <1>1, StartEffect DEF StoreReceipt
<1>6. Moves(c, s) BY <1>2, <1>3 DEF Moves, Goes, StoreReceipt
<1> QED BY <1>4, <1>5, <1>6, StaysShaped DEF StoreReceipt, NotSaving

LEMMA ReceiptUploadedShaped ==
  ASSUME PlanInv, NEW c \in Callers, NEW ok \in BOOLEAN, ReceiptUploaded(c, ok)
  PROVE  \E s : Shaped(c, s)
<1>1. Types /\ AwaitFits(calls[c]) /\ calls[c].at = "uploading" BY DEF PlanInv, CallsFit, ReceiptUploaded
<1>2. PICK i : i = calls[c].receipt OBVIOUS
<1>3. i \in DOMAIN receipts BY <1>1, <1>2 DEF AwaitFits
<1>4. PICK k : k = WithStorage(i, ok) OBVIOUS
<1>5. PICK next : next = IF calls[c].anchor THEN [do |-> "anchor"] ELSE Finish OBVIOUS
<1>6. next \in [do : {"finish", "anchor"}] BY <1>5 DEF Finish
<1>7. PICK events : events = {<<"plan_stored", NextReceipt>>} OBVIOUS
<1>8. events \in SUBSET Events BY <1>1, <1>7, Elements DEF Events, NextReceipt, Types
<1>9. Clones(k, i) /\ KeepsClaims(k, i) /\ k.solana = receipts[i].solana BY <1>1, <1>3, <1>4, StorageEffect
<1>10. patient /\ Turns => i = latestReceipt[receipts[i].plan] BY <1>1, <1>2 DEF Turns, BuildsOnLatest
<1>11. NotSaving(c) /\ started' \in 0..MaxRequests BY <1>1, AnswerEffect DEF ReceiptUploaded, Types
<1>12. SaveReceipt(k) /\ Goes(c, Saving(receipts[i].plan, events, next)) BY <1>2, <1>4, <1>5, <1>7 DEF ReceiptUploaded
<1> QED BY <1>3, <1>6, <1>8, <1>9, <1>10, <1>11, <1>12, ClonesShaped DEF ReceiptUploaded, NotSaving

LEMMA SaveAnchoredShaped ==
  ASSUME PlanInv, NEW c \in Callers, NEW i \in DOMAIN receipts, NEW wallet \in BOOLEAN,
         NEW answer, SaveAnchored(c, i, wallet, answer),
         patient /\ Turns => i = latestReceipt[receipts[i].plan],
         UnchangedResults, UNCHANGED <<executions, patient, rejected>>,
         started' \in 0..MaxRequests, patient => HasTurn(c), Pushes(c), ~Applying(calls[c])
  PROVE  \E s : Shaped(c, s)
<1>1. Types BY DEF PlanInv
<1>2. PICK k : k = WithAnchor(i, wallet, answer) OBVIOUS
<1>3. PICK events :
        events = {<<IF answer = "error" THEN "plan_anchor_degraded" ELSE "plan_anchored",
                    NextReceipt>>}
  OBVIOUS
<1>4. events \in SUBSET Events BY <1>1, <1>3, Elements DEF Events, NextReceipt, Types
<1>5. Clones(k, i) /\ KeepsClaims(k, i) /\ k.solana.of = i BY <1>1, <1>2, AnchorEffect
<1>6. Finish \in [do : {"finish", "anchor"}] BY DEF Finish
<1>7. SaveReceipt(k) /\ Goes(c, Saving(receipts[i].plan, events, Finish)) BY <1>2, <1>3 DEF SaveAnchored
<1> QED BY <1>4, <1>5, <1>6, <1>7, ClonesShaped

\* anchorReceipt, called by a route or by create.
LEMMA BeginAnchorShaped ==
  ASSUME PlanInv, NEW c \in Callers, NEW p \in Plans, NEW w \in BOOLEAN,
         latestReceipt[p] # 0, BeginAnchor(c, p, w),
         UnchangedResults, UNCHANGED <<executions, patient, rejected>>,
         started' \in 0..MaxRequests, patient => HasTurn(c), Pushes(c), ~Applying(calls[c])
  PROVE  \E s : Shaped(c, s)
<1>1. Types BY DEF PlanInv
<1>2. PICK i : i = latestReceipt[p] OBVIOUS
<1>3. i \in DOMAIN receipts /\ receipts[i].plan = p BY <1>2 DEF PlanInv, ReceiptsFit
<1>4. receipts[i] \in Receipt /\ i \in Nat BY <1>1, <1>3, Elements DEF Types
<1>5. PICK wallet : wallet = (w \/ receipts[i].wallet) OBVIOUS
<1>6. wallet \in BOOLEAN BY <1>4, <1>5 DEF Receipt, ReceiptWith
<1>7. CASE wallet /\ HasClient
 <2>1. PICK s : s = [at |-> "anchoring", receipt |-> i, wallet |-> wallet] OBVIOUS
 <2>2. s \in Awaits /\ s.at = "anchoring" /\ s.receipt = i BY <1>4, <1>6, <2>1 DEF Awaits
 <2>3. Moves(c, s) /\ UnchangedReceipts BY <1>2, <1>5, <1>7, <2>1, <2>2 DEF BeginAnchor, Goes, Moves
 <2>4. AwaitFits(s) /\ BuildsOnLatest(s) BY <1>2, <1>3, <2>2 DEF AwaitFits, BuildsOnLatest, Applying
 <2> QED BY <2>3, <2>4, StaysShaped
<1>8. CASE ~(wallet /\ HasClient)
 <2>1. SaveAnchored(c, i, wallet, IF wallet THEN "signed" ELSE "error") BY <1>2, <1>5, <1>8 DEF BeginAnchor
 <2> QED BY <1>2, <1>3, <1>6, <2>1, SaveAnchoredShaped
<1> QED BY <1>7, <1>8

LEMMA AnchorReceiptShaped ==
  ASSUME PlanInv, NEW c \in Callers, NEW p \in Plans, NEW w \in BOOLEAN,
         AnchorReceipt(c, p, w)
  PROVE  \E s : Shaped(c, s)
<1>1. NotSaving(c) /\ started' \in 0..MaxRequests BY StartEffect DEF AnchorReceipt, PlanInv
<1> QED BY <1>1, BeginAnchorShaped DEF AnchorReceipt, NotSaving

LEMMA ReceiptAnchoredShaped ==
  ASSUME PlanInv, NEW c \in Callers, NEW answer, ReceiptAnchored(c, answer)
  PROVE  \E s : Shaped(c, s)
<1>1. Types /\ AwaitFits(calls[c]) /\ calls[c].at = "anchoring" /\ calls[c] \in Awaits
  BY DEF PlanInv, CallsFit, ReceiptAnchored, Types
<1>2. PICK i, wallet : i = calls[c].receipt /\ wallet = calls[c].wallet OBVIOUS
<1>3. i \in DOMAIN receipts /\ wallet \in BOOLEAN BY <1>1, <1>2 DEF AwaitFits, Awaits
<1>4. SaveAnchored(c, i, wallet, answer) BY <1>2 DEF ReceiptAnchored
<1>5. patient /\ Turns => i = latestReceipt[receipts[i].plan] BY <1>1, <1>2 DEF Turns, BuildsOnLatest
<1>6. NotSaving(c) /\ started' \in 0..MaxRequests BY <1>1, AnswerEffect DEF ReceiptAnchored, Types
<1> QED BY <1>3, <1>4, <1>5, <1>6, SaveAnchoredShaped DEF ReceiptAnchored, NotSaving

LEMMA ExecuteShaped ==
  ASSUME PlanInv, NEW c \in Callers, NEW p \in Plans, Execute(c, p)
  PROVE  \E s : Shaped(c, s)
<1>1. Types BY DEF PlanInv
<1>2. PICK i : i = latestReceipt[p] OBVIOUS
<1>3. i \in DOMAIN receipts /\ i \in Nat BY <1>1, <1>2, Elements DEF PlanInv, ReceiptsFit, Execute, Types
<1>4. PICK k : k = Len(executions) + 1 OBVIOUS
<1>5. /\ executions' = Append(executions, i)
      /\ DOMAIN executions' = DOMAIN executions \cup {k} /\ k \in Nat
  BY <1>1, <1>2, <1>3, <1>4, AppendEffect, Elements DEF Types, Execute
<1>6. PICK s : s = Saving(p, {<<"plan_execution_recorded", k>>}, Finish) OBVIOUS
<1>7. /\ s.at = "saving" /\ s.plan = p /\ s.events = {<<"plan_execution_recorded", k>>}
      /\ s.next.do = "finish"
  BY <1>6 DEF Saving, Finish
<1>8. s \in Awaits BY <1>5, <1>6 DEF Saving, Finish, Awaits, NextSteps, Events
<1>9. Moves(c, s) BY <1>4, <1>6, <1>8 DEF Moves, Goes, Execute
<1>10. AwaitFits(s)' /\ BuildsOnLatest(s)' BY <1>7 DEF AwaitFits, BuildsOnLatest, Applying, Execute, UnchangedReceipts
<1>11. NewsTold(s) BY <1>5, <1>7 DEF NewsTold, Will, Execute, UnchangedReceipts, UnchangedResults
<1>12. NotSaving(c) /\ started' \in 0..MaxRequests BY <1>1, StartEffect DEF Execute
<1> QED
  BY <1>3, <1>5, <1>9, <1>10, <1>11, <1>12
  DEF Shaped, Shape, ExecutionsMove, NotSaving, Execute

\* A result is saved with its proof.
LEMMA SaveResultShaped ==
  ASSUME PlanInv, NEW c \in Callers, NEW result, Recordable(result), SaveResult(c, result),
         UnchangedReceipts, UNCHANGED <<executions, patient, rejected>>,
         started' \in 0..MaxRequests, patient => HasTurn(c), Pushes(c), ~Applying(calls[c])
  PROVE  \E s : Shaped(c, s)
<1>1. Types /\ ReceiptsFit BY DEF PlanInv
<1>2. /\ result \in Result /\ result.plan \in Plans
      /\ result.receipt \in DOMAIN receipts /\ receipts[result.receipt].plan = result.plan
      /\ AsHashed(result)
  BY DEF Recordable, ForItsPlan, Result, ResultWith
<1>3. PICK k : k = NextResult OBVIOUS
<1>4. /\ DOMAIN results' = DOMAIN results \cup {k} /\ k \in Nat /\ k # 0
      /\ \A n \in DOMAIN results : results'[n] = results[n]
      /\ results'[k] = result /\ latestResult'[result.plan] = k
 <2>1. results \in Seq(Result) /\ latestResult \in [Plans -> Nat] /\ Len(results) \in Nat BY <1>1, Elements DEF Types
 <2> QED BY <1>2, <1>3, <2>1, AppendEffect DEF SaveResult, NextResult
<1>5. latestReceipt'[result.plan] # 0
 <2>1. result.receipt <= latestReceipt[result.plan] /\ result.receipt \in 1..Len(receipts)
   BY <1>1, <1>2, Elements DEF ReceiptsFit, Types
 <2>2. latestReceipt[result.plan] \in Nat /\ Len(receipts) \in Nat BY <1>1, <1>2, Elements DEF Types
 <2> QED BY <2>1, <2>2 DEF UnchangedReceipts
<1>6. PICK s : s = Saving(result.plan, {<<"plan_result_recorded", k>>},
                          [do |-> "apply", result |-> result])
  OBVIOUS
<1>7. /\ s.at = "saving" /\ s.plan = result.plan /\ s.events = {<<"plan_result_recorded", k>>}
      /\ s.next.do = "apply" /\ s.next.result = result
  BY <1>6 DEF Saving
<1>8. s \in Awaits BY <1>2, <1>4, <1>6 DEF Saving, Awaits, NextSteps, Events
<1>9. SaysAsMuch(k, result)' BY <1>4 DEF SaysAsMuch
<1>10. AwaitFits(s)' BY <1>4, <1>5, <1>7, <1>9 DEF AwaitFits, SaysAsMuch
<1>11. BuildsOnLatest(s)' BY <1>4, <1>7 DEF BuildsOnLatest, Applying
<1>12. NewsTold(s) BY <1>2, <1>4, <1>7 DEF NewsTold, Will, UnchangedReceipts
<1>13. Moves(c, s) BY <1>3, <1>6, <1>8 DEF Moves, Goes, SaveResult
<1>14. RecordsIt(s) BY <1>7 DEF RecordsIt, Records, SaveResult, Applying
<1> QED BY <1>10, <1>11, <1>12, <1>13, <1>14 DEF Shaped, Shape, ExecutionsMove

LEMMA CreateResultShaped ==
  ASSUME PlanInv, NEW c \in Callers, NEW p \in Plans, NEW o \in Outcomes, NEW l \in Links,
         CreateResult(c, p, o, l)
  PROVE  \E s : Shaped(c, s)
<1>1. Types BY DEF PlanInv
<1>2. PICK i : i = latestReceipt[p] OBVIOUS
<1>3. i \in DOMAIN receipts /\ i \in Nat /\ receipts[i].plan = p
  BY <1>1, <1>2, Elements DEF PlanInv, ReceiptsFit, CreateResult, Types
<1>4. PICK n : n = NewResult(p, i, o, l) OBVIOUS
<1>5. n \in Hash /\ n.plan = p /\ n.receipt = i
 <2>1. o \in Outcome /\ l[1] \in BOOLEAN /\ l[2] \in BOOLEAN BY OutcomesAssumption, LinksAssumption DEF Outcome
 <2> QED BY <1>3, <1>4, <2>1 DEF NewResult, Hash, ResultWith
<1>6. PICK r : r = Hashed(n) OBVIOUS
<1>7. /\ r \in ResultWith({None}, {None}, Hash) /\ r.plan = p /\ r.receipt = i
      /\ r.reflection = n.reflection /\ r.memory = n.memory /\ r.resultHash = n
 <2>1. r = [n EXCEPT !.resultHash = n] BY <1>6 DEF Hashed, HashResult
 <2>2. n \in ResultWith({None}, {None}, {None}) BY <1>5 DEF Hash
 <2>3. n \in Hash BY <1>5
 <2> HIDE DEF Hash
 <2> QED BY <1>5, <2>1, <2>2, <2>3 DEF ResultWith
<1>8. PICK s : s = [at |-> "uploadingResult", result |-> r] OBVIOUS
<1>9. s \in Awaits /\ s.at = "uploadingResult" /\ s.result = r BY <1>7, <1>8 DEF Awaits
<1>10. Moves(c, s) BY <1>2, <1>4, <1>6, <1>8, <1>9 DEF Moves, Goes, CreateResult
<1>11. AwaitFits(s) /\ BuildsOnLatest(s)
  BY <1>3, <1>7, <1>9 DEF AwaitFits, ForItsPlan, AsHashed, BuildsOnLatest, Applying
<1>12. NotSaving(c) /\ started' \in 0..MaxRequests BY <1>1, StartEffect DEF CreateResult
<1> QED BY <1>10, <1>11, <1>12, StaysShaped DEF CreateResult, NotSaving

\* Giving a result its storage and its proof changes nothing else.
LEMMA WithProofEffect ==
  ASSUME NEW result \in ResultWith(Kept, {None}, Hash), NEW proof \in Proof, NEW r,
         r = [result EXCEPT !.solana = proof],
         ForItsPlan(result), AsHashed(result), proof.of \in DOMAIN receipts
  PROVE  Recordable(r)
<1>1. /\ r \in Result /\ r.plan = result.plan /\ r.receipt = result.receipt
      /\ r.reflection = result.reflection /\ r.memory = result.memory
      /\ r.resultHash = result.resultHash /\ r.solana = proof
 <2> HIDE DEF Kept, Hash, Proof
 <2> QED BY DEF Result, ResultWith
<1> QED BY <1>1 DEF Recordable, ForItsPlan, AsHashed

LEMMA ResultUploadedShaped ==
  ASSUME PlanInv, NEW c \in Callers, NEW ok \in BOOLEAN, ResultUploaded(c, ok)
  PROVE  \E s : Shaped(c, s)
<1>1. /\ Types /\ AwaitFits(calls[c]) /\ calls[c] \in Awaits
      /\ calls[c].at = "uploadingResult"
  BY DEF PlanInv, CallsFit, ResultUploaded, Types
<1>2. PICK x, i : x = calls[c].result /\ i = x.receipt OBVIOUS
<1>3. x \in ResultWith({None}, {None}, Hash) /\ ForItsPlan(x) /\ AsHashed(x) BY <1>1, <1>2 DEF AwaitFits, Awaits
<1>4. PICK r : r = [x EXCEPT !.storage = Stored(ok)] OBVIOUS
<1>5. /\ r \in ResultWith(Kept, {None}, Hash) /\ r.plan = x.plan /\ r.receipt = i
      /\ r.reflection = x.reflection /\ r.memory = x.memory /\ r.resultHash = x.resultHash
 <2>1. Stored(ok) \in Kept BY DEF Stored, Kept
 <2> HIDE DEF Kept, Hash
 <2> QED BY <1>2, <1>3, <1>4, <2>1 DEF ResultWith
<1>6. ForItsPlan(r) /\ AsHashed(r) BY <1>2, <1>3, <1>5 DEF ForItsPlan, AsHashed
<1>7. i \in DOMAIN receipts /\ i \in Nat /\ receipts[i] \in Receipt
  BY <1>1, <1>2, <1>3, Elements DEF ForItsPlan, Types
<1>8. NotSaving(c) /\ started' \in 0..MaxRequests BY <1>1, AnswerEffect DEF ResultUploaded, Types
<1>9. CASE receipts[i].wallet /\ HasClient
 <2>1. PICK s : s = [at |-> "anchoringResult", result |-> r] OBVIOUS
 <2>2. s \in Awaits /\ s.at = "anchoringResult" /\ s.result = r BY <1>5, <2>1 DEF Awaits
 <2>3. Goes(c, s) /\ UnchangedResults BY <1>2, <1>4, <1>5, <1>9, <2>1 DEF ResultUploaded
 <2>4. AwaitFits(s) /\ BuildsOnLatest(s) BY <1>6, <2>2 DEF AwaitFits, BuildsOnLatest, Applying
 <2> QED BY <1>8, <2>2, <2>3, <2>4, StaysShaped DEF Moves, Goes, ResultUploaded, NotSaving
<1>10. CASE ~(receipts[i].wallet /\ HasClient)
 <2>1. PICK proof : proof = UnanchoredResult(i) OBVIOUS
 <2>2. proof \in Proof /\ proof.of = i BY <1>7, <2>1 DEF UnanchoredResult, Proof, Receipt, ReceiptWith
 <2>3. PICK y : y = [r EXCEPT !.solana = proof] OBVIOUS
 <2>4. Recordable(y) BY <1>5, <1>6, <1>7, <2>2, <2>3, WithProofEffect
 <2>5. SaveResult(c, y) BY <1>2, <1>4, <1>5, <1>10, <2>1, <2>3 DEF ResultUploaded
 <2> QED BY <1>8, <2>4, <2>5, SaveResultShaped DEF ResultUploaded, NotSaving
<1> QED BY <1>9, <1>10

LEMMA ResultAnchoredShaped ==
  ASSUME PlanInv, NEW c \in Callers, NEW answer, ResultAnchored(c, answer)
  PROVE  \E s : Shaped(c, s)
<1>1. /\ Types /\ AwaitFits(calls[c]) /\ calls[c] \in Awaits
      /\ calls[c].at = "anchoringResult"
  BY DEF PlanInv, CallsFit, ResultAnchored, Types
<1>2. PICK r : r = calls[c].result OBVIOUS
<1>3. r \in ResultWith(Kept, {None}, Hash) /\ ForItsPlan(r) /\ AsHashed(r) BY <1>1, <1>2 DEF AwaitFits, Awaits
<1>4. r.receipt \in DOMAIN receipts /\ r.receipt \in Nat BY <1>1, <1>3, Elements DEF ForItsPlan, Types
<1>5. PICK proof : proof = Anchor(r.receipt, answer) OBVIOUS
<1>6. proof \in Proof /\ proof.of = r.receipt BY <1>4, <1>5 DEF Anchor, Proof
<1>7. PICK y : y = [r EXCEPT !.solana = proof] OBVIOUS
<1>8. Recordable(y) BY <1>3, <1>4, <1>6, <1>7, WithProofEffect
<1>9. SaveResult(c, y) BY <1>2, <1>5, <1>7 DEF ResultAnchored
<1>10. NotSaving(c) /\ started' \in 0..MaxRequests BY <1>1, AnswerEffect DEF ResultAnchored, Types
<1> QED BY <1>8, <1>9, <1>10, SaveResultShaped DEF ResultAnchored, NotSaving

\* A link changes the plan's latest result and says so.
LEMMA LinkShaped ==
  ASSUME PlanInv, NEW c \in Callers, NEW p \in Plans, latestResult[p] # 0,
         NEW linked \in Result, LinkedFrom(latestResult[p], linked),
         NEW event \in {"plan_reflection_linked", "plan_memory_linked"},
         linked.reflection /\ ~results[latestResult[p]].reflection =>
            event = "plan_reflection_linked",
         linked.memory /\ ~results[latestResult[p]].memory => event = "plan_memory_linked",
         Link(c, p, linked, event)
  PROVE  \E s : Shaped(c, s)
<1>1. Types /\ ReceiptsFit /\ ResultsFit BY DEF PlanInv
<1>2. PICK k : k = latestResult[p] OBVIOUS
<1>3. /\ k \in DOMAIN results /\ k \in Nat /\ k # 0 /\ results[k].plan = p
      /\ ForItsPlan(results[k])
  BY <1>1, <1>2, Elements DEF ResultsFit, Types
<1>4. /\ DOMAIN results' = DOMAIN results /\ results'[k] = linked
      /\ \A n \in DOMAIN results \ {k} : results'[n] = results[n]
  BY <1>1, <1>2, <1>3 DEF Types, Link
<1>5. /\ linked.plan = p /\ linked.status = results[k].status
      /\ latestResult' = latestResult
  BY <1>2, <1>3 DEF LinkedFrom, Link
<1>6. latestReceipt'[p] # 0
 <2>1. results[k].receipt <= latestReceipt[p] /\ results[k].receipt \in 1..Len(receipts)
   BY <1>1, <1>3, Elements DEF ReceiptsFit, ForItsPlan, Types
 <2>2. latestReceipt[p] \in Nat /\ Len(receipts) \in Nat BY <1>1, Elements DEF Types
 <2> QED BY <2>1, <2>2 DEF UnchangedReceipts, Link
<1>7. PICK s : s = Saving(p, {<<event, k>>}, [do |-> "apply", result |-> linked]) OBVIOUS
<1>8. /\ s.at = "saving" /\ s.plan = p /\ s.events = {<<event, k>>}
      /\ s.next.do = "apply" /\ s.next.result = linked
  BY <1>7 DEF Saving
<1>9. s \in Awaits BY <1>3, <1>7 DEF Saving, Awaits, NextSteps, Events
<1>10. SaysAsMuch(k, linked)' BY <1>4 DEF SaysAsMuch
<1>11. AwaitFits(s)' BY <1>3, <1>4, <1>5, <1>6, <1>8, <1>10 DEF AwaitFits, SaysAsMuch
<1>12. BuildsOnLatest(s)' BY <1>2, <1>4, <1>5, <1>8 DEF BuildsOnLatest, Applying
<1>13. NewsTold(s) BY <1>2, <1>3, <1>4, <1>8 DEF NewsTold, Will, Link, UnchangedReceipts
<1>14. NotSaving(c) /\ started' \in 0..MaxRequests BY <1>1, StartEffect DEF Link
<1>15. Moves(c, s) BY <1>2, <1>7, <1>9 DEF Moves, Goes, Link
<1>16. LinksIt(s) BY <1>5, <1>8 DEF LinksIt, Link, Applying
<1> QED BY <1>11, <1>12, <1>13, <1>14, <1>15, <1>16 DEF Shaped, Shape, ExecutionsMove, NotSaving, Link

LEMMA LinkReflectionShaped ==
  ASSUME PlanInv, NEW c \in Callers, NEW p \in Plans, LinkReflection(c, p)
  PROVE  \E s : Shaped(c, s)
<1>1. PICK r, linked : r = results[latestResult[p]] /\ linked = WithReflection(r) OBVIOUS
<1>2. latestResult[p] # 0 /\ Link(c, p, linked, "plan_reflection_linked") BY <1>1 DEF LinkReflection
<1>3. r \in Result BY <1>1, <1>2, Elements DEF PlanInv, Types, ResultsFit
<1>4. /\ linked \in Result /\ LinkedFrom(latestResult[p], linked)
      /\ linked.memory = r.memory
  BY <1>1, <1>3 DEF WithReflection, LinkedFrom, Result, ResultWith
<1> QED BY <1>1, <1>2, <1>4, LinkShaped

LEMMA LinkMemoryShaped ==
  ASSUME PlanInv, NEW c \in Callers, NEW p \in Plans, LinkMemory(c, p)
  PROVE  \E s : Shaped(c, s)
<1>1. PICK r, linked : r = results[latestResult[p]] /\ linked = WithMemory(r) OBVIOUS
<1>2. latestResult[p] # 0 /\ Link(c, p, linked, "plan_memory_linked") BY <1>1 DEF LinkMemory
<1>3. r \in Result BY <1>1, <1>2, Elements DEF PlanInv, Types, ResultsFit
<1>4. /\ linked \in Result /\ LinkedFrom(latestResult[p], linked)
      /\ linked.reflection = r.reflection
  BY <1>1, <1>3 DEF WithMemory, LinkedFrom, Result, ResultWith
<1> QED BY <1>1, <1>2, <1>4, LinkShaped

LEMMA ThenFinishShaped ==
  ASSUME PlanInv, NEW c \in Callers, ThenFinish(c)
  PROVE  \E s : Shaped(c, s)
<1>1. Types BY DEF PlanInv
<1>2. Idle \in Awaits /\ Idle.at = "idle" BY DEF Idle, Awaits
<1>3. PICK s : s = Idle OBVIOUS
<1>4. AwaitFits(s) /\ BuildsOnLatest(s) BY <1>2, <1>3 DEF AwaitFits, BuildsOnLatest, Applying
<1>5. Moves(c, s) BY <1>2, <1>3 DEF Moves, Goes, ThenFinish
<1>6. Pushes(c) /\ HasTurn(c) /\ ~Applying(calls[c]) BY <1>1, PersistedEffect DEF ThenFinish
<1>7. started' \in 0..MaxRequests BY <1>1 DEF Types, ThenFinish
<1> QED BY <1>4, <1>5, <1>6, <1>7, StaysShaped DEF ThenFinish

LEMMA ThenStoreShaped ==
  ASSUME PlanInv, NEW c \in Callers, ThenStore(c)
  PROVE  \E s : Shaped(c, s)
<1>1. Types /\ AwaitFits(calls[c]) BY DEF PlanInv, CallsFit
<1>2. /\ calls[c].at = "saving" /\ calls[c].next \in NextSteps /\ calls[c].next.do = "store"
      /\ Pushes(c) /\ HasTurn(c) /\ ~Applying(calls[c])
  BY <1>1, PersistedEffect DEF ThenStore
<1>3. PICK i, a : i = calls[c].next.receipt /\ a = calls[c].next.anchor OBVIOUS
<1>4. i \in DOMAIN receipts /\ i \in Nat /\ a \in BOOLEAN
 <2>1. i \in DOMAIN receipts BY <1>1, <1>2, <1>3 DEF AwaitFits
 <2>2. i \in Nat BY <1>1, <2>1, Elements DEF Types
 <2>3. a \in BOOLEAN BY <1>2, <1>3 DEF NextSteps
 <2> QED BY <2>1, <2>2, <2>3
<1>5. PICK s : s = Uploading(i, a) OBVIOUS
<1>6. s \in Awaits /\ s.at = "uploading" /\ s.receipt = i BY <1>4, <1>5 DEF Uploading, Awaits
<1>7. AwaitFits(s) BY <1>4, <1>6 DEF AwaitFits
<1>8. patient /\ Turns => BuildsOnLatest(s)
 <2> SUFFICES ASSUME Turns PROVE BuildsOnLatest(s) OBVIOUS
 <2>1. i = latestReceipt[receipts[i].plan] BY <1>2, <1>3 DEF Turns, BuildsOnLatest
 <2> QED BY <1>6, <2>1 DEF BuildsOnLatest, Applying
<1>9. Moves(c, s) BY <1>3, <1>5, <1>6 DEF Moves, Goes, ThenStore
<1>10. started' \in 0..MaxRequests BY <1>1 DEF Types, ThenStore
<1> QED BY <1>2, <1>7, <1>8, <1>9, <1>10, StaysShaped DEF ThenStore

LEMMA ThenAnchorShaped ==
  ASSUME PlanInv, NEW c \in Callers, ThenAnchor(c)
  PROVE  \E s : Shaped(c, s)
<1>1. Types /\ AwaitFits(calls[c]) BY DEF PlanInv, CallsFit
<1>2. /\ calls[c].at = "saving" /\ calls[c].plan \in Plans
      /\ Pushes(c) /\ HasTurn(c) /\ ~Applying(calls[c])
  BY <1>1, PersistedEffect DEF ThenAnchor
<1>3. latestReceipt[calls[c].plan] # 0 BY <1>1, <1>2 DEF AwaitFits
<1>4. started' \in 0..MaxRequests BY <1>1 DEF Types, ThenAnchor
<1> QED BY <1>2, <1>3, <1>4, BeginAnchorShaped DEF ThenAnchor

LEMMA ThenApplyShaped ==
  ASSUME PlanInv, NEW c \in Callers, ThenApply(c)
  PROVE  \E s : Shaped(c, s)
<1>1. Types BY DEF PlanInv
<1>2. /\ calls[c].at = "saving" /\ calls[c].next.do = "apply" /\ Pushes(c) /\ HasTurn(c)
      /\ Applying(calls[c])
  BY <1>1, PersistedEffect DEF ThenApply, Applying
<1>3. PICK i, k, p : /\ i = latestReceipt[calls[c].plan]
                     /\ k = WithResult(i, calls[c].next.result)
                     /\ p = calls[c].plan
  OBVIOUS
<1>4. /\ p \in Plans /\ i \in DOMAIN receipts /\ Clones(k, i) /\ receipts[i].plan = p BY <1>2, <1>3, ApplyEffect
<1>5. k \in Receipt /\ k.plan = p /\ k.previous = i BY <1>4 DEF Clones
<1>6. SaveReceipt(k) /\ AppliesIt(c) BY <1>3 DEF ThenApply, AppliesIt
<1>7. /\ latestReceipt'[p] = NextReceipt /\ NextReceipt # 0
      /\ DOMAIN receipts' = DOMAIN receipts \cup {NextReceipt} /\ receipts'[NextReceipt] = k
  BY <1>1, <1>5, <1>6, SaveEffect
<1>8. PICK s : s = Saving(p, {}, Finish) OBVIOUS
<1>9. s.at = "saving" /\ s.plan = p /\ s.next.do = "finish" BY <1>8 DEF Saving, Finish
<1>10. s \in Awaits BY <1>4, <1>8 DEF Saving, Finish, Awaits, NextSteps
<1>11. Moves(c, s) BY <1>3, <1>8, <1>10 DEF Moves, Goes, ThenApply
<1>12. AwaitFits(s)' /\ BuildsOnLatest(s)' BY <1>7, <1>9 DEF AwaitFits, BuildsOnLatest, Applying
<1>13. i # 0 BY <1>1, <1>4, Elements DEF Types
<1>14. NewsTold(s) BY <1>5, <1>7, <1>13, OldNews DEF ThenApply
<1>15. started' \in 0..MaxRequests BY <1>1 DEF Types, ThenApply
<1> QED BY <1>2, <1>6, <1>11, <1>12, <1>14, <1>15 DEF Shaped, Shape, ExecutionsMove, ThenApply

LEMMA PersistRejectedShaped ==
  ASSUME PlanInv, NEW c \in Callers, PersistRejected(c)
  PROVE  \E s : Shaped(c, s)
<1>1. Types BY DEF PlanInv
<1>2. Idle \in Awaits /\ Idle.at = "idle" BY DEF Idle, Awaits
<1>3. PICK s : s = Idle OBVIOUS
<1>4. AwaitFits(s) /\ BuildsOnLatest(s) BY <1>2, <1>3 DEF AwaitFits, BuildsOnLatest, Applying
<1>5. Moves(c, s) BY <1>2, <1>3 DEF Moves, Goes, PersistRejected
<1>6. HasTurn(c) BY DEF HasTurn, Idle, PersistRejected
<1>7. started' \in 0..MaxRequests BY <1>1 DEF Types, PersistRejected
<1> QED BY <1>4, <1>5, <1>6, <1>7, StaysShaped DEF PersistRejected

LEMMA NextShaped ==
  ASSUME PlanInv, Next
  PROVE  \E c \in Callers, s \in Awaits : Shaped(c, s)
<1> SUFFICES \E c \in Callers : \E s : Shaped(c, s) BY DEF Shaped, Moves
<1>1. PICK c \in Callers :
        \/ \E p \in Plans, w \in BOOLEAN, a \in BOOLEAN : Create(c, p, w, a)
        \/ \E i \in DOMAIN receipts : StoreReceipt(c, i)
        \/ \E ok \in Uploads : ReceiptUploaded(c, ok)
        \/ \E p \in Plans, w \in BOOLEAN : AnchorReceipt(c, p, w)
        \/ \E answer \in Answers : ReceiptAnchored(c, answer)
        \/ \E p \in Plans : Execute(c, p)
        \/ \E p \in Plans, o \in Outcomes, l \in Links : CreateResult(c, p, o, l)
        \/ \E ok \in Uploads : ResultUploaded(c, ok)
        \/ \E answer \in Answers : ResultAnchored(c, answer)
        \/ \E p \in Plans : LinkReflection(c, p)
        \/ \E p \in Plans : LinkMemory(c, p)
        \/ ThenFinish(c) \/ ThenStore(c) \/ ThenAnchor(c) \/ ThenApply(c)
        \/ PersistRejected(c)
  BY DEF Next
<1> SUFFICES \E s : Shaped(c, s) OBVIOUS
<1>2. CASE \E p \in Plans, w \in BOOLEAN, a \in BOOLEAN : Create(c, p, w, a) BY <1>2, CreateShaped
<1>3. CASE \E i \in DOMAIN receipts : StoreReceipt(c, i) BY <1>3, StoreReceiptShaped
<1>4. CASE \E ok \in Uploads : ReceiptUploaded(c, ok) BY <1>4, UploadsAssumption, ReceiptUploadedShaped
<1>5. CASE \E p \in Plans, w \in BOOLEAN : AnchorReceipt(c, p, w) BY <1>5, AnchorReceiptShaped
<1>6. CASE \E answer \in Answers : ReceiptAnchored(c, answer) BY <1>6, ReceiptAnchoredShaped
<1>7. CASE \E p \in Plans : Execute(c, p) BY <1>7, ExecuteShaped
<1>8. CASE \E p \in Plans, o \in Outcomes, l \in Links : CreateResult(c, p, o, l) BY <1>8, CreateResultShaped
<1>9. CASE \E ok \in Uploads : ResultUploaded(c, ok) BY <1>9, UploadsAssumption, ResultUploadedShaped
<1>10. CASE \E answer \in Answers : ResultAnchored(c, answer) BY <1>10, ResultAnchoredShaped
<1>11. CASE \E p \in Plans : LinkReflection(c, p) BY <1>11, LinkReflectionShaped
<1>12. CASE \E p \in Plans : LinkMemory(c, p) BY <1>12, LinkMemoryShaped
<1>13. CASE ThenFinish(c) BY <1>13, ThenFinishShaped
<1>14. CASE ThenStore(c) BY <1>14, ThenStoreShaped
<1>15. CASE ThenAnchor(c) BY <1>15, ThenAnchorShaped
<1>16. CASE ThenApply(c) BY <1>16, ThenApplyShaped
<1>17. CASE PersistRejected(c) BY <1>17, PersistRejectedShaped
<1> QED BY <1>1, <1>2, <1>3, <1>4, <1>5, <1>6, <1>7, <1>8, <1>9, <1>10, <1>11, <1>12, <1>13,
     <1>14, <1>15, <1>16, <1>17

----
\* Callers that wait.

LEMMA OnlyOne ==
  ASSUME Types, Turns, NEW c \in Callers, NEW s, Moves(c, s), HasTurn(c)
  PROVE  /\ \A d \in Callers \ {c} : calls[d] = Idle /\ calls'[d] = Idle
         /\ calls'[c] = s
<1>1. calls'[c] = s /\ \A d \in Callers \ {c} : calls'[d] = calls[d] BY DEF Types, Moves
<1>2. \A d \in Callers \ {c} : calls[d] = Idle BY DEF Turns, Alone, HasTurn
<1> QED BY <1>1, <1>2

LEMMA SavedEffect ==
  ASSUME PlanInv, PlanInv', NEW r \in Receipt, SaveReceipt(r)
  PROVE  /\ \A p \in Plans \ {r.plan} : latestReceipt'[p] = latestReceipt[p]
         /\ NextReceipt \notin DOMAIN receipts /\ \A i \in DOMAIN receipts : i < NextReceipt
         /\ \A j \in 0..Len(receipts) : LineageIn(receipts', j) = LineageIn(receipts, j)
         /\ LineageIn(receipts', NextReceipt) =
                {NextReceipt} \cup LineageIn(receipts, r.previous)
<1>1. Types /\ ReceiptsFit /\ Descends(receipts) BY TheyDescend DEF PlanInv
<1>2. Descends(receipts') BY Elements DEF PlanInv, Types, ReceiptsFit, Descends
<1>3. /\ receipts \in Seq(Receipt) /\ Len(receipts) \in Nat /\ DOMAIN receipts = 1..Len(receipts)
      /\ latestReceipt \in [Plans -> Nat]
  BY <1>1, Elements DEF Types
<1>4. PICK k : k = NextReceipt OBVIOUS
<1>5. k \in Nat /\ k = Len(receipts) + 1 /\ receipts' = Append(receipts, r) BY <1>3, <1>4 DEF NextReceipt, SaveReceipt
<1>6. Len(receipts') = k /\ receipts'[k] = r /\ \A i \in DOMAIN receipts : receipts'[i] = receipts[i]
  BY <1>3, <1>5, AppendEffect
<1>7. \A p \in Plans \ {r.plan} : latestReceipt'[p] = latestReceipt[p] BY <1>3 DEF SaveReceipt
<1>8. \A j \in 0..Len(receipts) : LineageIn(receipts', j) = LineageIn(receipts, j)
 <2>1. Len(receipts) <= Len(receipts') /\ \A n \in 1..Len(receipts) : receipts'[n] = receipts[n] BY <1>3, <1>5, <1>6
 <2> QED BY <1>1, <1>2, <2>1, LineageAfter
<1>9. r.previous \in 0..Len(receipts)
 <2>1. k \in 1..Len(receipts') BY <1>3, <1>5, <1>6
 <2> QED BY <1>2, <1>3, <1>5, <1>6, <2>1 DEF Descends
<1>10. LineageIn(receipts', k) = {k} \cup LineageIn(receipts', r.previous)
 <2>1. k \in 1..Len(receipts') BY <1>3, <1>5, <1>6
 <2> QED BY <1>2, <1>6, <2>1, LineageOf
<1>11. k \notin DOMAIN receipts /\ \A i \in DOMAIN receipts : i < k BY <1>3, <1>5
<1> QED BY <1>4, <1>7, <1>8, <1>9, <1>10, <1>11

\* What create saves, and a clone of the plan's latest receipt, has the
\* highest version of its plan.
Highest(r) ==
    \A i \in DOMAIN receipts : receipts[i].plan = r.plan => receipts[i].version < r.version

Ascend(rs) ==
    \A i, j \in DOMAIN rs : rs[i].plan = rs[j].plan /\ i < j => rs[i].version < rs[j].version

LEMMA CloneIsHighest ==
  ASSUME PlanInv, Turns, NEW i \in DOMAIN receipts, i = latestReceipt[receipts[i].plan],
         NEW k, Clones(k, i)
  PROVE  Highest(k)
<1>1. Types /\ ReceiptsFit BY DEF PlanInv
<1>2. /\ Len(receipts) \in Nat /\ DOMAIN receipts = 1..Len(receipts)
      /\ \A j \in DOMAIN receipts : receipts[j].version \in 1..j
  BY <1>1, Elements DEF Types, ReceiptsFit
<1>3. \A j \in DOMAIN receipts : receipts[j].plan = receipts[i].plan => j <= i BY <1>1 DEF ReceiptsFit
<1>4. \A j \in DOMAIN receipts :
        receipts[j].plan = receipts[i].plan /\ j < i => receipts[j].version < receipts[i].version
  BY DEF Turns
<1> SUFFICES ASSUME NEW j \in DOMAIN receipts, receipts[j].plan = k.plan
             PROVE  receipts[j].version < k.version
  BY DEF Highest
<1>5. k.plan = receipts[i].plan /\ k.version = receipts[i].version + 1 BY DEF Clones
<1>6. /\ receipts[i].version \in Nat /\ receipts[j].version \in Nat /\ i \in Nat /\ j \in Nat
      /\ j <= i
  BY <1>2, <1>3, <1>5
<1>7. receipts[j].version <= receipts[i].version
 <2>1. CASE j = i BY <1>6, <2>1
 <2>2. CASE j # i BY <1>4, <1>5, <1>6, <2>2
 <2> QED BY <2>1, <2>2
<1> QED BY <1>5, <1>6, <1>7

\* What is saved, if anything: of the highest version, and made of what.
LEMMA SavesTheHighest ==
  ASSUME PlanInv, patient, Turns, NEW c \in Callers, NEW s, Shape(c, s)
  PROVE  UnchangedReceipts \/ \E r \in Receipt : Highest(r) /\ SaveReceipt(r)
<1>1. CASE Creates
 <2>1. PICK r : Blank(r) /\ SaveReceipt(r) BY <1>1 DEF Creates
 <2>2. r \in Receipt /\ Highest(r) BY <2>1, NextVersionEffect DEF Blank, Highest, PlanInv
 <2> QED BY <2>1, <2>2
<1>2. CASE ClonesOne
 <2>1. PICK i \in DOMAIN receipts, k \in Receipt :
           Clones(k, i) /\ SaveReceipt(k) /\ i = latestReceipt[receipts[i].plan]
   BY <1>2 DEF ClonesOne
 <2> QED BY <2>1, CloneIsHighest DEF Clones
<1>3. CASE AppliesIt(c) /\ Applying(calls[c])
 <2>1. PICK i, k : /\ i = latestReceipt[calls[c].plan]
                   /\ k = WithResult(i, calls[c].next.result)
   OBVIOUS
 <2>2. i \in DOMAIN receipts /\ receipts[i].plan = calls[c].plan /\ Clones(k, i) BY <1>3, <2>1, ApplyEffect
 <2>3. k \in Receipt /\ Highest(k) BY <2>1, <2>2, CloneIsHighest DEF Clones
 <2> QED BY <1>3, <2>1, <2>3 DEF AppliesIt
<1> QED BY <1>1, <1>2, <1>3 DEF Shape

LEMMA VersionsStep ==
  ASSUME PlanInv, PlanInv', patient, Turns, NEW c \in Callers, NEW s, Shape(c, s)
  PROVE  Ascend(receipts')
<1>1. Ascend(receipts) BY DEF Turns, Ascend
<1>2. CASE UnchangedReceipts BY <1>1, <1>2 DEF UnchangedReceipts
<1>3. CASE \E r \in Receipt : Highest(r) /\ SaveReceipt(r)
 <2>1. PICK r \in Receipt : Highest(r) /\ SaveReceipt(r) BY <1>3
 <2>2. PICK k : k = NextReceipt OBVIOUS
 <2>3. /\ DOMAIN receipts' = DOMAIN receipts \cup {k} /\ receipts'[k] = r /\ k \in Nat
       /\ \A i \in DOMAIN receipts : receipts'[i] = receipts[i]
   BY <2>1, <2>2, SaveEffect DEF PlanInv
 <2>4. \A i \in DOMAIN receipts : i \in Nat /\ i < k BY <2>1, <2>2, SavedEffect, Elements DEF PlanInv, Types
 <2> SUFFICES ASSUME NEW i \in DOMAIN receipts', NEW j \in DOMAIN receipts',
                     receipts'[i].plan = receipts'[j].plan, i < j
              PROVE  receipts'[i].version < receipts'[j].version
   BY DEF Ascend
 <2>5. i \in DOMAIN receipts
  <3>1. CASE i = k
   <4>1. j \in Nat /\ j <= k BY <2>3, <2>4
   <4> QED BY <2>3, <3>1, <4>1
  <3> QED BY <2>3, <3>1
 <2>6. CASE j = k BY <2>1, <2>3, <2>5, <2>6 DEF Highest
 <2>7. CASE j \in DOMAIN receipts BY <1>1, <2>3, <2>5, <2>7 DEF Ascend
 <2> QED BY <2>3, <2>6, <2>7
<1> QED BY <1>2, <1>3, SavesTheHighest

\* The latest receipt i of a plan descends from the one that its latest
\* result n was recorded against, and says what that result says.
InLine(rs, ps, i, n) == n # 0 /\ ps[n].receipt \in LineageIn(rs, i)

SaysIt(r, x) ==
    r.outcome = x.status /\ (x.reflection => r.reflection) /\ (x.memory => r.memory)

LEMMA FollowsStep ==
  ASSUME PlanInv, PlanInv', patient, Turns, NEW c \in Callers, NEW s, Shaped(c, s), ~rejected',
         NEW p \in Plans,
         InLine(receipts', results', latestReceipt'[p], latestResult'[p])
  PROVE  \/ SaysIt(receipts'[latestReceipt'[p]], results'[latestResult'[p]])
         \/ Applying(s) /\ s.plan = p
<1>1. /\ Types /\ ReceiptsFit /\ ResultsFit /\ Descends(receipts)
      /\ Len(receipts) \in Nat /\ DOMAIN receipts = 1..Len(receipts)
  BY TheyDescend, Elements DEF PlanInv, Types
<1>2. /\ ~rejected /\ Shape(c, s) /\ BuildsOnLatest(calls[c]) /\ FollowsSoon(p)
      /\ \A d \in Callers \ {c} : calls[d] = Idle
  BY OnlyOne DEF Shaped, Turns, PlanInv, Types
<1>3. PICK i, n : i = latestReceipt[p] /\ n = latestResult[p] OBVIOUS
<1>4. /\ i \in 0..Len(receipts) /\ (n # 0 => n \in DOMAIN results /\ results[n].plan = p)
      /\ i # 0 => receipts[i].plan = p
  BY <1>1, <1>3 DEF ReceiptsFit, ResultsFit
<1>5. n # 0 => results[n].receipt \in DOMAIN receipts BY <1>1, <1>4 DEF ResultsFit, ForItsPlan
<1>6. InLine(receipts, results, i, n) =>
        \/ SaysIt(receipts[i], results[n])
        \/ Applying(calls[c]) /\ calls[c].plan = p
 <2>1. ASSUME NEW d \in Callers, Applying(calls[d]) PROVE d = c
  <3>1. ~Applying(Idle) BY DEF Applying, Idle
  <3> QED BY <1>2, <2>1, <3>1
 <2> QED BY <1>2, <1>3, <2>1, LineageIsIn DEF FollowsSoon, Follows, InLine, SaysIt
\* A step that leaves the plan alone.
<1>7. ASSUME NEW r \in Receipt, SaveReceipt(r), UnchangedResults, r.plan # p,
             Applying(calls[c]) => calls[c].plan # p
      PROVE  SaysIt(receipts'[latestReceipt'[p]], results'[latestResult'[p]])
 <2>1. /\ latestReceipt'[p] = i /\ latestResult'[p] = n /\ results' = results
       /\ LineageIn(receipts', i) = LineageIn(receipts, i)
   BY <1>3, <1>4, <1>7, SavedEffect DEF UnchangedResults
 <2>2. InLine(receipts, results, i, n) BY <2>1 DEF InLine
 <2>3. i # 0 BY <1>1, <2>2, LineageOf DEF InLine
 <2>4. receipts'[i] = receipts[i] BY <1>1, <1>4, <1>7, <2>3, SaveEffect
 <2> QED BY <1>6, <1>7, <2>1, <2>2, <2>4
<1>8. ASSUME UnchangedReceipts, ~Applying(calls[c]), latestResult'[p] = n,
             n # 0 => results'[n] = results[n]
      PROVE  SaysIt(receipts'[latestReceipt'[p]], results'[latestResult'[p]])
 <2>1. receipts' = receipts /\ latestReceipt'[p] = i BY <1>3, <1>8 DEF UnchangedReceipts
 <2>2. InLine(receipts, results, i, n) /\ results'[n] = results[n] BY <1>8, <2>1 DEF InLine
 <2> QED BY <1>6, <1>8, <2>1, <2>2
<1>9. CASE UnchangedReceipts /\ UnchangedResults /\ ~Applying(calls[c]) BY <1>3, <1>8, <1>9 DEF UnchangedResults
\* A new line of versions, which the result is not in.
<1>10. CASE Creates /\ UnchangedResults /\ ~Applying(calls[c])
 <2>1. PICK r : Blank(r) /\ SaveReceipt(r) /\ r \in Receipt BY <1>10 DEF Creates, Blank
 <2>2. CASE r.plan = p
  <3>1. PICK k : k = NextReceipt OBVIOUS
  <3>2. /\ latestReceipt'[p] = k /\ k \notin DOMAIN receipts
        /\ LineageIn(receipts', k) = {k} \cup LineageIn(receipts, 0)
    BY <2>1, <2>2, <3>1, SaveEffect, SavedEffect, <1>1 DEF Blank
  <3>3. LineageIn(receipts, 0) = {} BY <1>1, LineageOf
  <3>4. n # 0 /\ results[n].receipt = k BY <1>3, <1>10, <3>2, <3>3 DEF InLine, UnchangedResults
  <3> QED BY <1>5, <3>2, <3>4
 <2>3. CASE r.plan # p BY <1>7, <1>10, <2>1, <2>3
 <2> QED BY <2>2, <2>3
<1>11. CASE ClonesOne /\ UnchangedResults /\ ~Applying(calls[c])
 <2>1. PICK j \in DOMAIN receipts, k \in Receipt :
           /\ Clones(k, j) /\ KeepsClaims(k, j) /\ SaveReceipt(k)
           /\ j = latestReceipt[receipts[j].plan]
   BY <1>11 DEF ClonesOne
 <2>2. k \in Receipt /\ k.plan = receipts[j].plan /\ k.previous = j BY <2>1 DEF Clones
 <2>3. CASE k.plan = p
  <3>1. PICK m : m = NextReceipt OBVIOUS
  <3>2. /\ latestReceipt'[p] = m /\ m \notin DOMAIN receipts /\ receipts'[m] = k
        /\ LineageIn(receipts', m) = {m} \cup LineageIn(receipts, j)
    BY <1>1, <2>1, <2>2, <2>3, <3>1, SaveEffect, SavedEffect
  <3>3. j = i /\ latestResult'[p] = n /\ results' = results BY <1>3, <1>11, <2>1, <2>2, <2>3 DEF UnchangedResults
  <3>4. InLine(receipts, results, i, n) BY <1>5, <3>2, <3>3 DEF InLine
  <3>5. SaysIt(receipts[i], results[n]) BY <1>6, <1>11, <3>4
  <3>6. SaysIt(k, results[n]) BY <2>1, <3>3, <3>5 DEF SaysIt, KeepsClaims
  <3> QED BY <3>2, <3>3, <3>6
 <2>4. CASE k.plan # p BY <1>7, <1>11, <2>1, <2>2, <2>4
 <2> QED BY <2>3, <2>4
\* The latest result is applied to the latest receipt.
<1>12. CASE AppliesIt(c) /\ UnchangedResults /\ Applying(calls[c])
 <2>1. PICK j, k, x : /\ j = latestReceipt[calls[c].plan]
                      /\ x = calls[c].next.result /\ k = WithResult(j, x)
   OBVIOUS
 <2>2. /\ j \in DOMAIN receipts /\ receipts[j].plan = calls[c].plan
       /\ Clones(k, j) /\ k.outcome = x.status
       /\ x.reflection => k.reflection
       /\ x.memory => k.memory
   BY <1>12, <2>1, ApplyEffect
 <2>3. k \in Receipt /\ k.plan = calls[c].plan /\ SaveReceipt(k) BY <1>12, <2>1, <2>2 DEF Clones, AppliesIt
 <2>4. CASE k.plan = p
  <3>1. latestReceipt'[p] = NextReceipt /\ receipts'[NextReceipt] = k BY <1>1, <2>3, <2>4, SaveEffect
  <3>2. x = results[n] /\ latestResult'[p] = n /\ results' = results
    BY <1>2, <1>3, <1>12, <2>1, <2>3, <2>4 DEF BuildsOnLatest, UnchangedResults
  <3>3. SaysIt(k, x) BY <2>2 DEF SaysIt
  <3> QED BY <3>1, <3>2, <3>3
 <2>5. CASE k.plan # p BY <1>7, <1>12, <2>3, <2>5
 <2> QED BY <2>4, <2>5
<1>13. CASE UnchangedReceipts /\ RecordsIt(s) /\ ~Applying(calls[c])
 <2>1. PICK result : Recordable(result) /\ Records(result) /\ Applying(s) /\ s.plan = result.plan
   BY <1>13 DEF RecordsIt
 <2>2. CASE result.plan = p BY <2>1, <2>2
 <2>3. CASE result.plan # p
  <3>1. latestResult'[p] = n BY <1>1, <1>3, <2>1, <2>3 DEF Records, Types
  <3>2. \A m \in DOMAIN results : results'[m] = results[m] BY <1>1, <2>1, AppendEffect DEF Records, Recordable, Types
  <3> QED BY <1>4, <1>8, <1>13, <3>1, <3>2
 <2> QED BY <2>2, <2>3
<1>14. CASE UnchangedReceipts /\ LinksIt(s) /\ ~Applying(calls[c])
 <2>1. PICK q \in Plans, linked \in Result :
         /\ latestResult[q] # 0 /\ UNCHANGED latestResult
         /\ results' = [results EXCEPT ![latestResult[q]] = linked]
         /\ Applying(s) /\ s.plan = q
   BY <1>14 DEF LinksIt
 <2>2. CASE q = p BY <2>1, <2>2
 <2>3. CASE q # p
  <3>1. n # 0 => n # latestResult[q] BY <1>1, <1>4, <2>1, <2>3 DEF ResultsFit
  <3> QED BY <1>1, <1>3, <1>4, <1>8, <1>14, <2>1, <3>1 DEF Types
 <2> QED BY <2>2, <2>3
<1> QED BY <1>2, <1>9, <1>10, <1>11, <1>12, <1>13, <1>14 DEF Shape

LEMMA TurnStep ==
  ASSUME PlanInv, PlanInv', patient, Turns, NEW c \in Callers, NEW s, Shaped(c, s)
  PROVE  Turns'
<1>1. Types /\ Moves(c, s) /\ HasTurn(c) /\ Shape(c, s) /\ BuildsOnLatest(s)' BY DEF PlanInv, Shaped
<1>2. calls'[c] = s /\ \A d \in Callers \ {c} : calls'[d] = Idle BY <1>1, OnlyOne
<1>3. Alone' BY <1>2 DEF Alone
<1>4. ASSUME NEW d \in Callers PROVE BuildsOnLatest(calls[d])'
 <2>1. CASE d = c BY <1>1, <1>2, <2>1 DEF BuildsOnLatest, Applying
 <2>2. CASE d # c BY <1>2, <2>2 DEF BuildsOnLatest, Applying, Idle
 <2> QED BY <2>1, <2>2
<1>5. Ascend(receipts') BY <1>1, VersionsStep
<1>6. rejected' \/ \A p \in Plans : FollowsSoon(p)'
 <2> SUFFICES ASSUME ~rejected', NEW p \in Plans,
                     latestResult'[p] # 0,
                     results'[latestResult'[p]].receipt \in LineageIn(receipts', latestReceipt'[p])
              PROVE  \/ Follows(latestReceipt[p], latestResult[p])'
                     \/ Applying(calls'[c]) /\ calls'[c].plan = p
   BY DEF FollowsSoon, Lineage, LineageIn, Tells, Applying
 <2>1. \/ SaysIt(receipts'[latestReceipt'[p]], results'[latestResult'[p]])
       \/ Applying(s) /\ s.plan = p
   BY FollowsStep DEF InLine
 <2> QED BY <1>2, <2>1 DEF SaysIt, Follows
<1> QED BY <1>3, <1>4, <1>5, <1>6 DEF Turns, Ascend

----
\* The invariant, and what it gives.

LEMMA PlanInit == Init => PlanInv /\ TurnInv
<1> SUFFICES ASSUME Init PROVE PlanInv /\ TurnInv OBVIOUS
<1>1. /\ receipts = <<>> /\ latestReceipt = [p \in Plans |-> 0]
      /\ results = <<>> /\ latestResult = [p \in Plans |-> 0] /\ executions = <<>>
      /\ calls = [c \in Callers |-> Idle] /\ started = 0 /\ rejected = FALSE
      /\ patient \in BOOLEAN
  BY PatienceAssumption DEF Init
<1>2. Idle \in Awaits /\ Idle.at = "idle" BY DEF Idle, Awaits
<1>3. Types
 <2>1. receipts \in Seq(Receipt) /\ results \in Seq(Result) /\ executions \in Seq(Nat) BY <1>1
 <2>2. calls \in [Callers -> Awaits] BY <1>1, <1>2
 <2>3. started \in 0..MaxRequests BY <1>1, BoundAssumption
 <2> QED BY <1>1, <2>1, <2>2, <2>3 DEF Types
<1>4. DOMAIN receipts = {} /\ DOMAIN results = {} /\ DOMAIN executions = {} BY <1>1
<1>5. \A c \in Callers : AwaitFits(calls[c]) /\ BuildsOnLatest(calls[c])
  BY <1>1, <1>2 DEF AwaitFits, BuildsOnLatest, Applying
<1>6. PlanInv
  BY <1>1, <1>3, <1>4, <1>5
  DEF PlanInv, ReceiptsFit, ResultsFit, CallsFit, ExecutionsFit, OutcomeHasResult,
      AnchorsTheLineage, EventsTold
<1>7. Turns BY <1>1, <1>4, <1>5 DEF Turns, Alone, FollowsSoon
<1> QED BY <1>6, <1>7 DEF TurnInv

LEMMA PlanNext ==
  PlanInv /\ TurnInv /\ [Next]_vars => PlanInv' /\ TurnInv' /\ ResultsGrow
<1> SUFFICES ASSUME PlanInv, TurnInv, [Next]_vars PROVE PlanInv' /\ TurnInv' /\ ResultsGrow OBVIOUS
<1>1. CASE Next
 <2>1. PICK c \in Callers, s \in Awaits : Shaped(c, s) BY <1>1, NextShaped
 <2>2. PlanInv' /\ ResultsGrow BY <2>1, ShapedKeeps
 <2>3. patient' = patient BY <2>1 DEF Shaped
 <2>4. TurnInv' BY <2>1, <2>2, <2>3, TurnStep DEF TurnInv
 <2> QED BY <2>2, <2>4
<1>2. CASE UNCHANGED vars
 <2>1. /\ receipts' = receipts /\ latestReceipt' = latestReceipt /\ results' = results
       /\ latestResult' = latestResult /\ executions' = executions /\ timeline' = timeline
       /\ calls' = calls /\ started' = started /\ patient' = patient /\ rejected' = rejected
   BY <1>2 DEF vars
 <2>2. Types' /\ ReceiptsFit' /\ ResultsFit' /\ ExecutionsFit' /\ OutcomeHasResult'
   BY <2>1
   DEF PlanInv, Types, ReceiptsFit, ResultsFit, ForItsPlan, ExecutionsFit, OutcomeHasResult
 <2>3. CallsFit' BY <2>1 DEF PlanInv, CallsFit, AwaitFits, ForItsPlan, SaysAsMuch, AsHashed
 <2>4. \A i : Lineage(i)' = Lineage(i) BY <2>1 DEF Lineage
 <2>5. AnchorsTheLineage' BY <2>1, <2>4 DEF PlanInv, AnchorsTheLineage
 <2>6. (rejected \/ EventsTold)' BY <2>1 DEF PlanInv, EventsTold, Told
 <2>7. TurnInv' BY <2>1, <2>4 DEF TurnInv, Turns, Alone, BuildsOnLatest, Applying, FollowsSoon, Follows
 <2> QED BY <2>1, <2>2, <2>3, <2>5, <2>6, <2>7 DEF PlanInv, ResultsGrow
<1> QED BY <1>1, <1>2

\* The invariants of server/plans hold in every state, for any number of
\* plans, callers and requests.
THEOREM PlansHold == Spec => [](PlanInv /\ TurnInv)
<1>1. Init => PlanInv /\ TurnInv BY PlanInit
<1>2. (PlanInv /\ TurnInv) /\ [Next]_vars => (PlanInv /\ TurnInv)' BY PlanNext
<1> QED BY <1>1, <1>2, PTL DEF Spec

LEMMA NobodyOwesEvents ==
  ASSUME EventsTold, Quiet, NEW e, Told(e) PROVE e \in timeline
BY DEF Told, Quiet, Idle

LEMMA HonestPlans == PlanInv => PlansAreHonest
<1> SUFFICES ASSUME PlanInv PROVE PlansAreHonest OBVIOUS
<1>1. /\ Types /\ ReceiptsFit /\ ResultsFit /\ ExecutionsFit
      /\ OutcomeHasResult /\ AnchorsTheLineage
  BY DEF PlanInv
<1>2. /\ Len(receipts) \in Nat /\ DOMAIN receipts = 1..Len(receipts)
      /\ \A i \in DOMAIN receipts : receipts[i] \in Receipt
      /\ \A n \in DOMAIN results : results[n] \in Result
  BY <1>1, Elements DEF Types
<1>3. ASSUME NEW i \in DOMAIN receipts
      PROVE  /\ receipts[i].plan \in Plans
             /\ receipts[i].version \in 1..Len(receipts)
             /\ receipts[i].previous \in 0..(i - 1)
             /\ receipts[i].outcome \in {"pending", "success", "partial", "failed", "degraded"}
             /\ receipts[i].storage \in Options({"remote", "local"})
             /\ receipts[i].solana \in Options(Proofs)
 <2>1. /\ receipts[i].version \in 1..i /\ receipts[i].previous \in 0..(i - 1)
       /\ receipts[i].solana # None => receipts[i].solana.of \in 1..i
   BY <1>1 DEF ReceiptsFit
 <2>2. /\ receipts[i].plan \in Plans /\ receipts[i].outcome \in Outcome
       /\ receipts[i].storage \in {"remote", "local", None}
       /\ receipts[i].solana \in Proof \cup {None}
   BY <1>2 DEF Receipt, ReceiptWith
 <2>3. receipts[i].solana \in Options(Proofs)
  <3>1. CASE receipts[i].solana = None BY <3>1 DEF Options
  <3>2. CASE receipts[i].solana # None
   <4>1. receipts[i].solana \in Proof /\ receipts[i].solana.of \in DOMAIN receipts BY <1>2, <2>1, <2>2, <3>2
   <4> QED BY <4>1 DEF Options, Proof, Proofs
  <3> QED BY <3>1, <3>2
 <2> QED BY <1>2, <2>1, <2>2, <2>3 DEF Outcome, Options
<1>4. ASSUME NEW n \in DOMAIN results
      PROVE  /\ results[n].receipt \in DOMAIN receipts
             /\ receipts[results[n].receipt].plan = results[n].plan
             /\ results[n].storage \in {"remote", "local"}
             /\ results[n].solana \in Proofs
 <2>1. ForItsPlan(results[n]) /\ results[n].solana.of \in DOMAIN receipts BY <1>1 DEF ResultsFit
 <2>2. results[n].storage \in Kept /\ results[n].solana \in Proof BY <1>2 DEF Result, ResultWith
 <2>3. results[n].solana \in Proofs BY <2>1, <2>2 DEF Proof, Proofs
 <2> QED BY <2>1, <2>2, <2>3 DEF ForItsPlan, Kept
<1>5. latestReceipt \in [Plans -> Ids(receipts)] /\ latestResult \in [Plans -> Ids(results)]
  BY <1>1 DEF Types, ReceiptsFit, ResultsFit, Ids
<1>6. TypeOK BY <1>1, <1>3, <1>4, <1>5 DEF TypeOK, Types, ExecutionsFit
<1>7. ReceiptsMatchTheirHash /\ LatestResultIsNewest
  BY <1>1 DEF ReceiptsFit, ResultsFit, ReceiptsMatchTheirHash, LatestResultIsNewest
<1>8. TimelineTellsAll
 <2> SUFFICES ASSUME Quiet, ~rejected, EventsTold PROVE TimelineTellsAll BY DEF TimelineTellsAll, PlanInv
 <2>1. \A e : Told(e) => e \in timeline BY NobodyOwesEvents
 <2> HIDE DEF Told
 <2> QED BY <2>1 DEF EventsTold, TimelineTellsAll
<1> QED BY <1>1, <1>6, <1>7, <1>8 DEF PlansAreHonest

\* Whatever requests overlap and whatever uploads, anchors and writes fail,
\* receipts and results refer to what was saved before, every receipt is of
\* its hash, claims only what a result of its plan backs and is anchored
\* with a receipt it descends from, the latest result is the newest, and
\* once all is written the timeline tells of everything that was recorded.
THEOREM PlansAlwaysHonest == Spec => []PlansAreHonest
<1>1. PlanInv /\ TurnInv => PlansAreHonest BY HonestPlans
<1> QED BY <1>1, PlansHold, PTL

\* For callers that wait for their answers, the versions of a plan are one
\* line, and once every request has ended and been written the plan says
\* what the latest result recorded against its line says.
THEOREM PlansAlwaysInTurn == Spec => []PlansInTurn
<1>1. PlanInv /\ TurnInv => PlansInTurn
 <2> SUFFICES ASSUME TurnInv PROVE PlansInTurn OBVIOUS
 <2>1. VersionsLinear BY DEF TurnInv, Turns, VersionsLinear
 <2>2. PlanFollowsResult
  <3> SUFFICES ASSUME patient, Quiet, ~rejected, NEW p \in Plans, latestResult[p] # 0,
                      results[latestResult[p]].receipt \in Lineage(latestReceipt[p])
               PROVE  Follows(latestReceipt[p], latestResult[p])
    BY DEF PlanFollowsResult, Follows
  <3>1. FollowsSoon(p) BY DEF TurnInv, Turns
  <3>2. \A c \in Callers : ~Applying(calls[c]) BY DEF Quiet, Applying, Idle
  <3> QED BY <3>1, <3>2 DEF FollowsSoon
 <2> QED BY <2>1, <2>2 DEF PlansInTurn
<1> QED BY <1>1, PlansHold, PTL

\* No step takes back what a result reports or links, whoever links what at
\* the same time.
THEOREM LinksAlwaysStay == Spec => LinksStay
<1>1. (PlanInv /\ TurnInv) /\ [Next]_vars =>
        [\A n \in DOMAIN results :
            /\ results[n].reflection => results'[n].reflection
            /\ results[n].memory => results'[n].memory
            /\ results[n].status = results'[n].status]_vars
  BY PlanNext DEF ResultsGrow
<1> QED BY <1>1, PlansHold, PTL DEF Spec, LinksStay
=============================================================================
