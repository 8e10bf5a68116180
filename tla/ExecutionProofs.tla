--------------------------- MODULE ExecutionProofs ---------------------------
\* What the bridge keeps is what the chain has done with it, for any
\* number of requests, subjects and transactions; what a run of the swarm
\* says of itself rests on what it has done, and what it has answered is
\* kept, for any number of runs and of requests of the desk, any cap of
\* the mirror and any number of restarts; what the 0G sidecar and the
\* OpenClaw bridge have answered can be found again, for any number of
\* writes and manifests; and the errors are told as the server knows them,
\* for any number of calls and any limit of the history.
EXTENDS MCExecution, SumTheorems, TLAPS

----
\* The bridge.  Its properties hold although every record is written from
\* what was read before an await, because of what the requests in flight
\* know: a request that has not sent owns a record that no transaction is
\* of, one that has sent holds the signature of its own, and for callers
\* that keep an order the one request in flight explains each difference
\* between a record and its account.

Before == {"building", "sending"}
After == {"publishing", "mirroring"}
Sending == Before \cup After \cup {"failing"}
Confirming == {"confirming", "settling"}

BridgeRecord ==
  [address : Addresses, status : {"building", "submitted", "failed", "confirmed"}, tx : Nat,
   crossed : BOOLEAN]
Account ==
  [of : Nat, status : {"none", "pending", "failed", "confirmed"}, tx : Nat, crossed : BOOLEAN]
Transaction == [of : Nat, fate : {"sent", "ok", "err"}]
SendRequest == [at : Sending, i : Nat, route : BridgeRoutes, tx : Nat]
ConfirmRequest == [at : Confirming, i : Nat, tx : Nat, to : SUBSET Addresses]
Settled == [at |-> "settled"]
Request == {Resting, Settled} \cup SendRequest \cup ConfirmRequest

TypeOK ==
  /\ history \in Seq(BridgeRecord)
  /\ accounts \in [Addresses -> Account]
  /\ chain \in Seq(Transaction)
  /\ sends \in [BridgeCallers -> Request]
  /\ orderly \in BOOLEAN /\ faulty \in BOOLEAN

\* A record that was not crossed shows a transaction of its own, a confirmed
\* one a good one.
RecordsHold ==
  \A i \in DOMAIN history : LET r == history[i] IN
    /\ r.tx # 0 => r.tx \in DOMAIN chain /\ (~r.crossed => chain[r.tx].of = i)
    /\ r.status = "submitted" => r.tx # 0
    /\ r.status = "confirmed" => r.tx # 0 /\ chain[r.tx].fate = "ok"

\* Each transaction is of a record, and of each record there is one.
ChainHolds ==
  /\ \A t \in DOMAIN chain : chain[t].of \in DOMAIN history
  /\ \A t, u \in DOMAIN chain : chain[t].of = chain[u].of => t = u

\* An account shows a transaction sent to it, a confirmed one a good one.
AccountsHold ==
  \A a \in Addresses : LET r == accounts[a] IN
    /\ r.tx # 0 => r.tx \in DOMAIN chain /\ (~r.crossed => OwnAccount(r.tx) = a)
    /\ r.status = "confirmed" => r.tx # 0 /\ chain[r.tx].fate = "ok"
    /\ r.status = "none" => r = NoAccount

\* What is credited is of a record.
CreditsHold == \A x \in credited : x[2] \in DOMAIN history

RequestHolds(s) ==
  /\ s.at \in Sending => s.i \in DOMAIN history
  /\ s.at \in Before => \A t \in DOMAIN chain : chain[t].of # s.i
  /\ s.at \in After => s.tx \in DOMAIN chain /\ chain[s.tx].of = s.i
  /\ s.at \in Confirming =>
       /\ s.tx \in DOMAIN chain /\ s.i \in {0} \cup DOMAIN history
       /\ orderly => s.i = chain[s.tx].of /\ s.to = {OwnAccount(s.tx)}
  /\ s.at = "settling" => chain[s.tx].fate # "sent"

OwnRecords ==
  \A c, d \in BridgeCallers :
    sends[c].at \in Sending /\ sends[d].at \in Sending /\ sends[c].i = sends[d].i => c = d

RequestsHold == OwnRecords /\ \A c \in BridgeCallers : RequestHolds(sends[c])

----
\* Callers that keep an order.

OneAtATime ==
  orderly => \A c, d \in BridgeCallers : sends[c] # Resting /\ sends[d] # Resting => c = d

\* An account says what its record says, or a request is about to see to it.
Shows(a) == LET r == accounts[a] IN
  r.status # "none" =>
    /\ r.of \in DOMAIN history /\ r.tx # 0 /\ r.tx = history[r.of].tx
    /\ \/ r.status = history[r.of].status
       \/ r.status = "pending" /\ history[r.of].status = "submitted"
       \/ /\ r.status = "pending"
          /\ \E c \in BridgeCallers : sends[c].at = "settling" /\ sends[c].i = r.of

\* A submitted record is shown by its account, or about to be.
Shown(i) ==
  history[i].status = "submitted" =>
    \/ \E c \in BridgeCallers : sends[c].at = "publishing" /\ sends[c].i = i
    \/ /\ accounts[history[i].address].of = i
       /\ accounts[history[i].address].status = "pending"

InTurn(s) ==
  /\ s.at \in Before \cup {"publishing"} => accounts[history[s.i].address].status # "pending"
  /\ s.at = "publishing" => history[s.i].status = "submitted"
  /\ s.at = "confirming" => history[s.i].status = "submitted"
  /\ s.at = "settling" =>
       /\ s.tx = history[s.i].tx
       /\ history[s.i].status = StatusOfFate(chain[s.tx].fate)
       /\ accounts[history[s.i].address].of = s.i
       /\ accounts[history[s.i].address].status = "pending"

InOrder ==
  orderly /\ ~faulty =>
    /\ \A a \in Addresses : Shows(a)
    /\ \A i \in DOMAIN history : Shown(i)
    /\ \A c \in BridgeCallers : InTurn(sends[c])

BridgeInv ==
  /\ TypeOK /\ RecordsHold /\ ChainHolds /\ AccountsHold /\ RequestsHold
  /\ FailedNeverLands /\ CreditsHold /\ CreditsRestOnTransactions
  /\ OrderlyNeverCross /\ OneAtATime /\ InOrder

----
\* Sequences and records.

LEMMA AppendEffect ==
  ASSUME NEW R, NEW s \in Seq(R), NEW x \in R
  PROVE  /\ Append(s, x) \in Seq(R)
         /\ Len(s) + 1 \in Nat \ {0} /\ Len(s) + 1 \notin DOMAIN s
         /\ DOMAIN Append(s, x) = DOMAIN s \cup {Len(s) + 1}
         /\ \A i \in DOMAIN s : Append(s, x)[i] = s[i]
         /\ Append(s, x)[Len(s) + 1] = x
OBVIOUS

LEMMA UpdateEffect ==
  ASSUME TypeOK, NEW i \in DOMAIN history,
         NEW status \in {"building", "submitted", "failed", "confirmed"}, NEW tx \in Nat,
         UpdateHistory(i, status, tx)
  PROVE  /\ history' \in Seq(BridgeRecord) /\ DOMAIN history' = DOMAIN history
         /\ \A j \in DOMAIN history \ {i} : history'[j] = history[j]
         /\ history'[i].address = history[i].address
         /\ history'[i].status = status /\ history'[i].crossed = history[i].crossed
         /\ history'[i].tx = IF tx = 0 THEN history[i].tx ELSE tx
<1> DEFINE r == [history[i] EXCEPT !.status = status, !.tx = IF tx = 0 THEN @ ELSE tx]
<1>1. history[i] \in BridgeRecord /\ history \in Seq(BridgeRecord) BY DEF TypeOK
<1>2. history' = [history EXCEPT ![i] = r] BY <1>1, BridgeAssumption DEF UpdateHistory, BridgeRecord
<1>3. r \in BridgeRecord BY <1>1 DEF BridgeRecord
<1>4. /\ r.address = history[i].address /\ r.status = status
      /\ r.crossed = history[i].crossed
      /\ r.tx = IF tx = 0 THEN history[i].tx ELSE tx
  BY <1>1 DEF BridgeRecord
<1> HIDE DEF r
<1>5. QED BY <1>1, <1>2, <1>3, <1>4

LEMMA ElementsTyped ==
  ASSUME TypeOK
  PROVE  /\ \A i \in DOMAIN history :
              /\ i \in Nat \ {0} /\ history[i] \in BridgeRecord
              /\ history[i].address \in Addresses /\ history[i].tx \in Nat
         /\ \A t \in DOMAIN chain :
              /\ t \in Nat \ {0} /\ chain[t] \in Transaction
              /\ chain[t].fate \in {"sent", "ok", "err"}
<1>1. /\ \A i \in DOMAIN history : i \in Nat \ {0} /\ history[i] \in BridgeRecord
      /\ \A t \in DOMAIN chain : t \in Nat \ {0} /\ chain[t] \in Transaction
  BY DEF TypeOK
<1>2. QED BY <1>1 DEF BridgeRecord, Transaction

LEMMA SendTyped ==
  ASSUME TypeOK, NEW c \in BridgeCallers, sends[c].at \in Sending
  PROVE  /\ sends[c] \in SendRequest
         /\ \A v \in Sending : LET s == [sends[c] EXCEPT !.at = v] IN
              /\ s \in Request /\ s.at = v /\ s.i = sends[c].i
              /\ s.route = sends[c].route /\ s.tx = sends[c].tx
<1>1. sends[c] \in Request BY DEF TypeOK
<1>2. sends[c] \in SendRequest
  BY <1>1 DEF Request, Resting, Settled, ConfirmRequest, Confirming, Sending, Before, After
<1>3. QED BY <1>2 DEF SendRequest, Request

LEMMA ConfirmTyped ==
  ASSUME TypeOK, NEW c \in BridgeCallers, sends[c].at \in Confirming
  PROVE  /\ sends[c] \in ConfirmRequest
         /\ LET s == [sends[c] EXCEPT !.at = "settling"] IN
              /\ s \in Request /\ s.at = "settling" /\ s.i = sends[c].i /\ s.tx = sends[c].tx
              /\ s.to = sends[c].to
<1>1. sends[c] \in Request BY DEF TypeOK
<1>2. sends[c] \in ConfirmRequest
  BY <1>1 DEF Request, Resting, Settled, SendRequest, Confirming, Sending, Before, After
<1>3. QED BY <1>2 DEF ConfirmRequest, Request, Confirming

----
\* A step that only moves one request on.
LEMMA QuietStep ==
  ASSUME BridgeInv, NEW c \in BridgeCallers, NEW s \in Request,
         UNCHANGED <<history, accounts, chain, orderly>>,
         Proceeds(c, s), faulty' \in BOOLEAN, faulty => faulty',
         CreditsHold', CreditsRestOnTransactions',
         RequestHolds(s),
         s.at \in Sending => sends[c].at \in Sending /\ s.i = sends[c].i,
         orderly => sends[c] # Resting \/ \A d \in BridgeCallers : sends[d] = Resting,
         sends[c].at \in {"publishing", "settling"} => faulty',
         orderly /\ ~faulty' => InTurn(s)
  PROVE  BridgeInv'
<1>1. /\ sends'[c] = s /\ \A d \in BridgeCallers \ {c} : sends'[d] = sends[d]
      /\ sends' \in [BridgeCallers -> Request]
  BY DEF Proceeds, BridgeInv, TypeOK
<1>2. TypeOK' /\ RecordsHold' /\ ChainHolds' /\ AccountsHold'
  BY <1>1 DEF BridgeInv, TypeOK, RecordsHold, ChainHolds, AccountsHold, OwnAccount
<1>3. RequestsHold' BY <1>1 DEF BridgeInv, RequestsHold, OwnRecords, RequestHolds, OwnAccount
<1>4. FailedNeverLands' BY DEF BridgeInv, FailedNeverLands
<1>5. OneAtATime' /\ OrderlyNeverCross' BY <1>1 DEF BridgeInv, OneAtATime, OrderlyNeverCross
<1>6. InOrder'
 <2> SUFFICES ASSUME orderly, ~faulty'
              PROVE  /\ \A a \in Addresses : Shows(a)'
                     /\ \A i \in DOMAIN history : Shown(i)'
                     /\ \A d \in BridgeCallers : InTurn(sends[d])'
   BY DEF InOrder
 <2>1. /\ \A a \in Addresses : Shows(a)
       /\ \A i \in DOMAIN history : Shown(i)
       /\ \A d \in BridgeCallers : InTurn(sends[d])
   BY DEF BridgeInv, InOrder, TypeOK
 <2>2. \A d \in BridgeCallers : sends[d].at \in {"publishing", "settling"} => sends'[d] = sends[d] BY <1>1
 <2>3. \A a \in Addresses : Shows(a)' BY <2>1, <2>2 DEF Shows
 <2>4. \A i \in DOMAIN history : Shown(i)' BY <2>1, <2>2 DEF Shown
 <2>5. \A d \in BridgeCallers : InTurn(sends[d])' BY <1>1, <2>1 DEF InTurn
 <2>6. QED BY <2>3, <2>4, <2>5
<1>7. QED BY <1>2, <1>3, <1>4, <1>5, <1>6 DEF BridgeInv

\* A request that has failed: its record says so and still shows what it
\* showed. Without a fault that is nothing, and nothing was sent.
LEMMA FailingStep ==
  ASSUME BridgeInv, NEW c \in BridgeCallers, sends[c].at \in Before \cup After, Fails(c),
         UNCHANGED <<accounts, chain, credited, orderly>>,
         faulty' \in BOOLEAN, faulty => faulty', sends[c].at \in After => faulty'
  PROVE  BridgeInv'
<1> TypeOK BY DEF BridgeInv
<1>0. PICK i : i = sends[c].i OBVIOUS
<1>1. PICK s \in Request : /\ s = [sends[c] EXCEPT !.at = "failing"]
                           /\ s.at = "failing" /\ s.i = i
                           /\ sends[c].at \in Sending /\ "failing" \in Sending
 <2>1. sends[c].at \in Sending /\ "failing" \in Sending BY DEF Sending
 <2>2. PICK s : s = [sends[c] EXCEPT !.at = "failing"] OBVIOUS
 <2>3. s \in Request /\ s.at = "failing" /\ s.i = i BY <1>0, <2>1, <2>2, SendTyped
 <2>4. QED BY <2>1, <2>2, <2>3
<1>2. sends'[c] = s /\ \A d \in BridgeCallers \ {c} : sends'[d] = sends[d] BY <1>1 DEF Fails, Proceeds, TypeOK
<1>3. i \in DOMAIN history /\ RequestHolds(sends[c]) BY <1>0, <1>1 DEF BridgeInv, RequestsHold, RequestHolds
<1>4. /\ history' \in Seq(BridgeRecord) /\ DOMAIN history' = DOMAIN history
      /\ \A j \in DOMAIN history \ {i} : history'[j] = history[j]
      /\ history'[i].address = history[i].address
      /\ history'[i].status = "failed" /\ history'[i].crossed = history[i].crossed
      /\ history'[i].tx = history[i].tx
  BY <1>0, <1>3, UpdateEffect, BridgeAssumption DEF Fails
<1>5. TypeOK' BY <1>1, <1>2, <1>4 DEF TypeOK, Fails, Proceeds
<1>6. RecordsHold' BY <1>4 DEF BridgeInv, RecordsHold
<1>7. ChainHolds' BY <1>4 DEF BridgeInv, ChainHolds
<1>8. AccountsHold'
 <2>1. \A j \in DOMAIN history : history'[j].address = history[j].address BY <1>4
 <2>2. QED BY <2>1 DEF BridgeInv, AccountsHold, ChainHolds, OwnAccount
<1>9. RequestsHold'
 <2>1. OwnRecords'
  <3>1. \A d \in BridgeCallers :
          /\ sends'[d].at \in Sending => sends[d].at \in Sending
          /\ sends[d].at \in Sending => sends'[d].i = sends[d].i
    BY <1>0, <1>1, <1>2
  <3>2. OwnRecords BY DEF BridgeInv, RequestsHold
  <3>3. QED BY <3>1, <3>2 DEF OwnRecords
 <2>2. RequestHolds(s)' BY <1>1, <1>3, <1>4 DEF RequestHolds, Before, After, Confirming
 <2>3. ASSUME NEW d \in BridgeCallers \ {c} PROVE RequestHolds(sends[d])'
  <3>1. RequestHolds(sends[d]) /\ sends'[d] = sends[d] BY <1>2 DEF BridgeInv, RequestsHold
  <3>2. \A j \in DOMAIN history : history'[j].address = history[j].address BY <1>4
  <3>3. QED BY <1>4, <3>1, <3>2 DEF RequestHolds, OwnAccount, BridgeInv, ChainHolds
 <2>4. QED BY <1>2, <2>1, <2>2, <2>3 DEF RequestsHold
<1>10. FailedNeverLands' BY <1>0, <1>3, <1>4 DEF BridgeInv, FailedNeverLands, RequestHolds
<1>11. CreditsHold' /\ CreditsRestOnTransactions' BY <1>4 DEF BridgeInv, CreditsHold, CreditsRestOnTransactions
<1>12. OneAtATime' /\ OrderlyNeverCross'
  BY <1>1, <1>2, <1>4 DEF BridgeInv, OneAtATime, OrderlyNeverCross, Resting, Sending, Before, After
<1>13. InOrder'
 <2> SUFFICES ASSUME orderly, ~faulty'
              PROVE  /\ \A a \in Addresses : Shows(a)'
                     /\ \A j \in DOMAIN history : Shown(j)'
                     /\ \A d \in BridgeCallers : InTurn(sends[d])'
   BY <1>4 DEF InOrder
 <2>1. /\ \A a \in Addresses : Shows(a)
       /\ \A j \in DOMAIN history : Shown(j)
       /\ \A d \in BridgeCallers : InTurn(sends[d])
   BY DEF BridgeInv, InOrder, TypeOK
 <2>2. sends[c].at \in Before /\ history[i].tx = 0
   BY <1>0, <1>3 DEF RequestHolds, BridgeInv, RecordsHold, OrderlyNeverCross
 <2>3. sends[c].at \notin {"publishing", "settling"} BY <2>2 DEF Before
 <2>4. \A d \in BridgeCallers : sends[d].at \in {"publishing", "settling"} => sends'[d] = sends[d] BY <1>2, <2>3
 <2>5. ASSUME NEW a \in Addresses PROVE Shows(a)'
  <3>1. accounts[a].status # "none" => accounts[a].of # i BY <2>1, <2>2 DEF Shows
  <3>2. QED BY <1>4, <2>1, <2>4, <3>1 DEF Shows
 <2>6. ASSUME NEW j \in DOMAIN history PROVE Shown(j)' BY <1>4, <2>1, <2>4 DEF Shown
 <2>7. InTurn(s)' BY <1>1 DEF InTurn, Before, Confirming
 <2>8. \A d \in BridgeCallers \ {c} : InTurn(sends[d])'
  <3>1. \A d \in BridgeCallers \ {c} : sends[d] = Resting
    BY <1>1 DEF BridgeInv, OneAtATime, Resting, Sending, Before, After
  <3>2. QED BY <1>2, <3>1 DEF InTurn, Resting, Before, Confirming
 <2>9. QED BY <1>2, <2>5, <2>6, <2>7, <2>8
<1>14. QED BY <1>5, <1>6, <1>7, <1>8, <1>9, <1>10, <1>11, <1>12, <1>13 DEF BridgeInv

\* A transaction that the chain has taken, whose answer arrives or is lost.
LEMMA TakenStep ==
  ASSUME BridgeInv, NEW c \in BridgeCallers, sends[c].at = "sending",
         NEW v \in {"failing", "publishing"}, NEW s \in SendRequest,
         s.at = v, s.i = sends[c].i, v = "publishing" => s.tx = Len(chain) + 1,
         UpdateHistory(sends[c].i, IF v = "failing" THEN "failed" ELSE "submitted",
                       IF v = "failing" THEN 0 ELSE Len(chain) + 1),
         Proceeds(c, s),
         chain' = Append(chain, [of |-> sends[c].i, fate |-> "sent"]),
         UNCHANGED <<accounts, credited, orderly>>,
         faulty' \in BOOLEAN, faulty => faulty', v = "failing" => faulty'
  PROVE  BridgeInv'
<1> TypeOK BY DEF BridgeInv
<1>0. PICK i : i = sends[c].i OBVIOUS
<1>1. s \in Request /\ s.at = v /\ s.i = i /\ sends[c].at \in Sending /\ s.at \in Sending
  BY <1>0 DEF Request, Sending, Before, After
<1>2. sends'[c] = s /\ \A d \in BridgeCallers \ {c} : sends'[d] = sends[d] BY <1>1 DEF Proceeds, TypeOK
<1>3. i \in DOMAIN history /\ \A t \in DOMAIN chain : chain[t].of # i
  BY <1>0 DEF BridgeInv, RequestsHold, RequestHolds, Sending, Before
<1>4. PICK n : n = Len(chain) + 1 OBVIOUS
<1>5. /\ chain' \in Seq(Transaction) /\ n \in Nat \ {0} /\ n \notin DOMAIN chain
      /\ DOMAIN chain' = DOMAIN chain \cup {n}
      /\ \A t \in DOMAIN chain : chain'[t] = chain[t]
      /\ chain'[n].of = i /\ chain'[n].fate = "sent"
 <2>1. i \in Nat /\ chain \in Seq(Transaction) BY <1>3 DEF TypeOK
 <2>2. PICK x \in Transaction : /\ x = [of |-> i, fate |-> "sent"]
                                /\ x.of = i /\ x.fate = "sent"
  <3>1. LET x == [of |-> i, fate |-> "sent"] IN
          x \in Transaction /\ x.of = i /\ x.fate = "sent"
    BY <2>1 DEF Transaction
  <3>2. QED BY <3>1
 <2>3. QED BY <1>0, <1>4, <2>1, <2>2, AppendEffect
<1>6. /\ history' \in Seq(BridgeRecord) /\ DOMAIN history' = DOMAIN history
      /\ \A j \in DOMAIN history \ {i} : history'[j] = history[j]
      /\ history'[i].address = history[i].address
      /\ history'[i].status = IF v = "failing" THEN "failed" ELSE "submitted"
      /\ history'[i].tx = IF v = "failing" THEN history[i].tx ELSE n
      /\ history'[i].crossed = history[i].crossed
 <2>1. PICK z : z = IF v = "failing" THEN "failed" ELSE "submitted" OBVIOUS
 <2>2. PICK x \in Nat : x = IF v = "failing" THEN 0 ELSE n BY <1>5
 <2>3. z \in {"building", "submitted", "failed", "confirmed"} /\ UpdateHistory(i, z, x) BY <1>0, <1>4, <2>1, <2>2
 <2>4. QED BY <1>3, <1>5, <2>1, <2>2, <2>3, UpdateEffect
<1>7. TypeOK' BY <1>1, <1>2, <1>5, <1>6 DEF TypeOK, Proceeds
<1>8. RecordsHold' BY <1>5, <1>6 DEF BridgeInv, RecordsHold
<1>9. ChainHolds' BY <1>3, <1>5, <1>6 DEF BridgeInv, ChainHolds
<1>10. AccountsHold'
 <2>1. \A j \in DOMAIN history : history'[j].address = history[j].address BY <1>6
 <2>2. QED BY <1>5, <2>1 DEF BridgeInv, AccountsHold, ChainHolds, OwnAccount
<1>11. RequestsHold'
 <2>1. OwnRecords'
  <3>1. \A d \in BridgeCallers :
          /\ sends'[d].at \in Sending => sends[d].at \in Sending
          /\ sends[d].at \in Sending => sends'[d].i = sends[d].i
    BY <1>0, <1>1, <1>2
  <3>2. OwnRecords BY DEF BridgeInv, RequestsHold
  <3>3. QED BY <3>1, <3>2 DEF OwnRecords
 <2>2. RequestHolds(s)' BY <1>1, <1>3, <1>4, <1>5, <1>6 DEF RequestHolds, Before, After, Confirming
 <2>3. ASSUME NEW d \in BridgeCallers \ {c} PROVE RequestHolds(sends[d])'
  <3>1. RequestHolds(sends[d]) /\ sends'[d] = sends[d] BY <1>2 DEF BridgeInv, RequestsHold
  <3>2. sends[d].at \in Sending => sends[d].i # i BY <1>0, <1>1 DEF BridgeInv, RequestsHold, OwnRecords
  <3>3. sends[d].at \in Before => sends[d].at \in Sending BY DEF Sending
  <3>4. "settling" \in Confirming BY DEF Confirming
  <3>5. \A j \in DOMAIN history : history'[j].address = history[j].address BY <1>6
  <3>6. QED
    BY <1>5, <1>6, <3>1, <3>2, <3>3, <3>4, <3>5
       DEF RequestHolds, OwnAccount, BridgeInv, ChainHolds
 <2>4. QED BY <1>2, <2>1, <2>2, <2>3 DEF RequestsHold
<1>12. FailedNeverLands' BY <1>5, <1>6 DEF BridgeInv, FailedNeverLands
<1>13. CreditsHold' /\ CreditsRestOnTransactions'
 <2>1. \A t \in DOMAIN chain : t \in DOMAIN chain' /\ chain'[t].of = chain[t].of BY <1>5
 <2>2. CreditsHold /\ CreditsRestOnTransactions /\ credited' = credited BY DEF BridgeInv
 <2>3. CreditsRestOnTransactions'
  <3> SUFFICES ASSUME NEW j \in DOMAIN history, NEW route \in {"skills", "updates"},
                      <<route, j>> \in credited
               PROVE  \E t \in DOMAIN chain' : chain'[t].of = j
    BY <1>6, <2>2 DEF CreditsRestOnTransactions
  <3>1. PICK t \in DOMAIN chain : chain[t].of = j BY <2>2 DEF CreditsRestOnTransactions
  <3>2. QED BY <2>1, <3>1
 <2>4. QED BY <1>6, <2>2, <2>3 DEF CreditsHold
<1>14. OneAtATime' /\ OrderlyNeverCross'
  BY <1>1, <1>2, <1>6 DEF BridgeInv, OneAtATime, OrderlyNeverCross, Resting, Sending, Before, After
<1>15. InOrder'
 <2> SUFFICES ASSUME orderly, ~faulty'
              PROVE  /\ \A a \in Addresses : Shows(a)'
                     /\ \A j \in DOMAIN history : Shown(j)'
                     /\ \A d \in BridgeCallers : InTurn(sends[d])'
   BY <1>6 DEF InOrder
 <2>1. /\ \A a \in Addresses : Shows(a)
       /\ \A j \in DOMAIN history : Shown(j)
       /\ \A d \in BridgeCallers : InTurn(sends[d])
   BY DEF BridgeInv, InOrder, TypeOK
 <2>2. v = "publishing" OBVIOUS
 <2>3. \A d \in BridgeCallers : sends[d].at \in {"publishing", "settling"} => sends'[d] = sends[d] BY <1>2
 <2>4. ASSUME NEW a \in Addresses PROVE Shows(a)'
  <3>1. accounts[a].status # "none" => accounts[a].of # i
    BY <1>3, <2>1 DEF Shows, BridgeInv, RecordsHold, OrderlyNeverCross
  <3>2. QED BY <1>6, <2>1, <2>3, <3>1 DEF Shows
 <2>5. ASSUME NEW j \in DOMAIN history PROVE Shown(j)'
  <3>1. CASE j = i BY <1>1, <1>2, <2>2, <3>1 DEF Shown
  <3>2. CASE j # i BY <1>6, <2>1, <2>3, <3>2 DEF Shown
  <3>3. QED BY <3>1, <3>2
 <2>6. InTurn(s)'
  <3>1. accounts[history[i].address].status # "pending" BY <1>0, <2>1 DEF InTurn, Before
  <3>2. QED BY <1>1, <1>6, <2>2, <3>1 DEF InTurn, Before, Confirming
 <2>7. \A d \in BridgeCallers \ {c} : InTurn(sends[d])'
  <3>1. \A d \in BridgeCallers \ {c} : sends[d] = Resting
    BY <1>1 DEF BridgeInv, OneAtATime, Resting, Sending, Before, After
  <3>2. QED BY <1>2, <3>1 DEF InTurn, Resting, Before, Confirming
 <2>8. QED BY <1>2, <2>4, <2>5, <2>6, <2>7
<1>16. QED BY <1>7, <1>8, <1>9, <1>10, <1>11, <1>12, <1>13, <1>14, <1>15 DEF BridgeInv

\* The record of a new request.
LEMMA BuildStep ==
  ASSUME BridgeInv, NEW c \in BridgeCallers, NEW route \in BridgeRoutes,
         NEW subject \in Subjects, NEW action, BuildInstruction(c, route, action, subject)
  PROVE  BridgeInv'
<1> TypeOK BY DEF BridgeInv
<1>0. UNCHANGED <<accounts, chain, credited, orderly, faulty>> BY DEF BuildInstruction
<1>1. PICK a : a = AddressOf(action, subject) OBVIOUS
<1>2. a \in Addresses BY <1>1 DEF AddressOf, Addresses, KindOf, Kinds
<1>3. PICK n : n = Len(history) + 1 OBVIOUS
<1>4. /\ history' \in Seq(BridgeRecord) /\ n \in Nat \ {0} /\ n \notin DOMAIN history
      /\ DOMAIN history' = DOMAIN history \cup {n}
      /\ \A j \in DOMAIN history : history'[j] = history[j]
      /\ history'[n].address = a /\ history'[n].status = "building" /\ history'[n].tx = 0
      /\ ~history'[n].crossed
 <2>1. history \in Seq(BridgeRecord) BY DEF TypeOK
 <2>2. PICK x \in BridgeRecord :
         /\ x = [address |-> a, status |-> "building", tx |-> NoTx, crossed |-> FALSE]
         /\ x.address = a /\ x.status = "building" /\ x.tx = 0 /\ ~x.crossed
  <3>1. LET x == [address |-> a, status |-> "building", tx |-> NoTx, crossed |-> FALSE] IN
          /\ x \in BridgeRecord
          /\ x.address = a /\ x.status = "building" /\ x.tx = 0 /\ ~x.crossed
    BY <1>2, BridgeAssumption DEF BridgeRecord
  <3>2. QED BY <3>1
 <2>3. history' = Append(history, x) BY <1>1, <2>2 DEF BuildInstruction
 <2>4. QED BY <1>3, <2>1, <2>2, <2>3, AppendEffect
<1>5. PICK s \in Request : /\ s = [at |-> "building", i |-> n, route |-> route, tx |-> NoTx]
                           /\ s.at = "building" /\ s.i = n
 <2>1. LET s == [at |-> "building", i |-> n, route |-> route, tx |-> NoTx] IN
         s \in Request /\ s.at = "building" /\ s.i = n
   BY <1>4, BridgeAssumption DEF Request, SendRequest, Sending, Before
 <2>2. QED BY <2>1
<1>6. /\ sends' = [sends EXCEPT ![c] = s] /\ sends[c] = Resting
      /\ orderly => \A d \in BridgeCallers : sends[d] = Resting
      /\ orderly => accounts[a].status # "pending"
  BY <1>1, <1>3, <1>5 DEF BuildInstruction, Proceeds, MayBegin
<1>7. sends'[c] = s /\ \A d \in BridgeCallers \ {c} : sends'[d] = sends[d] BY <1>6 DEF TypeOK
<1>8. \A t \in DOMAIN chain : chain[t].of \in DOMAIN history BY DEF BridgeInv, ChainHolds
<1>9. TypeOK' BY <1>0, <1>4, <1>6 DEF TypeOK
<1>10. RecordsHold' BY <1>0, <1>4 DEF BridgeInv, RecordsHold
<1>11. ChainHolds' BY <1>0, <1>4 DEF BridgeInv, ChainHolds
<1>12. AccountsHold' BY <1>0, <1>4, <1>8 DEF BridgeInv, AccountsHold, OwnAccount
<1>13. RequestsHold'
 <2>1. \A d \in BridgeCallers : sends[d].at \in Sending => sends[d].i \in DOMAIN history
   BY DEF BridgeInv, RequestsHold, RequestHolds
 <2>2. OwnRecords' BY <1>4, <1>5, <1>7, <2>1 DEF BridgeInv, RequestsHold, OwnRecords
 <2>3. RequestHolds(s)' BY <1>0, <1>4, <1>5, <1>8 DEF RequestHolds, Before, After, Confirming
 <2>4. ASSUME NEW d \in BridgeCallers \ {c} PROVE RequestHolds(sends[d])'
  <3>1. RequestHolds(sends[d]) /\ sends'[d] = sends[d] BY <1>7 DEF BridgeInv, RequestsHold
  <3>2. QED BY <1>0, <1>4, <1>8, <3>1 DEF RequestHolds, OwnAccount
 <2>5. QED BY <1>7, <2>2, <2>3, <2>4 DEF RequestsHold
<1>14. FailedNeverLands' BY <1>0, <1>4 DEF BridgeInv, FailedNeverLands
<1>15. CreditsHold' /\ CreditsRestOnTransactions'
 <2>1. CreditsHold /\ CreditsRestOnTransactions /\ credited' = credited BY DEF BridgeInv, BuildInstruction
 <2>2. \A r : <<r, n>> \notin credited BY <1>4, <2>1 DEF CreditsHold
 <2>3. QED BY <1>0, <1>4, <2>1, <2>2 DEF CreditsHold, CreditsRestOnTransactions
<1>16. OneAtATime' /\ OrderlyNeverCross' BY <1>0, <1>4, <1>6, <1>7 DEF BridgeInv, OneAtATime, OrderlyNeverCross
<1>17. InOrder'
  BY <1>0, <1>4, <1>5, <1>6, <1>7
     DEF BridgeInv, InOrder, Shows, Shown, InTurn, Resting, Before, Confirming
<1>18. QED BY <1>9, <1>10, <1>11, <1>12, <1>13, <1>14, <1>15, <1>16, <1>17 DEF BridgeInv

LEMMA PublishStep ==
  ASSUME BridgeInv, NEW c \in BridgeCallers, PublishSaved(c)
  PROVE  BridgeInv'
<1> TypeOK BY DEF BridgeInv
<1>0. /\ UNCHANGED <<history, chain, credited, orderly, faulty>>
      /\ sends[c].at = "publishing"
  BY DEF PublishSaved, At
<1>1. PICK i : i = sends[c].i OBVIOUS
<1>2. PICK s \in Request : /\ s = [sends[c] EXCEPT !.at = "mirroring"]
                           /\ s.at = "mirroring" /\ s.i = i /\ s.tx = sends[c].tx
                           /\ sends[c].at \in Sending
 <2>1. sends[c].at \in Sending /\ "mirroring" \in Sending BY <1>0 DEF Sending, After
 <2>2. QED BY <1>1, <2>1, SendTyped, ZenonT(20)
<1>3. sends' = [sends EXCEPT ![c] = s] BY <1>2 DEF PublishSaved, Proceeds
<1>4. sends'[c] = s /\ \A d \in BridgeCallers \ {c} : sends'[d] = sends[d] BY <1>3 DEF TypeOK
<1>5. PICK u : u = sends[c].tx OBVIOUS
<1>6. i \in DOMAIN history /\ i # 0 /\ u \in DOMAIN chain /\ chain[u].of = i /\ u # 0
  BY <1>0, <1>1, <1>2, <1>5 DEF BridgeInv, RequestsHold, RequestHolds, After, TypeOK
<1>7. PICK a \in Addresses : a = history[i].address BY <1>6, ElementsTyped
<1>8. PICK r \in Account : /\ r = [of |-> i, status |-> "pending", tx |-> u, crossed |-> FALSE]
                           /\ r.of = i /\ r.status = "pending" /\ r.tx = u /\ ~r.crossed
 <2>1. i \in Nat /\ u \in Nat BY <1>6, ElementsTyped
 <2>2. LET r == [of |-> i, status |-> "pending", tx |-> u, crossed |-> FALSE] IN
         r \in Account /\ r.of = i /\ r.status = "pending" /\ r.tx = u /\ ~r.crossed
   BY <2>1 DEF Account
 <2>3. QED BY <2>2
<1>9. /\ accounts' = [accounts EXCEPT ![a] = r]
      /\ accounts'[a] = r /\ \A b \in Addresses \ {a} : accounts'[b] = accounts[b]
 <2>1. accounts' = [accounts EXCEPT ![a] = r] BY <1>1, <1>5, <1>7, <1>8 DEF PublishSaved, Pending
 <2>2. QED BY <2>1 DEF TypeOK
<1>10. TypeOK' BY <1>0, <1>3, <1>9 DEF TypeOK
<1>11. RecordsHold' /\ ChainHolds' /\ FailedNeverLands' /\ CreditsHold'
       /\ CreditsRestOnTransactions'
  BY <1>0 DEF BridgeInv, RecordsHold, ChainHolds, FailedNeverLands, CreditsHold,
              CreditsRestOnTransactions
<1>12. AccountsHold' BY <1>0, <1>6, <1>7, <1>8, <1>9 DEF BridgeInv, AccountsHold, OwnAccount
<1>13. RequestsHold'
 <2>1. OwnRecords'
  <3>1. \A d \in BridgeCallers :
          /\ sends'[d].at \in Sending => sends[d].at \in Sending
          /\ sends[d].at \in Sending => sends'[d].i = sends[d].i
    BY <1>1, <1>2, <1>4
  <3>2. OwnRecords BY DEF BridgeInv, RequestsHold
  <3>3. QED BY <3>1, <3>2 DEF OwnRecords
 <2>2. RequestHolds(s)' BY <1>0, <1>2, <1>5, <1>6 DEF RequestHolds, Before, After, Confirming
 <2>3. ASSUME NEW d \in BridgeCallers \ {c} PROVE RequestHolds(sends[d])'
   BY <1>0, <1>4 DEF BridgeInv, RequestsHold, RequestHolds, OwnAccount
 <2>4. QED BY <1>4, <2>1, <2>2, <2>3 DEF RequestsHold
<1>14. OneAtATime' /\ OrderlyNeverCross'
 <2>1. OneAtATime' BY <1>0, <1>2, <1>4 DEF BridgeInv, OneAtATime, Resting, Sending, Before, After
 <2>2. OrderlyNeverCross' BY <1>0, <1>8, <1>9 DEF BridgeInv, OrderlyNeverCross
 <2>3. QED BY <2>1, <2>2
<1>15. InOrder'
 <2> SUFFICES ASSUME orderly, ~faulty
              PROVE  /\ \A b \in Addresses : Shows(b)'
                     /\ \A j \in DOMAIN history : Shown(j)'
                     /\ \A d \in BridgeCallers : InTurn(sends[d])'
   BY <1>0 DEF InOrder
 <2>1. /\ \A b \in Addresses : Shows(b)
       /\ \A j \in DOMAIN history : Shown(j)
       /\ \A d \in BridgeCallers : InTurn(sends[d])
   BY DEF BridgeInv, InOrder, TypeOK
 <2>2. \A d \in BridgeCallers \ {c} : sends[d] = Resting
   BY <1>2 DEF BridgeInv, OneAtATime, Resting, Sending, Before, After
 <2>3. /\ history[i].status = "submitted" /\ accounts[a].status # "pending"
       /\ history[i].tx = u
   BY <1>0, <1>1, <1>6, <1>7, <2>1
      DEF InTurn, BridgeInv, RecordsHold, ChainHolds, OrderlyNeverCross
 <2>4. \A d \in BridgeCallers : sends[d].at # "settling" /\ (sends[d].at = "publishing" => d = c)
   BY <1>0, <2>2 DEF Resting
 <2>5. ASSUME NEW b \in Addresses PROVE Shows(b)'
  <3>1. CASE b = a BY <1>0, <1>6, <1>8, <1>9, <2>3, <3>1 DEF Shows
  <3>2. CASE b # a BY <1>0, <1>9, <2>1, <2>4, <3>2 DEF Shows
  <3>3. QED BY <3>1, <3>2
 <2>6. ASSUME NEW j \in DOMAIN history PROVE Shown(j)'
  <3>1. CASE j = i BY <1>0, <1>7, <1>8, <1>9, <3>1 DEF Shown
  <3>2. CASE j # i
   <4>1. history[j].status = "submitted" =>
           /\ accounts[history[j].address].of = j
           /\ accounts[history[j].address].status = "pending"
     BY <1>1, <2>1, <2>4, <3>2 DEF Shown
   <4>2. history[j].address \in Addresses BY ElementsTyped
   <4>3. QED BY <1>0, <1>9, <2>3, <4>1, <4>2 DEF Shown
  <3>3. QED BY <3>1, <3>2
 <2>7. InTurn(s)' BY <1>2 DEF InTurn, Before, Confirming
 <2>8. \A d \in BridgeCallers \ {c} : InTurn(sends[d])' BY <1>4, <2>2 DEF InTurn, Resting, Before, Confirming
 <2>9. QED BY <1>4, <2>5, <2>6, <2>7, <2>8
<1>16. QED BY <1>10, <1>11, <1>12, <1>13, <1>14, <1>15 DEF BridgeInv

\* The chain has answered a confirmation that names a record.
LEMMA RecordStep ==
  ASSUME BridgeInv, NEW c \in BridgeCallers, Confirmed(c), sends[c].i # 0
  PROVE  BridgeInv'
<1> TypeOK BY DEF BridgeInv
<1>0. /\ UNCHANGED <<accounts, chain, credited, orderly, faulty>>
      /\ sends[c].at = "confirming" /\ chain[sends[c].tx].fate # "sent"
  BY DEF Confirmed, At
<1>1. PICK i, t : i = sends[c].i /\ t = sends[c].tx OBVIOUS
<1>2. PICK s \in Request :
        /\ s = [sends[c] EXCEPT !.at = "settling"]
        /\ s.at = "settling" /\ s.i = i /\ s.tx = t /\ s.to = sends[c].to
 <2>1. sends[c].at \in Confirming BY <1>0 DEF Confirming
 <2>2. QED BY <1>1, <2>1, ConfirmTyped
<1>3. sends' = [sends EXCEPT ![c] = s] BY <1>2 DEF Confirmed, Proceeds
<1>4. sends'[c] = s /\ \A d \in BridgeCallers \ {c} : sends'[d] = sends[d] BY <1>3 DEF TypeOK
<1>5. /\ i \in DOMAIN history /\ t \in DOMAIN chain
      /\ orderly => i = chain[t].of /\ s.to = {OwnAccount(t)}
  BY <1>0, <1>1, <1>2 DEF BridgeInv, RequestsHold, RequestHolds, Confirming
<1>6. chain[t].fate \in {"ok", "err"} /\ t \in Nat /\ t # 0 BY <1>0, <1>1, <1>5, ElementsTyped
<1>7. PICK z \in {"failed", "confirmed"} : z = StatusOfFate(chain[t].fate) BY DEF StatusOfFate
<1>8. z = "confirmed" <=> chain[t].fate = "ok" BY <1>7 DEF StatusOfFate
<1>9. /\ history' \in Seq(BridgeRecord) /\ DOMAIN history' = DOMAIN history
      /\ \A j \in DOMAIN history \ {i} : history'[j] = history[j]
      /\ history'[i].address = history[i].address
      /\ history'[i].status = z /\ history'[i].tx = t
      /\ history'[i].crossed <=> history[i].crossed \/ chain[t].of # i
 <2> DEFINE r == [history[i] EXCEPT !.status = z, !.tx = t, !.crossed = @ \/ chain[t].of # i]
 <2>1. history[i] \in BridgeRecord /\ history \in Seq(BridgeRecord) BY <1>5 DEF TypeOK
 <2>2. history' = [history EXCEPT ![i] = r] BY <1>0, <1>1, <1>7, <2>1 DEF Confirmed, SettleRecord, BridgeRecord
 <2>3. /\ r \in BridgeRecord /\ r.address = history[i].address /\ r.status = z /\ r.tx = t
       /\ r.crossed <=> history[i].crossed \/ chain[t].of # i
   BY <1>6, <2>1 DEF BridgeRecord
 <2> HIDE DEF r
 <2>4. QED BY <1>5, <2>1, <2>2, <2>3
<1>10. TypeOK' BY <1>0, <1>3, <1>9 DEF TypeOK
<1>11. RecordsHold' BY <1>0, <1>5, <1>6, <1>8, <1>9 DEF BridgeInv, RecordsHold
<1>12. ChainHolds' /\ CreditsHold' /\ CreditsRestOnTransactions'
  BY <1>0, <1>9 DEF BridgeInv, ChainHolds, CreditsHold, CreditsRestOnTransactions
<1>13. \A j \in DOMAIN history : history'[j].address = history[j].address BY <1>9
<1>14. AccountsHold' BY <1>0, <1>13 DEF BridgeInv, AccountsHold, ChainHolds, OwnAccount
<1>15. RequestsHold'
 <2>1. OwnRecords'
  <3>1. s.at \notin Sending BY <1>2 DEF Sending, Before, After
  <3>2. QED BY <1>4, <3>1 DEF BridgeInv, RequestsHold, OwnRecords
 <2>2. \A d \in BridgeCallers \ {c} : RequestHolds(sends[d])'
   BY <1>0, <1>4, <1>9, <1>13 DEF BridgeInv, RequestsHold, RequestHolds, OwnAccount, ChainHolds
 <2>3. RequestHolds(s)'
   BY <1>0, <1>1, <1>2, <1>5, <1>9, <1>13
      DEF RequestHolds, OwnAccount, Sending, Before, After, BridgeInv, ChainHolds
 <2>4. QED BY <1>4, <2>1, <2>2, <2>3 DEF RequestsHold
<1>16. FailedNeverLands'
 <2>1. chain[t].of = i => \A u \in DOMAIN chain : chain[u].of = i => u = t BY <1>5 DEF BridgeInv, ChainHolds
 <2>2. z = "failed" => chain[t].fate = "err" BY <1>6, <1>8
 <2>3. QED BY <1>0, <1>9, <2>1, <2>2 DEF BridgeInv, FailedNeverLands
<1>17. OneAtATime' /\ OrderlyNeverCross'
  BY <1>0, <1>2, <1>4, <1>5, <1>9 DEF BridgeInv, OneAtATime, OrderlyNeverCross, Resting
<1>18. InOrder'
 <2> SUFFICES ASSUME orderly, ~faulty
              PROVE  /\ \A b \in Addresses : Shows(b)'
                     /\ \A j \in DOMAIN history : Shown(j)'
                     /\ \A d \in BridgeCallers : InTurn(sends[d])'
   BY <1>0, <1>9 DEF InOrder
 <2>1. /\ \A b \in Addresses : Shows(b)
       /\ \A j \in DOMAIN history : Shown(j)
       /\ \A d \in BridgeCallers : InTurn(sends[d])
   BY DEF BridgeInv, InOrder, TypeOK
 <2>2. \A d \in BridgeCallers \ {c} : sends[d] = Resting BY <1>0 DEF BridgeInv, OneAtATime, Resting
 <2>3. history[i].status = "submitted" BY <1>0, <1>1, <2>1 DEF InTurn
 <2>4. \A d \in BridgeCallers : sends[d].at \notin {"publishing", "settling"} BY <1>0, <2>2 DEF Resting
 <2>5. /\ accounts[history[i].address].of = i
       /\ accounts[history[i].address].status = "pending"
   BY <1>5, <2>1, <2>3, <2>4 DEF Shown
 <2>6. history[i].tx = t BY <1>5, <1>6, <2>3 DEF BridgeInv, RecordsHold, ChainHolds, OrderlyNeverCross
 <2>7. ASSUME NEW b \in Addresses PROVE Shows(b)'
  <3>1. CASE accounts[b].of = i
   <4>1. accounts[b].status = "none" \/ accounts[b].status = "pending"
     BY <2>1, <2>3, <2>4, <3>1 DEF Shows, TypeOK, Account
   <4>2. accounts[b].status # "none" => accounts[b].tx = history[i].tx BY <2>1, <3>1 DEF Shows
   <4>3. sends'[c].at = "settling" /\ sends'[c].i = i BY <1>2, <1>4
   <4>4. QED BY <1>0, <1>5, <1>6, <1>9, <2>6, <3>1, <4>1, <4>2, <4>3 DEF Shows
  <3>2. CASE accounts[b].of # i BY <1>0, <1>9, <2>1, <2>4, <3>2 DEF Shows
  <3>3. QED BY <3>1, <3>2
 <2>8. ASSUME NEW j \in DOMAIN history PROVE Shown(j)' BY <1>0, <1>9, <2>1, <2>4 DEF Shown
 <2>9. InTurn(s)' BY <1>0, <1>2, <1>7, <1>9, <2>5 DEF InTurn, Before, StatusOfFate
 <2>10. \A d \in BridgeCallers \ {c} : InTurn(sends[d])' BY <1>4, <2>2 DEF InTurn, Resting, Before
 <2>11. QED BY <1>4, <2>7, <2>8, <2>9, <2>10
<1>19. QED BY <1>10, <1>11, <1>12, <1>14, <1>15, <1>16, <1>17, <1>18 DEF BridgeInv

\* The accounts named are saved with the fate of the transaction confirmed.
LEMMA SettleStep ==
  ASSUME BridgeInv, NEW c \in BridgeCallers, sends[c].at \in Confirming,
         sends[c].at = "confirming" => sends[c].i = 0,
         chain[sends[c].tx].fate # "sent", SettleAccount(c),
         UNCHANGED <<history, chain, credited, orderly, faulty>>
  PROVE  BridgeInv'
<1> TypeOK BY DEF BridgeInv
<1>1. PICK i, t : i = sends[c].i /\ t = sends[c].tx OBVIOUS
<1>2. PICK s \in {Settled, Resting} : Proceeds(c, s) BY DEF SettleAccount, Settled
<1>3. /\ sends' = [sends EXCEPT ![c] = s] /\ sends'[c] = s
      /\ \A d \in BridgeCallers \ {c} : sends'[d] = sends[d]
      /\ s \in Request
      /\ s.at \notin Sending \cup Confirming \cup Before \cup After \cup {"publishing", "settling"}
      /\ sends[c] # Resting
  BY <1>2 DEF Proceeds, TypeOK, Request, Settled, Resting, Sending, Confirming, Before, After
<1>4. /\ t \in DOMAIN chain
      /\ orderly => i = chain[t].of /\ sends[c].to = {OwnAccount(t)}
  BY <1>1 DEF BridgeInv, RequestsHold, RequestHolds
<1>5. chain[t].fate \in {"ok", "err"} /\ t \in Nat /\ t # 0 BY <1>1, <1>4, ElementsTyped
<1>6. PICK z \in {"failed", "confirmed"} : z = StatusOfFate(chain[t].fate) BY DEF StatusOfFate
<1>7. z = "confirmed" <=> chain[t].fate = "ok" BY <1>5, <1>6 DEF StatusOfFate
<1>8. accounts' \in [Addresses -> Account]
      /\ \A a \in Addresses :
           \/ accounts'[a] = accounts[a] /\ (a \in sends[c].to => accounts[a] = NoAccount)
           \/ /\ a \in sends[c].to /\ accounts[a] # NoAccount
              /\ accounts'[a].of = accounts[a].of
              /\ accounts'[a].status = z /\ accounts'[a].tx = t
              /\ accounts'[a].crossed <=> accounts[a].crossed \/ OwnAccount(t) # a
 <2>1. accounts \in [Addresses -> Account] BY DEF TypeOK
 <2> DEFINE Turned(a) == [accounts[a] EXCEPT !.status = z, !.tx = t,
                                          !.crossed = @ \/ OwnAccount(t) # a]
 <2>2. accounts' = [a \in Addresses |->
                      IF a \in sends[c].to /\ accounts[a] # NoAccount THEN Turned(a) ELSE accounts[a]]
   BY <1>1, <1>6 DEF SettleAccount
 <2>3. ASSUME NEW a \in Addresses
       PROVE  /\ Turned(a) \in Account /\ Turned(a).of = accounts[a].of
              /\ Turned(a).status = z /\ Turned(a).tx = t
              /\ Turned(a).crossed <=> accounts[a].crossed \/ OwnAccount(t) # a
  <3>1. accounts[a] \in Account BY <2>1
  <3>2. QED BY <1>5, <3>1 DEF Account
 <2> HIDE DEF Turned
 <2>4. QED BY <2>1, <2>2, <2>3
<1>9. TypeOK' BY <1>3, <1>8 DEF TypeOK
<1>10. RecordsHold' /\ ChainHolds' /\ CreditsHold' /\ CreditsRestOnTransactions'
       /\ FailedNeverLands'
  BY DEF BridgeInv, RecordsHold, ChainHolds, CreditsHold, CreditsRestOnTransactions,
         FailedNeverLands
<1>11. AccountsHold' BY <1>4, <1>5, <1>7, <1>8 DEF BridgeInv, AccountsHold, OwnAccount, NoAccount
<1>12. RequestsHold'
 <2>1. OwnRecords' BY <1>3 DEF BridgeInv, RequestsHold, OwnRecords
 <2>2. RequestHolds(s)' BY <1>3 DEF RequestHolds
 <2>3. ASSUME NEW d \in BridgeCallers \ {c} PROVE RequestHolds(sends[d])'
   BY <1>3 DEF BridgeInv, RequestsHold, RequestHolds, OwnAccount
 <2>4. QED BY <1>3, <2>1, <2>2, <2>3 DEF RequestsHold
<1>13. OneAtATime' /\ OrderlyNeverCross' BY <1>3, <1>4, <1>8 DEF BridgeInv, OneAtATime, OrderlyNeverCross
<1>14. InOrder'
 <2> SUFFICES ASSUME orderly, ~faulty
              PROVE  /\ \A b \in Addresses : Shows(b)'
                     /\ \A j \in DOMAIN history : Shown(j)'
                     /\ \A d \in BridgeCallers : InTurn(sends[d])'
   BY DEF InOrder
 <2>1. /\ \A b \in Addresses : Shows(b)
       /\ \A j \in DOMAIN history : Shown(j)
       /\ \A d \in BridgeCallers : InTurn(sends[d])
   BY DEF BridgeInv, InOrder, TypeOK
 <2>2. \A d \in BridgeCallers \ {c} : sends[d] = Resting BY <1>3 DEF BridgeInv, OneAtATime
 <2>3. i \in DOMAIN history /\ i # 0 BY <1>4, ElementsTyped DEF BridgeInv, ChainHolds
 <2>4. PICK a \in Addresses : a = history[i].address /\ sends[c].to = {a} BY <1>4, <2>3, ElementsTyped DEF OwnAccount
 <2>5. /\ sends[c].at = "settling" /\ history[i].status = z /\ history[i].tx = t
       /\ accounts[a].of = i /\ accounts[a].status = "pending"
   BY <1>1, <1>6, <2>1, <2>3, <2>4 DEF InTurn, Confirming
 <2>6. /\ \A d \in BridgeCallers : sends[d].at # "publishing"
       /\ \A d \in BridgeCallers : sends[d].at = "settling" => sends[d].i = i
   BY <1>1, <2>2, <2>5 DEF Resting
 <2>7. accounts[a] # NoAccount BY <2>5 DEF NoAccount
 <2>8. ASSUME NEW b \in Addresses PROVE Shows(b)'
  <3>1. CASE b = a BY <1>5, <1>8, <2>3, <2>4, <2>5, <2>7, <3>1 DEF Shows
  <3>2. CASE b # a
   <4>1. accounts[b].status # "none" => history[accounts[b].of].address = b
     BY <2>1, <1>4 DEF Shows, BridgeInv, AccountsHold, RecordsHold, OrderlyNeverCross, OwnAccount
   <4>2. accounts[b].status # "none" => accounts[b].of # i BY <2>4, <3>2, <4>1
   <4>3. QED BY <1>8, <2>1, <2>4, <2>6, <3>2, <4>2 DEF Shows
  <3>3. QED BY <3>1, <3>2
 <2>9. ASSUME NEW j \in DOMAIN history PROVE Shown(j)'
  <3>1. history[j].status = "submitted" =>
          /\ accounts[history[j].address].of = j
          /\ accounts[history[j].address].status = "pending"
    BY <2>1, <2>6 DEF Shown
  <3>2. history[j].status = "submitted" => history[j].address # a BY <2>5, <3>1
  <3>3. history[j].address \in Addresses BY ElementsTyped
  <3>4. QED BY <1>8, <2>4, <3>1, <3>2, <3>3 DEF Shown
 <2>10. InTurn(s)' BY <1>3 DEF InTurn, Confirming
 <2>11. \A d \in BridgeCallers \ {c} : InTurn(sends[d])' BY <1>3, <2>2 DEF InTurn, Resting, Before
 <2>12. QED BY <1>3, <2>8, <2>9, <2>10, <2>11
<1>15. QED BY <1>9, <1>10, <1>11, <1>12, <1>13, <1>14 DEF BridgeInv

LEMMA LandsStep ==
  ASSUME BridgeInv, NEW t \in DOMAIN chain, NEW fate \in {"ok", "err"}, Lands(t, fate)
  PROVE  BridgeInv'
<1> TypeOK BY DEF BridgeInv
<1>0. UNCHANGED <<history, accounts, credited, sends, orderly, faulty>> /\ chain[t].fate = "sent" BY DEF Lands
<1>1. /\ chain' \in Seq(Transaction) /\ DOMAIN chain' = DOMAIN chain
      /\ \A u \in DOMAIN chain : chain'[u].of = chain[u].of
      /\ \A u \in DOMAIN chain \ {t} : chain'[u].fate = chain[u].fate
      /\ chain'[t].fate = fate
 <2>1. chain[t] \in Transaction /\ chain \in Seq(Transaction) BY DEF TypeOK
 <2>2. PICK x : x = [chain[t] EXCEPT !.fate = fate] OBVIOUS
 <2>3. x \in Transaction /\ x.of = chain[t].of /\ x.fate = fate BY <2>1, <2>2 DEF Transaction
 <2>4. chain' = [chain EXCEPT ![t] = x] BY <2>2 DEF Lands
 <2>5. QED BY <2>1, <2>3, <2>4
<1>2. \A u \in DOMAIN chain : chain[u].fate # "sent" => u # t BY <1>0
<1>3. TypeOK' BY <1>0, <1>1 DEF TypeOK
<1>4. RecordsHold' BY <1>0, <1>1 DEF BridgeInv, RecordsHold
<1>5. ChainHolds' /\ CreditsHold' /\ CreditsRestOnTransactions'
  BY <1>0, <1>1 DEF BridgeInv, ChainHolds, CreditsHold, CreditsRestOnTransactions
<1>6. AccountsHold' BY <1>0, <1>1 DEF BridgeInv, AccountsHold, OwnAccount
<1>7. FailedNeverLands' BY <1>0, <1>1 DEF BridgeInv, FailedNeverLands
<1>8. \A c \in BridgeCallers :
        sends[c].at \in Confirming => /\ sends[c].tx \in DOMAIN chain
  BY DEF BridgeInv, RequestsHold, RequestHolds
<1>9. RequestsHold'
 <2>1. ASSUME NEW c \in BridgeCallers PROVE RequestHolds(sends[c])'
  <3>1. RequestHolds(sends[c]) BY DEF BridgeInv, RequestsHold
  <3>2. "settling" \in Confirming BY DEF Confirming
  <3>3. QED
    BY <1>0, <1>1, <1>8, <3>1, <3>2
       DEF RequestHolds, OwnAccount
 <2>2. QED BY <1>0, <2>1 DEF BridgeInv, RequestsHold, OwnRecords
<1>10. OneAtATime' /\ OrderlyNeverCross' BY <1>0 DEF BridgeInv, OneAtATime, OrderlyNeverCross
<1>11. InOrder'
 <2> SUFFICES ASSUME orderly, ~faulty
              PROVE  /\ \A b \in Addresses : Shows(b)'
                     /\ \A j \in DOMAIN history : Shown(j)'
                     /\ \A d \in BridgeCallers : InTurn(sends[d])'
   BY <1>0 DEF InOrder
 <2>1. /\ \A b \in Addresses : Shows(b)
       /\ \A j \in DOMAIN history : Shown(j)
       /\ \A d \in BridgeCallers : InTurn(sends[d])
   BY DEF BridgeInv, InOrder, TypeOK
 <2>2. \A b \in Addresses : Shows(b)' BY <1>0, <2>1 DEF Shows
 <2>3. \A j \in DOMAIN history : Shown(j)' BY <1>0, <2>1 DEF Shown
 <2>4. ASSUME NEW c \in BridgeCallers PROVE InTurn(sends[c])'
  <3>1. sends[c].at = "settling" =>
          sends[c].tx \in DOMAIN chain /\ chain[sends[c].tx].fate # "sent"
    BY <1>8 DEF BridgeInv, RequestsHold, RequestHolds, Confirming
  <3>2. sends[c].at = "settling" => chain'[sends[c].tx].fate = chain[sends[c].tx].fate BY <1>0, <1>1, <3>1
  <3>3. QED BY <1>0, <2>1, <3>2 DEF InTurn, Before, Confirming
 <2>5. QED BY <2>2, <2>3, <2>4
<1>12. QED BY <1>3, <1>4, <1>5, <1>6, <1>7, <1>9, <1>10, <1>11 DEF BridgeInv

----
\* The whole.

LEMMA BridgeInitInv == BridgeInit => BridgeInv
<1> SUFFICES ASSUME BridgeInit PROVE BridgeInv OBVIOUS
<1>1. /\ history = <<>> /\ chain = <<>> /\ credited = {}
      /\ DOMAIN history = {} /\ DOMAIN chain = {}
      /\ \A a \in Addresses : accounts[a] = NoAccount
      /\ \A c \in BridgeCallers : sends[c] = Resting
  BY DEF BridgeInit
<1>2. NoAccount \in Account /\ NoAccount.tx = 0 /\ NoAccount.status = "none" /\ ~NoAccount.crossed
  BY BridgeAssumption DEF NoAccount, Account
<1>3. TypeOK
 <2>1. history \in Seq(BridgeRecord) /\ chain \in Seq(Transaction) BY <1>1
 <2>2. accounts \in [Addresses -> Account] BY <1>2 DEF BridgeInit
 <2>3. sends \in [BridgeCallers -> Request] BY DEF BridgeInit, Request
 <2>4. orderly \in BOOLEAN /\ faulty \in BOOLEAN BY BridgeAssumption DEF BridgeInit
 <2>5. QED BY <2>1, <2>2, <2>3, <2>4 DEF TypeOK
<1>4. RecordsHold /\ ChainHolds /\ CreditsHold /\ CreditsRestOnTransactions
      /\ FailedNeverLands
  BY <1>1 DEF RecordsHold, ChainHolds, CreditsHold, CreditsRestOnTransactions, FailedNeverLands
<1>5. AccountsHold BY <1>1, <1>2 DEF AccountsHold
<1>6. RequestsHold /\ OneAtATime /\ OrderlyNeverCross
  BY <1>1, <1>2 DEF RequestsHold, OwnRecords, OneAtATime, OrderlyNeverCross, RequestHolds, Resting,
              Sending, Confirming, Before, After
<1>7. InOrder BY <1>1, <1>2 DEF InOrder, Shows, Shown, InTurn, Resting, Confirming, Before
<1>8. QED BY <1>3, <1>4, <1>5, <1>6, <1>7 DEF BridgeInv

\* A request that rests, or has only to answer, has nothing to hold.
LEMMA RestHolds ==
  /\ Resting \in Request /\ Resting.at = "resting"
  /\ Resting.at \notin Sending /\ RequestHolds(Resting) /\ InTurn(Resting)
BY DEF Request, Resting, RequestHolds, InTurn, Sending, Confirming, Before, After

LEMMA CallerStep ==
  ASSUME BridgeInv, NEW c \in BridgeCallers,
         \/ BuildSaved(c) \/ (\E taken \in BOOLEAN : SendFails(c, taken)) \/ Sent(c)
         \/ MirrorSaved(c) \/ FailureSaved(c)
         \/ (\E tx \in DOMAIN chain, i \in {0} \cup DOMAIN history : \E to \in SUBSET Addresses :
               Confirm(c, tx, i, to))
         \/ Confirmed(c) \/ RecordSettled(c) \/ AccountSettled(c)
         \/ WriteFails(c) \/ ConfirmTimesOut(c)
  PROVE  BridgeInv'
<1> TypeOK BY DEF BridgeInv
<1> RequestHolds(sends[c]) BY DEF BridgeInv, RequestsHold
<1> faulty \in BOOLEAN BY DEF TypeOK
\* The request ends, and nothing but what is credited changes.
<1>1. ASSUME UNCHANGED <<history, accounts, chain, orderly>>, Proceeds(c, Resting),
             faulty' \in BOOLEAN, faulty => faulty', CreditsHold', CreditsRestOnTransactions',
             sends[c] # Resting, sends[c].at \in {"publishing", "settling"} => faulty'
      PROVE  BridgeInv'
  BY <1>1, QuietStep, RestHolds
<1>2. ASSUME UNCHANGED <<history, chain, credited>>
      PROVE  CreditsHold' /\ CreditsRestOnTransactions'
  BY <1>2 DEF BridgeInv, CreditsHold, CreditsRestOnTransactions
<1>3. CASE BuildSaved(c)
 <2>1. /\ UNCHANGED <<accounts, chain, credited, orderly, faulty>>
       /\ sends[c].at = "building" /\ sends[c].at \in Before \cup After
       /\ sends[c].at \in Sending
       /\ sends[c].at \notin {"publishing", "settling"} \cup After
       /\ sends[c] # Resting
   BY <1>3 DEF BuildSaved, At, Before, After, Sending, Resting
 <2>2. CASE Proceeds(c, Resting) /\ UNCHANGED history BY <1>1, <1>2, <2>1, <2>2
 <2>3. CASE Fails(c) BY <2>1, <2>3, FailingStep
 <2>4. CASE Proceeds(c, [sends[c] EXCEPT !.at = "sending"]) /\ UNCHANGED history
  <3>1. "sending" \in Sending BY DEF Sending, Before
  <3>2. PICK s \in Request : /\ s = [sends[c] EXCEPT !.at = "sending"]
                             /\ s.at = "sending" /\ s.i = sends[c].i
    BY <2>1, <3>1, SendTyped
  <3>3. RequestHolds(s) BY <2>1, <3>2 DEF RequestHolds, Before, After, Sending, Confirming
  <3>4. orderly /\ ~faulty => InTurn(s) BY <2>1, <3>2 DEF BridgeInv, InOrder, InTurn, Before, Confirming
  <3>5. Proceeds(c, s) BY <2>4, <3>2
  <3>6. QED BY <1>2, <2>1, <2>4, <3>2, <3>3, <3>4, <3>5, QuietStep
 <2>5. QED BY <1>3, <2>2, <2>3, <2>4 DEF BuildSaved
<1>4. ASSUME NEW taken \in BOOLEAN, SendFails(c, taken) PROVE BridgeInv'
 <2>1. sends[c].at = "sending" /\ sends[c].at \in Before \cup After /\ sends[c].at \notin After
       /\ UNCHANGED <<accounts, credited, orderly>> /\ faulty' = (faulty \/ taken) /\ Fails(c)
   BY <1>4 DEF SendFails, At, Before, After
 <2>2. CASE ~taken
  <3>1. UNCHANGED chain BY <1>4, <2>2 DEF SendFails
  <3>2. QED BY <2>1, <2>2, <3>1, FailingStep
 <2>3. CASE taken
  <3>1. chain' = Append(chain, [of |-> sends[c].i, fate |-> "sent"]) BY <1>4, <2>3 DEF SendFails
  <3>2. UpdateHistory(sends[c].i, IF "failing" = "failing" THEN "failed" ELSE "submitted",
                      IF "failing" = "failing" THEN 0 ELSE Len(chain) + 1)
    BY <2>1, BridgeAssumption DEF Fails
  <3>3. PICK s \in SendRequest : /\ s = [sends[c] EXCEPT !.at = "failing"]
                                 /\ s.at = "failing" /\ s.i = sends[c].i
   <4>1. sends[c] \in SendRequest /\ "failing" \in Sending BY <2>1, SendTyped DEF Sending, Before
   <4>2. LET x == [sends[c] EXCEPT !.at = "failing"] IN
           x \in SendRequest /\ x.at = "failing" /\ x.i = sends[c].i
     BY <4>1 DEF SendRequest
   <4>3. QED BY <4>2
  <3>4. Proceeds(c, s) BY <2>1, <3>3 DEF Fails
  <3>5. QED BY <2>1, <2>3, <3>1, <3>2, <3>3, <3>4, TakenStep
 <2>4. QED BY <2>2, <2>3
<1>5. CASE Sent(c)
 <2>1. /\ sends[c].at = "sending" /\ UNCHANGED <<accounts, credited, orderly, faulty>>
       /\ chain' = Append(chain, [of |-> sends[c].i, fate |-> "sent"])
       /\ Proceeds(c, [sends[c] EXCEPT !.at = "publishing", !.tx = Len(chain) + 1])
       /\ UpdateHistory(sends[c].i, IF "publishing" = "failing" THEN "failed" ELSE "submitted",
                        IF "publishing" = "failing" THEN 0 ELSE Len(chain) + 1)
   BY <1>5 DEF Sent, At
 <2>2. PICK s \in SendRequest :
         /\ s = [sends[c] EXCEPT !.at = "publishing", !.tx = Len(chain) + 1]
         /\ s.at = "publishing" /\ s.i = sends[c].i /\ s.tx = Len(chain) + 1
  <3>1. sends[c] \in SendRequest /\ "publishing" \in Sending BY <2>1, SendTyped DEF Sending, Before, After
  <3>2. Len(chain) + 1 \in Nat BY DEF TypeOK
  <3>3. LET x == [sends[c] EXCEPT !.at = "publishing", !.tx = Len(chain) + 1] IN
          /\ x \in SendRequest
          /\ x.at = "publishing" /\ x.i = sends[c].i /\ x.tx = Len(chain) + 1
    BY <3>1, <3>2 DEF SendRequest
  <3>4. QED BY <3>3
 <2>3. QED BY <2>1, <2>2, TakenStep
<1>6. CASE MirrorSaved(c) \/ FailureSaved(c)
 <2>1. PICK failed \in BOOLEAN :
         /\ UNCHANGED <<history, accounts, chain, orderly, faulty>>
         /\ credited' = credited \cup Credit(sends[c].route, sends[c].i, failed)
         /\ Proceeds(c, Resting)
         /\ sends[c].at = IF failed THEN "failing" ELSE "mirroring"
   BY <1>6 DEF MirrorSaved, FailureSaved, Answers, At
 <2>2. /\ sends[c].at \in Sending /\ sends[c].at \notin {"publishing", "settling"}
       /\ sends[c] # Resting
       /\ failed \/ sends[c].at \in After
   BY <2>1 DEF Sending, After, Resting
 <2>3. PICK i \in DOMAIN history : i = sends[c].i BY <2>2 DEF RequestHolds
 <2>4. \A x \in Credit(sends[c].route, i, failed) :
         /\ x[2] = i
         /\ x[1] \in {"skills", "updates"} => ~failed
   BY DEF Credit
 <2>5. CreditsHold' BY <2>1, <2>3, <2>4 DEF BridgeInv, CreditsHold
 <2>6. ~failed => \E t \in DOMAIN chain : chain[t].of = i BY <2>2, <2>3 DEF RequestHolds, BridgeInv, RecordsHold
 <2>7. CreditsRestOnTransactions' BY <2>1, <2>3, <2>4, <2>6 DEF BridgeInv, CreditsRestOnTransactions
 <2>8. QED BY <1>1, <2>1, <2>2, <2>5, <2>7
<1>7. ASSUME NEW tx \in DOMAIN chain, NEW i \in {0} \cup DOMAIN history,
             NEW to \in SUBSET Addresses, Confirm(c, tx, i, to)
      PROVE  BridgeInv'
 <2>1. /\ UNCHANGED <<history, accounts, chain, credited, orderly, faulty>>
       /\ sends[c] = Resting
   BY <1>7 DEF Confirm, MayBegin
 <2>2. /\ tx \in Nat /\ i \in Nat
       /\ orderly => /\ i = chain[tx].of /\ to = {OwnAccount(tx)}
                     /\ history[i].status = "submitted"
   BY <1>7, ElementsTyped DEF Confirm
 <2>3. PICK s \in Request : /\ s = [at |-> "confirming", i |-> i, tx |-> tx, to |-> to]
                            /\ s.at = "confirming" /\ s.i = i /\ s.tx = tx /\ s.to = to
  <3>1. LET s == [at |-> "confirming", i |-> i, tx |-> tx, to |-> to] IN
          /\ s \in ConfirmRequest
          /\ s.at = "confirming" /\ s.i = i /\ s.tx = tx /\ s.to = to
    BY <2>2 DEF ConfirmRequest, Confirming
  <3>2. QED BY <3>1 DEF Request
 <2>4. RequestHolds(s) BY <2>2, <2>3 DEF RequestHolds, Before, After, Sending, Confirming
 <2>5. orderly => InTurn(s) BY <2>2, <2>3 DEF InTurn, Before
 <2>6. s.at \notin Sending /\ sends[c].at \notin {"publishing", "settling"}
   BY <2>1, <2>3 DEF Sending, Before, After, Resting
 <2>7. Proceeds(c, s) BY <1>7, <2>3 DEF Confirm
 <2>8. orderly => \A d \in BridgeCallers : sends[d] = Resting BY <1>7 DEF Confirm, MayBegin
 <2>9. QED BY <1>2, <2>1, <2>4, <2>5, <2>6, <2>7, <2>8, QuietStep
<1>8. CASE Confirmed(c)
 <2>1. CASE sends[c].i # 0 BY <1>8, <2>1, RecordStep
 <2>2. CASE sends[c].i = 0 BY <1>8, <2>2, SettleStep DEF Confirmed, At, Confirming
 <2>3. QED BY <2>1, <2>2
<1>9. CASE RecordSettled(c) BY <1>9, SettleStep DEF RecordSettled, At, Confirming, RequestHolds
<1>10. CASE AccountSettled(c) \/ ConfirmTimesOut(c)
  BY <1>1, <1>2, <1>10 DEF AccountSettled, ConfirmTimesOut, At, Resting
<1>11. CASE WriteFails(c)
 <2>1. /\ UNCHANGED <<accounts, chain, credited, orderly>> /\ faulty' = TRUE
       /\ sends[c] # Resting
   BY <1>11 DEF WriteFails, Resting
 <2>2. CASE sends[c].at \in After BY <1>11, <2>1, <2>2, FailingStep DEF WriteFails, After
 <2>3. CASE sends[c].at \notin After BY <1>1, <1>2, <1>11, <2>1, <2>3 DEF WriteFails, After
 <2>4. QED BY <2>2, <2>3
<1>12. QED BY <1>3, <1>4, <1>5, <1>6, <1>7, <1>8, <1>9, <1>10, <1>11

LEMMA BridgeNextInv == BridgeInv /\ [BridgeNext]_bridgeVars => BridgeInv'
<1> SUFFICES ASSUME BridgeInv, [BridgeNext]_bridgeVars PROVE BridgeInv' OBVIOUS
<1>1. CASE UNCHANGED bridgeVars
  BY <1>1 DEF bridgeVars, BridgeInv, TypeOK, RecordsHold, ChainHolds, AccountsHold,
              RequestsHold, OwnRecords, RequestHolds, OwnAccount, FailedNeverLands, CreditsHold,
              CreditsRestOnTransactions, OrderlyNeverCross, OneAtATime, InOrder, Shows, Shown, InTurn
<1>2. \A j \in DOMAIN history : {history[j].address} \in SUBSET Addresses BY ElementsTyped DEF BridgeInv
<1>3. {} \in SUBSET Addresses OBVIOUS
<1>4. CASE BridgeNext BY <1>2, <1>3, <1>4, CallerStep, BuildStep, PublishStep, LandsStep DEF BridgeNext
<1>5. QED BY <1>1, <1>4

\* The inductive invariant holds in every reachable state.
THEOREM BridgeHolds == BridgeSpec => []BridgeInv
BY BridgeInitInv, BridgeNextInv, PTL DEF BridgeSpec

\* What bridgeService.ts keeps of requests and accounts is what the chain
\* has done with them: confirmed is executed, whoever confirms what; until it
\* is confirmed with another's, a row's signature is its own, and failed never
\* lands unless something was lost; accounts follow records for callers that
\* keep an order; credits rest on transactions.
THEOREM BridgeAlwaysTellsTheChain == BridgeSpec => []BridgeTellsTheChain
<1>1. BridgeInv => BridgeTellsTheChain
 <2> SUFFICES ASSUME BridgeInv PROVE BridgeTellsTheChain OBVIOUS
 <2>1. ConfirmedIsOnChain BY DEF BridgeInv, RecordsHold, AccountsHold, ConfirmedIsOnChain
 <2>2. SignaturesMatch BY BridgeAssumption DEF BridgeInv, RecordsHold, AccountsHold, SignaturesMatch
 <2>3. ASSUME orderly, ~faulty, NEW a \in Addresses, accounts[a].status # "none"
       PROVE  accounts[a].of = chain[accounts[a].tx].of
   BY <2>3 DEF BridgeInv, InOrder, Shows, RecordsHold, OrderlyNeverCross
 <2>4. ConfirmedPayload BY <2>3 DEF ConfirmedPayload
 <2>5. AccountFollowsRecord
  <3> SUFFICES ASSUME orderly, ~faulty, \A c \in BridgeCallers : sends[c] = Resting,
                      NEW a \in Addresses, accounts[a] # NoAccount
               PROVE  /\ accounts[a].of = chain[accounts[a].tx].of
                      /\ accounts[a].status = "pending" <=>
                           history[accounts[a].of].status = "submitted"
                      /\ accounts[a].status = "confirmed" <=>
                           history[accounts[a].of].status = "confirmed"
    BY DEF AccountFollowsRecord
  <3>1. accounts[a].status # "none" BY DEF BridgeInv, AccountsHold
  <3>2. Shows(a) BY DEF BridgeInv, InOrder
  <3>3. \A c \in BridgeCallers : sends[c].at # "settling" BY DEF Resting
  <3>4. accounts[a].of \in DOMAIN history BY <3>1, <3>2 DEF Shows
  <3>5. history[accounts[a].of] \in BridgeRecord /\ accounts[a] \in Account
    BY <3>4, ElementsTyped DEF BridgeInv, TypeOK
  <3>6. \/ accounts[a].status = history[accounts[a].of].status
        \/ accounts[a].status = "pending" /\ history[accounts[a].of].status = "submitted"
    BY <3>1, <3>2, <3>3 DEF Shows
  <3>7. /\ accounts[a].status \in {"none", "pending", "failed", "confirmed"}
        /\ history[accounts[a].of].status \in {"building", "submitted", "failed", "confirmed"}
    BY <3>5 DEF BridgeRecord, Account
  <3>8. QED BY <2>3, <3>1, <3>6, <3>7
 <2>6. QED BY <2>1, <2>2, <2>4, <2>5 DEF BridgeInv, BridgeTellsTheChain
<1>2. QED BY <1>1, BridgeHolds, PTL

----
\* The swarm.  The invariant goes by the step a run takes next.  Until its
\* write has resolved a run is only said to fit that step; from then on
\* its file says so too, and this is what a restart falls back on.

Unproven == {"plan", "planned", "outcome", "reflect", "anchor", "reflectionReceipt", "remembered", "proof"}
Lost == {"lostReceipt", "failedReceipt"}
Closing == {"credit", "answer"}
Live == Unproven \cup Lost \cup Closing \cup {"proofReceipt", "proven"}
Remembers == {"reflectionReceipt", "remembered", "proof", "proofReceipt", "proven"} \cup Closing

Step == [next : Live \cup {"begin", "desk", "over"}, in : {"none", "plan", "reflection", "proof"}]
Row == [status : {"none", "planning", "running", "failed", "succeeded", "reflected", "stored", "degraded",
                  "verified"},
        framework : {"none", "running", "completed", "failed", "degraded"},
        planFailed : BOOLEAN, memory : BOOLEAN, tx : {"none", "anchor", "proof"}]
Slip == {NoReceipt} \cup [status : {"submitted", "failed", "degraded"}, signed : BOOLEAN]
Slips == [ReceiptTypes -> Slip]
Unanchored == [t \in ReceiptTypes |-> NoReceipt]
Submitted == [status |-> "submitted", signed |-> TRUE]

Distinct(s) == \A i, j \in DOMAIN s : s[i] = s[j] => i = j

\* A sequence of runs as the mirror keeps it.
Mirrored(s) == s \in Seq(Runs) /\ Distinct(s) /\ Len(s) <= limit

\* A sequence of anything.
IsSequence(s) == s \in Seq({s[i] : i \in DOMAIN s})

Types ==
  /\ limit \in Nat \ {0}
  /\ Mirrored(executions) /\ Mirrored(disk.executions)
  /\ rows \in [Runs -> Row] /\ disk.rows \in [Runs -> Row]
  /\ receipts \in [Runs -> Slips] /\ disk.receipts \in [Runs -> Slips]
  /\ writes \in Seq(Runs) /\ Distinct(writes)
  /\ rejects \in BOOLEAN
  /\ file \in {"whole", "writing", "cut"} /\ (file = "writing" => writes # <<>> /\ ~rejects)
  /\ lost \subseteq Runs
  /\ at \in [Runs -> Step]
  /\ degraded \in [Runs -> BOOLEAN]
  /\ credits \subseteq Runs \X BOOLEAN
  /\ answers \in [Runs -> {"none", "ok", "degraded", "error"}]
  /\ wish \in [Runs -> {"none", "draft"} \cup Chosen]
  /\ IsSequence(drafts) /\ IsSequence(disk.drafts)

----
\* One run.

\* Which try the write of a step is in.
TryFits(a) ==
  /\ a.in = "plan" => a.next \in {"planned", "outcome"}
  /\ a.in = "reflection" => a.next \in {"anchor", "reflectionReceipt", "remembered", "proof"}
  /\ a.in = "proof" => a.next \in Lost \cup {"proofReceipt", "proven", "credit"}

\* A verified record names its proof.
Backed(row, slips) == row.status = "verified" => row.tx = "proof" /\ slips["proof"].status # "failed"

\* The proof was sent and its receipt is there, or the run is degraded.
ProofTold(row, slips, bad) ==
  \/ row.status = "verified" /\ slips["proof"] = Submitted
  \/ row.status = "degraded" /\ bad

\* What a run closes with.
Judged(row, slips, bad) ==
  /\ Backed(row, slips) /\ ProofTold(row, slips, bad)
  /\ IF bad THEN row.framework \in {"degraded", "failed"}
            ELSE /\ row.framework = "completed" /\ ~row.planFailed /\ row.memory
                 /\ \A t \in ReceiptTypes : slips[t].status # "failed"

\* A run that is not degraded has come through everything so far.
CleanSoFar(a, row, slips) ==
  /\ ~row.planFailed
  /\ \A t \in ReceiptTypes : slips[t].status # "failed"
  /\ a.next \notin Lost
  /\ a.next \in Remembers => row.memory

Fits(a, row, slips, bad) ==
  /\ a.next \in Unproven => slips["proof"] = NoReceipt /\ row.status # "verified"
  /\ a.next = "proofReceipt" => row.status = "verified" /\ slips["proof"] = NoReceipt
  /\ a.next \in Lost => row.status = "degraded" /\ slips["proof"] = NoReceipt
  /\ a.next = "proven" => ProofTold(row, slips, bad)
  /\ a.next \in Closing => Judged(row, slips, bad)
  /\ a.next \in Live /\ ~bad => CleanSoFar(a, row, slips)

\* Nothing is there of a request that has not begun a run.
Untouched(r) ==
  /\ rows[r] = NoRow /\ disk.rows[r] = NoRow
  /\ receipts[r] = Unanchored /\ disk.receipts[r] = Unanchored
  /\ ~Contains(executions, r) /\ ~Contains(disk.executions, r)
  /\ ~degraded[r]
  /\ \A s \in BOOLEAN : <<r, s>> \notin credits

Answered(r) == wish[r] = "none" /\ answers[r] \in {"ok", "degraded"}

\* A run the mirror still has, unless others have filled it.
HeldIn(s, r) == Contains(s, r) \/ Len(s) = limit

\* The file has what the request has written, or is being given it.
Saved(r) == ~Contains(writes, r) \/ (file = "writing" /\ r = Head(writes))

Held(r) ==
  /\ HeldIn(executions, r)
  /\ Saved(r) => HeldIn(disk.executions, r) /\ disk.receipts[r] = receipts[r]

\* Where a request is.
Placed(r) ==
  /\ TryFits(at[r])
  /\ at[r].next \in {"begin", "over"} => ~Contains(writes, r)
  /\ at[r].next # "over" => answers[r] = "none" /\ r \notin lost
  /\ wish[r] # "none" => at[r].next \in {"desk", "over"}
  /\ at[r].next = "desk" => wish[r] # "none"
  /\ at[r].next = "begin" \/ wish[r] # "none" => Untouched(r)

\* A run in flight.
Underway(r) ==
  at[r].next \in Live =>
    /\ Fits(at[r], rows[r], receipts[r], degraded[r])
    /\ Held(r)
    /\ Saved(r) /\ Contains(disk.executions, r) => disk.rows[r] = rows[r]

\* A run that was answered.
Closed(r) ==
  Answered(r) =>
    /\ answers[r] = "degraded" <=> degraded[r]
    /\ r \notin lost => Held(r)
    /\ Contains(executions, r) => Judged(rows[r], receipts[r], degraded[r])
    /\ Contains(disk.executions, r) => Judged(disk.rows[r], disk.receipts[r], degraded[r])

\* A success that was counted.
Credited(r) ==
  <<r, TRUE>> \in credits =>
    /\ at[r].next \in {"answer", "over"}
    /\ Contains(executions, r) => rows[r].status = "verified"
    /\ Contains(disk.executions, r) => disk.rows[r].status = "verified"

RunHolds(r) ==
  /\ Placed(r) /\ Underway(r) /\ Closed(r) /\ Credited(r)
  /\ Backed(rows[r], receipts[r]) /\ Backed(disk.rows[r], disk.receipts[r])

----
\* The desk.

OneOf(s, r) == \E i \in DOMAIN s : s[i].of = r
Selecting == {r \in Runs : wish[r] \in Chosen}

\* What a request of the desk has asked for is in effect, and on disk once its write has
\* resolved.
DeskHolds(r) ==
  r \notin lost /\ (at[r].next = "desk" \/ answers[r] = "ok") =>
    /\ wish[r] = "draft" => OneOf(drafts, r) /\ (Saved(r) => OneOf(disk.drafts, r))
    /\ wish[r] \in Chosen => selected # "none" /\ (Saved(r) => disk.selected # "none")

\* The writes that have not begun.
Queued == IF file = "writing" THEN Tail(writes) ELSE writes

DeskInv ==
  /\ \A s \in {selected, disk.selected} : s = "none" \/ \E q \in Selecting : s = wish[q]
  /\ Queued = <<>> /\ ~rejects => disk.selected = selected /\ disk.drafts = drafts
  /\ \A r \in Runs : DeskHolds(r)

SwarmInv == Types /\ (\A r \in Runs : RunHolds(r)) /\ DeskInv

----
\* Sequences.

\* The elements of a sequence over a set are of that set.
LEMMA Elements ==
  ASSUME NEW S, NEW s \in Seq(S)
  PROVE  Len(s) \in Nat /\ DOMAIN s = 1..Len(s) /\ \A i \in 1..Len(s) : s[i] \in S
  OBVIOUS

\* Contains speaks of the domain.
LEMMA ContainsIs ==
  ASSUME NEW S, NEW s \in Seq(S), NEW e
  PROVE  Contains(s, e) <=> \E i \in DOMAIN s : s[i] = e
  BY Elements DEF Contains

\* One more at the end of a chain of writes, which it was not in.
LEMMA WriteEffect ==
  ASSUME NEW S, NEW s \in Seq(S), Distinct(s), NEW e \in S, ~Contains(s, e)
  PROVE  LET t == Append(s, e) IN
         /\ t \in Seq(S) /\ Distinct(t) /\ t # <<>> /\ Contains(t, e)
         /\ \A x : x # e => (Contains(t, x) <=> Contains(s, x))
<1> DEFINE t == Append(s, e)
<1>1. t \in Seq(S) /\ Len(t) = Len(s) + 1 /\ t[Len(s) + 1] = e /\ \A i \in 1..Len(s) : t[i] = s[i] OBVIOUS
<1>2. Len(s) \in Nat /\ DOMAIN s = 1..Len(s) /\ DOMAIN t = 1..(Len(s) + 1) BY <1>1, Elements
<1>3. 1..(Len(s) + 1) = 1..Len(s) \cup {Len(s) + 1} BY <1>2
<1> HIDE DEF t
<1>4. \A i \in 1..Len(s) : t[i] # e BY <1>1, <1>2, ContainsIs
<1>5. Distinct(t) BY <1>1, <1>2, <1>3, <1>4 DEF Distinct
<1>6. \A x : Contains(t, x) <=> \E i \in 1..(Len(s) + 1) : t[i] = x BY <1>1, <1>2, ContainsIs
<1>7. \A x : Contains(s, x) <=> \E i \in 1..Len(s) : s[i] = x BY <1>2, ContainsIs
<1>8. Contains(t, e) /\ \A x : x # e => (Contains(t, x) <=> Contains(s, x)) BY <1>1, <1>2, <1>3, <1>6, <1>7
<1>9. t # <<>> BY <1>1, <1>2
<1> QED BY <1>1, <1>5, <1>8, <1>9 DEF t

\* The first of a chain of writes is taken off.
LEMMA TailEffect ==
  ASSUME NEW S, NEW s \in Seq(S), Distinct(s), s # <<>>
  PROVE  /\ Head(s) \in S /\ Contains(s, Head(s))
         /\ Tail(s) \in Seq(S) /\ Distinct(Tail(s)) /\ ~Contains(Tail(s), Head(s))
         /\ \A x : x # Head(s) => (Contains(Tail(s), x) <=> Contains(s, x))
<1> DEFINE t == Tail(s)
<1>1. /\ t \in Seq(S) /\ Len(s) \in Nat \ {0} /\ Len(t) = Len(s) - 1
      /\ \A i \in 1..Len(t) : t[i] = s[i + 1]
  OBVIOUS
<1>2. DOMAIN s = 1..Len(s) /\ DOMAIN t = 1..(Len(s) - 1) /\ Head(s) = s[1] /\ 1 \in DOMAIN s BY <1>1, Elements
<1> HIDE DEF t
<1>3. \A x : Contains(t, x) <=> \E i \in 1..(Len(s) - 1) : t[i] = x BY <1>1, <1>2, ContainsIs
<1>4. \A x : Contains(s, x) <=> \E i \in 1..Len(s) : s[i] = x BY <1>2, ContainsIs
<1>5. Distinct(t) BY <1>1, <1>2, SMTT(20) DEF Distinct
<1>6. ~Contains(t, s[1]) BY <1>1, <1>2, <1>3 DEF Distinct
<1>7. ASSUME NEW x, x # s[1] PROVE Contains(t, x) <=> Contains(s, x)
 <2>1. Contains(t, x) => Contains(s, x) BY <1>1, <1>3, <1>4
 <2>2. ASSUME NEW i \in 1..Len(s), s[i] = x PROVE Contains(t, x)
  <3>1. i - 1 \in 1..(Len(s) - 1) BY <1>1, <1>7, <2>2
  <3>2. t[i - 1] = x BY <1>1, <2>2, <3>1
  <3> QED BY <1>3, <3>1, <3>2
 <2> QED BY <1>4, <2>1, <2>2
<1>8. Head(s) \in S /\ Contains(s, Head(s)) BY <1>1, <1>2, <1>4, Elements
<1> QED BY <1>1, <1>2, <1>5, <1>6, <1>7, <1>8 DEF t

\* A record is put in front of the mirror unless it is there; what the cap
\* drops is only dropped from a full mirror.
LEMMA UpsertedEffect ==
  ASSUME NEW r \in Runs, limit \in Nat \ {0}, Mirrored(executions)
  PROVE  LET s == Upserted(r) IN
         /\ Mirrored(s) /\ Contains(s, r)
         /\ \A q : q # r /\ Contains(s, q) => Contains(executions, q)
         /\ \A q : HeldIn(executions, q) => HeldIn(s, q)
<1> DEFINE s == Upserted(r)
<1>1. CASE Contains(executions, r) BY <1>1 DEF Upserted
<1>2. CASE ~Contains(executions, r)
 <2> DEFINE t == <<r>> \o executions
            n == IF Len(t) < limit THEN Len(t) ELSE limit
 <2>1. executions \in Seq(Runs) /\ Len(executions) \in Nat /\ DOMAIN executions = 1..Len(executions)
   BY Elements DEF Mirrored
 <2>2. /\ t \in Seq(Runs) /\ Len(t) = Len(executions) + 1 /\ t[1] = r
       /\ \A i \in 2..Len(t) : t[i] = executions[i - 1]
   BY <2>1
 <2>3. Len(t) \in Nat \ {0} /\ DOMAIN t = 1..Len(t) BY <2>1, <2>2, Elements
 <2> HIDE DEF t
 <2>4. n \in 1..Len(t) /\ n \in 1..limit /\ n \in Nat BY <2>3
 <2>5. s = SubSeq(t, 1, n) BY <1>2 DEF Upserted, Truncated, t
 <2>6. s \in Seq(Runs) /\ Len(s) = n /\ \A i \in 1..n : s[i] = t[i] BY <2>2, <2>3, <2>4, <2>5
 <2>7. DOMAIN s = 1..n BY <2>4, <2>6, Elements
 <2> HIDE DEF s
 <2>8. \A i \in 2..Len(t) : i - 1 \in DOMAIN executions /\ t[i] # r
  <3>1. \A i \in 2..Len(t) : i - 1 \in 1..Len(executions) BY <2>1, <2>2
  <3> QED BY <1>2, <2>1, <2>2, <3>1, ContainsIs
 <2>9. Distinct(s)
  <3>1. ASSUME NEW i \in 1..n, NEW j \in 1..n, s[i] = s[j] PROVE i = j
   <4>1. s[i] = t[i] /\ s[j] = t[j] /\ i \in 1..Len(t) /\ j \in 1..Len(t) BY <2>3, <2>4, <2>6
   <4>2. (i = 1 \/ i \in 2..Len(t)) /\ (j = 1 \/ j \in 2..Len(t)) BY <2>3, <4>1
   <4>3. CASE i = 1 \/ j = 1 BY <2>2, <2>8, <3>1, <4>1, <4>2, <4>3
   <4>4. CASE i \in 2..Len(t) /\ j \in 2..Len(t)
    <5>1. executions[i - 1] = executions[j - 1] /\ i - 1 \in DOMAIN executions /\ j - 1 \in DOMAIN executions
      BY <2>2, <2>8, <3>1, <4>1, <4>4
    <5>2. i - 1 = j - 1 BY <5>1 DEF Mirrored, Distinct
    <5> QED BY <5>2, <2>3, <2>4
   <4> QED BY <4>2, <4>3, <4>4
  <3> QED BY <2>7, <3>1 DEF Distinct
 <2>10. Mirrored(s) BY <2>4, <2>6, <2>9 DEF Mirrored
 <2>11. 1 \in 1..n /\ s[1] = r BY <2>2, <2>4, <2>6
 <2>12. Contains(s, r) BY <2>6, <2>7, <2>11, ContainsIs
 <2>13. ASSUME NEW q, q # r, Contains(s, q) PROVE Contains(executions, q)
  <3>1. PICK i \in 1..n : s[i] = q BY <2>6, <2>7, <2>13, ContainsIs
  <3>2. i \in 2..Len(t) /\ t[i] = q BY <2>3, <2>4, <2>6, <2>11, <2>13, <3>1
  <3>3. executions[i - 1] = q /\ i - 1 \in DOMAIN executions BY <2>2, <2>8, <3>2
  <3> QED BY <2>1, <3>3, ContainsIs
 <2>14. ASSUME NEW q, HeldIn(executions, q) PROVE HeldIn(s, q)
  <3>1. CASE Len(executions) = limit
   <4>1. n = limit BY <2>1, <2>2, <3>1
   <4> QED BY <2>6, <4>1 DEF HeldIn
  <3>2. CASE Contains(executions, q) /\ Len(executions) # limit
   <4>1. PICK i \in 1..Len(executions) : executions[i] = q BY <2>1, <3>2, ContainsIs
   <4>2. limit \in Nat /\ Len(executions) \in Nat /\ Len(executions) <= limit /\ Len(executions) # limit
     BY <2>1, <3>2 DEF Mirrored
   <4>3. Len(executions) + 1 <= limit BY <4>2
   <4>4. n = Len(t)
    <5>1. Len(t) \in Nat /\ Len(t) <= limit BY <2>2, <4>2, <4>3
    <5>2. Len(t) < limit \/ Len(t) = limit BY <4>2, <5>1
    <5> QED BY <5>2
   <4>5. i + 1 \in 2..Len(t) /\ i + 1 \in 1..n /\ (i + 1) - 1 = i BY <2>1, <2>2, <4>4
   <4>6. s[i + 1] = q BY <2>2, <2>6, <4>1, <4>5
   <4> QED BY <2>6, <2>7, <4>5, <4>6, ContainsIs DEF HeldIn
  <3> QED BY <2>14, <3>1, <3>2 DEF HeldIn
 <2> QED BY <2>10, <2>12, <2>13, <2>14 DEF s
<1> QED BY <1>1, <1>2

\* One more in front of a sequence of anything.
LEMMA FrontEffect ==
  ASSUME NEW s, IsSequence(s), NEW x
  PROVE  LET t == <<x>> \o s IN
         IsSequence(t) /\ OneOf(t, x.of) /\ \A y : OneOf(s, y) => OneOf(t, y)
<1> DEFINE t == <<x>> \o s
           S == {s[i] : i \in DOMAIN s} \cup {x}
<1>1. s \in Seq(S)
 <2>1. \A S1, S2 : S1 \subseteq S2 /\ s \in Seq(S1) => s \in Seq(S2) OBVIOUS
 <2> QED BY <2>1 DEF IsSequence
<1>2. x \in S OBVIOUS
<1> HIDE DEF S
<1>3. /\ t \in Seq(S) /\ Len(t) = Len(s) + 1 /\ Len(s) \in Nat
      /\ t[1] = x /\ \A i \in 1..Len(s) : t[i + 1] = s[i]
  BY <1>1, <1>2
<1>4. DOMAIN s = 1..Len(s) /\ DOMAIN t = 1..(Len(s) + 1) /\ 1 \in DOMAIN t BY <1>1, <1>3, Elements
<1> HIDE DEF t
<1>5. t \in Seq({t[i] : i \in DOMAIN t}) BY <1>3
<1>6. \A i \in 1..Len(s) : i + 1 \in DOMAIN t BY <1>3, <1>4
<1>7. \A y : OneOf(s, y) => OneOf(t, y) BY <1>3, <1>4, <1>6 DEF OneOf
<1>8. OneOf(t, x.of) BY <1>3, <1>4 DEF OneOf
<1> QED BY <1>5, <1>7, <1>8 DEF IsSequence, t

----
\* A step of one request leaves the others as they are.

Elsewhere(r) ==
  /\ UNCHANGED <<limit, disk, lost>>
  /\ executions' = executions \/ executions' = Upserted(r)
  /\ \A q \in Runs : q # r =>
        /\ rows'[q] = rows[q] /\ receipts'[q] = receipts[q] /\ degraded'[q] = degraded[q]
        /\ at'[q] = at[q] /\ answers'[q] = answers[q] /\ wish'[q] = wish[q]
        /\ \A s \in BOOLEAN : <<q, s>> \in credits' => <<q, s>> \in credits
        /\ Contains(writes', q) <=> Contains(writes, q)
        /\ Saved(q)' <=> Saved(q)

\* The mirror of another run: it is not put back, and not dropped early.
LEMMA MirrorStep ==
  ASSUME SwarmInv, NEW r \in Runs, Elsewhere(r)
  PROVE  /\ Mirrored(executions)'
         /\ \A q : q # r /\ Contains(executions', q) => Contains(executions, q)
         /\ \A q : HeldIn(executions, q) => HeldIn(executions, q)'
         /\ executions' = Upserted(r) => Contains(executions', r) /\ HeldIn(executions, r)'
<1>1. limit \in Nat \ {0} /\ Mirrored(executions) /\ limit' = limit BY DEF SwarmInv, Types, Elsewhere
<1>2. CASE executions' = executions BY <1>1, <1>2, UpsertedEffect DEF Mirrored, HeldIn
<1>3. CASE executions' = Upserted(r)
 <2>1. PICK s : s = Upserted(r) OBVIOUS
 <2>2. /\ Mirrored(s) /\ Contains(s, r)
       /\ \A q : q # r /\ Contains(s, q) => Contains(executions, q)
       /\ \A q : HeldIn(executions, q) => HeldIn(s, q)
   BY <1>1, <2>1, UpsertedEffect
 <2>3. executions' = s BY <1>3, <2>1
 <2>4. Mirrored(executions)' /\ \A q : HeldIn(s, q) <=> HeldIn(executions, q)'
   BY <1>1, <2>2, <2>3 DEF Mirrored, HeldIn
 <2> QED BY <2>2, <2>3, <2>4 DEF HeldIn
<1> QED BY <1>2, <1>3 DEF Elsewhere

\* What holds of another run holds still.
LEMMA OthersHold ==
  ASSUME SwarmInv, NEW r \in Runs, Elsewhere(r), NEW q \in Runs, q # r
  PROVE  RunHolds(q)'
<1>1. RunHolds(q) BY DEF SwarmInv
<1>2. /\ rows'[q] = rows[q] /\ receipts'[q] = receipts[q] /\ degraded'[q] = degraded[q]
      /\ at'[q] = at[q] /\ answers'[q] = answers[q] /\ wish'[q] = wish[q]
      /\ \A s \in BOOLEAN : <<q, s>> \in credits' => <<q, s>> \in credits
      /\ Contains(writes', q) <=> Contains(writes, q)
      /\ Saved(q)' <=> Saved(q)
      /\ disk' = disk /\ limit' = limit /\ lost' = lost
  BY DEF Elsewhere
<1>3. Contains(executions', q) => Contains(executions, q) BY MirrorStep
<1>4. HeldIn(executions, q) => HeldIn(executions, q)' BY MirrorStep
<1>5. HeldIn(disk.executions, q)' <=> HeldIn(disk.executions, q) BY <1>2 DEF HeldIn
<1>6. Held(q) => Held(q)' BY <1>2, <1>4, <1>5 DEF Held
<1>7. Placed(q)' BY <1>1, <1>2, <1>3 DEF RunHolds, Placed, Untouched
<1>8. Underway(q)' BY <1>1, <1>2, <1>6 DEF RunHolds, Underway
<1>9. Closed(q)' BY <1>1, <1>2, <1>3, <1>6 DEF RunHolds, Closed, Answered
<1>10. Credited(q)' BY <1>1, <1>2, <1>3 DEF RunHolds, Credited
<1> QED BY <1>1, <1>2, <1>7, <1>8, <1>9, <1>10 DEF RunHolds

\* What the desk has said to others stays in effect.
LEMMA OthersAtDesk ==
  ASSUME SwarmInv, NEW r \in Runs, Elsewhere(r), NEW q \in Runs, q # r,
         \A y : OneOf(drafts, y) => OneOf(drafts', y),
         selected # "none" => selected' # "none"
  PROVE  DeskHolds(q)'
<1>1. DeskHolds(q) BY DEF SwarmInv, DeskInv
<1>2. /\ at'[q] = at[q] /\ answers'[q] = answers[q] /\ wish'[q] = wish[q] /\ disk' = disk /\ lost' = lost
      /\ Saved(q)' <=> Saved(q)
  BY DEF Elsewhere
<1> QED BY <1>1, <1>2 DEF DeskHolds

----
\* Writing goes on: a run appends its write to the chain, or its write has
\* rejected and it appends another.

Chains(r) ==
  \/ ~Contains(writes, r) /\ writes' = Append(writes, r) /\ UNCHANGED <<file, rejects>>
  \/ writes # <<>> /\ Head(writes) = r /\ writes' = Append(Tail(writes), r) /\ file' \in {"whole", "cut"}

\* The chain of writes has the run once, and the others as before.
LEMMA ChainsEffect ==
  ASSUME SwarmInv, NEW r \in Runs, Chains(r)
  PROVE  /\ writes' \in Seq(Runs) /\ Distinct(writes') /\ writes' # <<>> /\ Contains(writes', r)
         /\ \A q : q # r => (Contains(writes', q) <=> Contains(writes, q))
         /\ ~Saved(r)' /\ \A q : q # r => (Saved(q)' <=> Saved(q))
         /\ file' \in {"whole", "writing", "cut"} /\ (file' = "writing" => ~rejects') /\ Queued' # <<>>
<1>1. writes \in Seq(Runs) /\ Distinct(writes) /\ Types BY DEF SwarmInv, Types
<1>2. CASE ~Contains(writes, r) /\ writes' = Append(writes, r) /\ UNCHANGED <<file, rejects>>
 <2>1. /\ writes' \in Seq(Runs) /\ Distinct(writes') /\ writes' # <<>> /\ Contains(writes', r)
       /\ \A q : q # r => (Contains(writes', q) <=> Contains(writes, q))
   BY <1>1, <1>2, WriteEffect
 <2>2. ASSUME file = "writing" PROVE Head(writes') = Head(writes) /\ Head(writes) # r
  <3>1. writes # <<>> BY <1>1, <2>2 DEF Types
  <3>2. Contains(writes, Head(writes)) BY <1>1, <3>1, TailEffect
  <3> QED BY <1>1, <1>2, <3>1, <3>2
 <2>3. Queued' # <<>>
  <3>1. CASE file = "writing"
   <4>1. writes # <<>> /\ Queued' = Tail(Append(writes, r)) BY <1>1, <1>2, <3>1 DEF Types, Queued
   <4> QED BY <1>1, <4>1
  <3> QED BY <1>2, <2>1, <3>1 DEF Queued
 <2> QED BY <1>1, <1>2, <2>1, <2>2, <2>3 DEF Saved, Types
<1>3. CASE writes # <<>> /\ Head(writes) = r /\ writes' = Append(Tail(writes), r) /\ file' \in {"whole", "cut"}
 <2>1. PICK t : t = Tail(writes) OBVIOUS
 <2>2. /\ t \in Seq(Runs) /\ Distinct(t) /\ ~Contains(t, r)
       /\ \A x : x # r => (Contains(t, x) <=> Contains(writes, x))
   BY <1>1, <1>3, <2>1, TailEffect
 <2>3. writes' = Append(t, r) BY <1>3, <2>1
 <2>4. /\ writes' \in Seq(Runs) /\ Distinct(writes') /\ writes' # <<>> /\ Contains(writes', r)
       /\ \A q : q # r => (Contains(writes', q) <=> Contains(writes, q))
   BY <2>2, <2>3, WriteEffect
 <2> QED BY <1>3, <2>4 DEF Saved, Queued
<1> QED BY <1>2, <1>3 DEF Chains

\* What is counted for the skill is the success of the record on disk.
Counts(r, row, a) ==
  \/ credits' = credits
  \/ /\ at[r].next = "credit" /\ ~Contains(writes, r) /\ a.next = "answer" /\ row = rows[r]
     /\ credits' = credits \cup {<<r, Success(r)>>}

\* A run goes on to the step a, with its write under way.
Advances(r, row, slips, bad, a) ==
  /\ at[r].next \in (Live \cup {"begin"}) \ {"answer"} /\ wish[r] = "none"
  /\ rows' = [rows EXCEPT ![r] = row] /\ receipts' = [receipts EXCEPT ![r] = slips]
  /\ degraded' = [degraded EXCEPT ![r] = bad] /\ at' = [at EXCEPT ![r] = a]
  /\ UNCHANGED <<limit, disk, lost, answers, selected, drafts, wish>>
  /\ \/ executions' = Upserted(r)
     \/ executions' = executions /\ at[r].next \in Live
  /\ Chains(r) /\ Counts(r, row, a)
  /\ rejects' \in BOOLEAN

\* What it says by then.
Saying(row, slips, bad, a) ==
  /\ row \in Row /\ slips \in Slips /\ bad \in BOOLEAN /\ a \in Step
  /\ a.next \in Live /\ TryFits(a) /\ Fits(a, row, slips, bad) /\ Backed(row, slips)

\* An advance is a step of one run.
LEMMA AdvanceElsewhere ==
  ASSUME SwarmInv, NEW r \in Runs, NEW row, NEW slips, NEW bad, NEW a, Advances(r, row, slips, bad, a)
  PROVE  Elsewhere(r)
<1>1. \A q : q # r => (Contains(writes', q) <=> Contains(writes, q)) /\ (Saved(q)' <=> Saved(q))
  BY ChainsEffect DEF Advances
<1>2. \A q \in Runs, s \in BOOLEAN : q # r /\ <<q, s>> \in credits' => <<q, s>> \in credits BY DEF Advances, Counts
<1>3. \A q \in Runs : q # r => /\ rows'[q] = rows[q] /\ receipts'[q] = receipts[q] /\ degraded'[q] = degraded[q]
                               /\ at'[q] = at[q]
  BY DEF Advances, SwarmInv, Types
<1>4. UNCHANGED <<limit, disk, lost, answers, wish>> /\ (executions' = executions \/ executions' = Upserted(r))
  BY DEF Advances
<1> QED BY <1>1, <1>2, <1>3, <1>4 DEF Elsewhere

\* What an advance counts rests on the file.
LEMMA AdvanceCredited ==
  ASSUME SwarmInv, NEW r \in Runs, NEW row, NEW slips, NEW bad, NEW a, Advances(r, row, slips, bad, a)
  PROVE  credits' \subseteq Runs \X BOOLEAN /\ Credited(r)'
<1>1. Credited(r) /\ Underway(r) /\ credits \subseteq Runs \X BOOLEAN /\ Success(r) \in BOOLEAN
  BY DEF SwarmInv, RunHolds, Types, Success
<1>2. at[r].next \notin {"answer", "over"} BY DEF Advances, Live, Unproven, Lost, Closing
<1>3. <<r, TRUE>> \notin credits BY <1>1, <1>2 DEF Credited
<1>4. CASE credits' = credits BY <1>1, <1>3, <1>4 DEF Credited
<1>5. CASE /\ at[r].next = "credit" /\ ~Contains(writes, r) /\ a.next = "answer" /\ row = rows[r]
           /\ credits' = credits \cup {<<r, Success(r)>>}
 <2>1. disk' = disk /\ rows'[r] = rows[r] /\ at'[r] = a BY <1>5 DEF Advances, SwarmInv, Types
 <2>2. Contains(disk.executions, r) => disk.rows[r] = rows[r] BY <1>1, <1>5 DEF Underway, Saved, Live, Closing
 <2>3. <<r, TRUE>> \in credits' => rows[r].status = "verified" BY <1>3, <1>5 DEF Success
 <2>4. credits' \subseteq Runs \X BOOLEAN BY <1>1, <1>5
 <2> QED BY <1>5, <2>1, <2>2, <2>3, <2>4 DEF Credited
<1> QED BY <1>4, <1>5 DEF Advances, Counts

\* A run that says what fits holds on.
LEMMA AdvanceHolds ==
  ASSUME SwarmInv, NEW r \in Runs, NEW row, NEW slips, NEW bad, NEW a,
         Advances(r, row, slips, bad, a), Saying(row, slips, bad, a)
  PROVE  RunHolds(r)'
<1>1. RunHolds(r) /\ Types BY DEF SwarmInv
<1>2. Contains(writes', r) /\ ~Saved(r)' BY ChainsEffect DEF Advances
<1>3. rows'[r] = row /\ receipts'[r] = slips /\ degraded'[r] = bad /\ at'[r] = a BY <1>1 DEF Advances, Types
<1>4. answers' = answers /\ wish' = wish /\ wish[r] = "none" /\ disk' = disk /\ limit' = limit /\ lost' = lost
  BY DEF Advances
<1>5. at[r].next # "over" /\ a.next \notin {"over", "desk", "begin"}
  BY DEF Advances, Saying, Live, Unproven, Lost, Closing
<1>6. answers[r] = "none" /\ r \notin lost BY <1>1, <1>5 DEF RunHolds, Placed
<1>7. HeldIn(executions, r)'
 <2>1. CASE executions' = Upserted(r) BY <2>1, AdvanceElsewhere, MirrorStep
 <2>2. CASE executions' = executions /\ at[r].next \in Live
  <3>1. HeldIn(executions, r) BY <1>1, <2>2 DEF RunHolds, Underway, Held
  <3> QED BY <2>2, <3>1, <1>4 DEF HeldIn
 <2> QED BY <2>1, <2>2 DEF Advances
<1>8. Placed(r)' BY <1>2, <1>3, <1>4, <1>5, <1>6 DEF Placed, Saying
<1>9. Underway(r)' BY <1>2, <1>3, <1>7 DEF Underway, Held, Saying
<1>10. Closed(r)' BY <1>4, <1>6 DEF Closed, Answered
<1>11. Backed(rows[r], receipts[r])' /\ Backed(disk.rows[r], disk.receipts[r])'
  BY <1>1, <1>3, <1>4 DEF RunHolds, Saying
<1> QED BY <1>8, <1>9, <1>10, <1>11, AdvanceCredited DEF RunHolds

\* An advance that says what fits keeps the invariant.
LEMMA AdvanceStep ==
  ASSUME SwarmInv, NEW r \in Runs, NEW row, NEW slips, NEW bad, NEW a,
         Advances(r, row, slips, bad, a), Saying(row, slips, bad, a)
  PROVE  SwarmInv'
<1>1. Types /\ RunHolds(r) /\ DeskInv BY DEF SwarmInv
<1>2. Elsewhere(r) /\ RunHolds(r)' BY AdvanceElsewhere, AdvanceHolds
<1>3. Types'
 <2>1. /\ writes' \in Seq(Runs) /\ Distinct(writes)' /\ file' \in {"whole", "writing", "cut"}
       /\ file' = "writing" => writes' # <<>> /\ ~rejects'
   BY ChainsEffect DEF Advances, Distinct
 <2>2. Mirrored(executions)' /\ credits' \subseteq Runs \X BOOLEAN BY <1>2, MirrorStep, AdvanceCredited
 <2>3. /\ rows' \in [Runs -> Row] /\ receipts' \in [Runs -> Slips]
       /\ degraded' \in [Runs -> BOOLEAN] /\ at' \in [Runs -> Step]
   BY <1>1 DEF Types, Advances, Saying
 <2>4. UNCHANGED <<limit, disk, lost, answers, drafts, wish>> /\ rejects' \in BOOLEAN BY DEF Advances
 <2> QED BY <1>1, <2>1, <2>2, <2>3, <2>4 DEF Types, Mirrored
<1>4. \A q \in Runs : RunHolds(q)' BY <1>2, OthersHold
<1>5. DeskInv'
 <2>1. UNCHANGED <<disk, selected, drafts, wish, answers>> /\ wish[r] = "none" BY DEF Advances
 <2>2. Queued' # <<>> BY ChainsEffect DEF Advances
 <2>3. DeskHolds(r)' BY <2>1, SwarmAssumption DEF DeskHolds, SwarmAssumption
 <2>4. \A q \in Runs : DeskHolds(q)' BY <1>2, <2>1, <2>3, OthersAtDesk
 <2> QED BY <1>1, <2>1, <2>2, <2>4 DEF DeskInv, Selecting
<1> QED BY <1>3, <1>4, <1>5 DEF SwarmInv

----
\* The steps of a run, each an advance with a saying that fits.

\* What is known of a run at a step of its live part.
Ready(r) ==
  /\ rows[r] \in Row /\ receipts[r] \in Slips /\ degraded[r] \in BOOLEAN /\ wish[r] = "none"
  /\ degraded = [degraded EXCEPT ![r] = degraded[r]]
  /\ Fits(at[r], rows[r], receipts[r], degraded[r]) /\ Backed(rows[r], receipts[r])

\* A step that is taken: what is known of the run.
LEMMA Known ==
  ASSUME SwarmInv, NEW r \in Runs, at[r].next \in Live
  PROVE  /\ rows[r] \in Row /\ receipts[r] \in Slips /\ degraded[r] \in BOOLEAN /\ at[r] \in Step
         /\ receipts = [receipts EXCEPT ![r] = receipts[r]]
         /\ degraded = [degraded EXCEPT ![r] = degraded[r]]
         /\ rows = [rows EXCEPT ![r] = rows[r]]
         /\ wish[r] = "none"
         /\ Fits(at[r], rows[r], receipts[r], degraded[r])
         /\ Backed(rows[r], receipts[r])
         /\ TryFits(at[r])
<1>1. Types /\ Placed(r) /\ Underway(r) /\ Backed(rows[r], receipts[r]) BY DEF SwarmInv, RunHolds
<1>2. wish[r] = "none" BY <1>1 DEF Placed, Live, Unproven, Lost, Closing
<1> QED BY <1>1, <1>2 DEF Types, Underway, Placed

\* upsertExecution of a changed record.
LEMMA UpsertStep ==
  ASSUME SwarmInv, NEW r \in Runs, NEW row, NEW next, NEW in, NEW bad,
         at[r].next \in (Live \cup {"begin"}) \ {"answer"}, wish[r] = "none", ~Contains(writes, r),
         UpsertExecution(r, row, next, in), degraded' = [degraded EXCEPT ![r] = bad],
         Counts(r, row, [next |-> next, in |-> in]), UNCHANGED <<selected, drafts, wish>>,
         Saying(row, receipts[r], bad, [next |-> next, in |-> in])
  PROVE  SwarmInv'
<1>1. receipts' = [receipts EXCEPT ![r] = receipts[r]] BY DEF UpsertExecution, SwarmInv, Types
<1>2. rejects' \in BOOLEAN BY DEF UpsertExecution, SwarmInv, Types
<1>3. PICK a : a = [next |-> next, in |-> in] OBVIOUS
<1>4. /\ rows' = [rows EXCEPT ![r] = row] /\ executions' = Upserted(r)
      /\ UNCHANGED <<limit, disk, file, lost, rejects, answers>>
      /\ writes' = Append(writes, r) /\ at' = [at EXCEPT ![r] = a] /\ Counts(r, row, a)
  BY <1>3 DEF UpsertExecution, Writes
<1>5. Advances(r, row, receipts[r], bad, a)
 <2>1. Chains(r) BY <1>4 DEF Chains
 <2>2. UNCHANGED <<limit, disk, lost, answers, selected, drafts, wish>> BY <1>4
 <2> QED BY <1>1, <1>2, <1>4, <2>1, <2>2 DEF Advances
<1>6. Saying(row, receipts[r], bad, a) BY <1>3
<1> QED BY <1>5, <1>6, AdvanceStep

\* pushReceipt.
LEMMA PushStep ==
  ASSUME SwarmInv, NEW r \in Runs, NEW type \in ReceiptTypes, NEW receipt, NEW next, NEW in, NEW bad,
         at[r].next \in Live \ {"answer"}, ~Contains(writes, r),
         PushReceipt(r, type, receipt, next, in), degraded' = [degraded EXCEPT ![r] = bad],
         UNCHANGED <<selected, drafts, wish>>,
         Saying(rows[r], [receipts[r] EXCEPT ![type] = receipt], bad, [next |-> next, in |-> in])
  PROVE  SwarmInv'
<1> DEFINE slips == [receipts[r] EXCEPT ![type] = receipt]
<1>1. rows' = [rows EXCEPT ![r] = rows[r]] /\ wish[r] = "none" BY Known DEF PushReceipt
<1>2. receipts' = [receipts EXCEPT ![r] = slips] BY DEF PushReceipt
<1>3. rejects' \in BOOLEAN BY DEF PushReceipt, SwarmInv, Types
<1>4. Advances(r, rows[r], slips, bad, [next |-> next, in |-> in])
 <2> HIDE DEF slips
 <2> QED BY <1>1, <1>2, <1>3 DEF Advances, PushReceipt, Writes, Chains, Counts
<1> QED BY <1>4, AdvanceStep

\* The catch of a phase, for a call that throws and for a write that
\* rejects.
LEMMA CatchStep ==
  ASSUME SwarmInv, NEW r \in Runs, NEW try, NEW chained, Catch(r, try, chained),
         at[r].next \in Live \ {"answer"},
         try \in {"plan", "reflection"} => at[r].next \in Unproven,
         \/ chained = writes /\ ~Contains(writes, r) /\ UNCHANGED <<file, rejects>>
         \/ writes # <<>> /\ Head(writes) = r /\ chained = Tail(writes) /\ file' \in {"whole", "cut"},
         UNCHANGED <<limit, receipts, disk, lost, credits, answers, selected, drafts, wish>>, rejects' \in BOOLEAN
  PROVE  SwarmInv'
<1> DEFINE failed == [Becomes(r, "failed", "failed") EXCEPT !.planFailed = TRUE]
           worse == Becomes(r, "degraded", "degraded")
<1>1. /\ rows[r] \in Row /\ receipts[r] \in Slips /\ wish[r] = "none"
      /\ receipts' = [receipts EXCEPT ![r] = receipts[r]]
      /\ Fits(at[r], rows[r], receipts[r], degraded[r])
  BY Known
<1>2. /\ failed \in Row /\ failed.status = "failed"
      /\ worse \in Row /\ worse.status = "degraded" /\ worse.framework = "degraded"
  BY <1>1 DEF Row, Becomes
<1> HIDE DEF failed, worse
<1>3. ASSUME NEW row, NEW a, rows' = [rows EXCEPT ![r] = row], at' = [at EXCEPT ![r] = a],
             degraded' = [degraded EXCEPT ![r] = TRUE], executions' = Upserted(r), writes' = Append(chained, r),
             Saying(row, receipts[r], TRUE, a)
      PROVE  SwarmInv'
 <2>1. Chains(r) /\ Counts(r, row, a) BY <1>3 DEF Chains, Counts
 <2>2. Advances(r, row, receipts[r], TRUE, a) BY <1>1, <1>3, <2>1 DEF Advances
 <2> QED BY <1>3, <2>2, AdvanceStep
<1>4. CASE try = "plan" /\ PlanFails(r, chained)
 <2> DEFINE a == [next |-> "outcome", in |-> "none"]
 <2>1. receipts[r]["proof"] = NoReceipt BY <1>1, <1>4 DEF Fits
 <2>2. a \in Step /\ TryFits(a) /\ a.next = "outcome" BY DEF Step, Live, Unproven, TryFits
 <2> HIDE DEF a
 <2>3. Saying(failed, receipts[r], TRUE, a)
   BY <1>1, <1>2, <2>1, <2>2 DEF Saying, Fits, Backed, Live, Unproven, Lost, Closing
 <2>4. rows' = [rows EXCEPT ![r] = failed] /\ at' = [at EXCEPT ![r] = a] BY <1>4 DEF PlanFails, failed, a
 <2> QED BY <1>3, <1>4, <2>3, <2>4 DEF PlanFails
<1>5. CASE try = "reflection" /\ PhaseFails(r, "proof", chained)
 <2> DEFINE a == [next |-> "proof", in |-> "none"]
 <2>1. receipts[r]["proof"] = NoReceipt BY <1>1, <1>5 DEF Fits
 <2>2. a \in Step /\ TryFits(a) /\ a.next = "proof" BY DEF Step, Live, Unproven, TryFits
 <2> HIDE DEF a
 <2>3. Saying(worse, receipts[r], TRUE, a)
   BY <1>1, <1>2, <2>1, <2>2 DEF Saying, Fits, Backed, Live, Unproven, Lost, Closing
 <2>4. rows' = [rows EXCEPT ![r] = worse] /\ at' = [at EXCEPT ![r] = a] BY <1>5 DEF PhaseFails, worse, a
 <2> QED BY <1>3, <1>5, <2>3, <2>4 DEF PhaseFails
<1>6. CASE try = "proof" /\ PhaseFails(r, "credit", chained)
 <2> DEFINE a == [next |-> "credit", in |-> "none"]
 <2>2. a \in Step /\ TryFits(a) /\ a.next = "credit" BY DEF Step, Live, Closing, TryFits
 <2> HIDE DEF a
 <2>3. Saying(worse, receipts[r], TRUE, a)
   BY <1>1, <1>2, <2>2 DEF Saying, Fits, Judged, ProofTold, Backed, Live, Unproven, Lost, Closing
 <2>4. rows' = [rows EXCEPT ![r] = worse] /\ at' = [at EXCEPT ![r] = a] BY <1>6 DEF PhaseFails, worse, a
 <2> QED BY <1>3, <1>6, <2>3, <2>4 DEF PhaseFails
<1> QED BY <1>4, <1>5, <1>6 DEF Catch

----
\* Each step of a run says what fits.

Desk == <<selected, drafts, wish>>

\* A run begins, with its session read.
LEMMA BeginStep ==
  ASSUME SwarmInv, NEW r \in Runs, NEW active \in BOOLEAN, Begin(r, active), UNCHANGED Desk
  PROVE  SwarmInv'
<1> DEFINE row == [NoRow EXCEPT !.status = "planning", !.framework = "running"]
           a == [next |-> "plan", in |-> "none"]
<1>1. at[r].next = "begin" /\ ~Contains(writes, r) /\ Placed(r) /\ degraded[r] \in BOOLEAN
  BY DEF Begin, Takes, SwarmInv, RunHolds, Types
<1>2. wish[r] = "none" /\ receipts[r] = Unanchored /\ ~degraded[r] BY <1>1 DEF Placed, Untouched
<1>3. row \in Row /\ row.status = "planning" /\ ~row.planFailed BY DEF Row, NoRow
<1>4. /\ Unanchored \in Slips /\ Unanchored["proof"] = NoReceipt
      /\ \A t \in ReceiptTypes : Unanchored[t].status # "failed"
  BY DEF Slips, Slip, Unanchored, ReceiptTypes, NoReceipt
<1>5. a \in Step /\ TryFits(a) /\ a.next = "plan" BY DEF Step, Live, Unproven, TryFits
<1>6. UpsertExecution(r, row, "plan", "none") /\ UNCHANGED credits BY DEF Begin
<1>7. Saying(row, receipts[r], degraded[r] \/ ~active, a)
 <2> HIDE DEF row, a
 <2> QED
   BY <1>1, <1>2, <1>3, <1>4, <1>5 DEF Saying, Fits, CleanSoFar, Backed, Live, Unproven, Lost, Closing, Remembers
<1>8. degraded' = [degraded EXCEPT ![r] = degraded[r] \/ ~active] BY DEF Begin, Outcome
<1>9. Counts(r, row, a) /\ at[r].next \in (Live \cup {"begin"}) \ {"answer"} BY <1>1, <1>6 DEF Counts
<1> HIDE DEF row
<1> QED BY <1>1, <1>2, <1>6, <1>7, <1>8, <1>9, UpsertStep DEF Desk

\* The plan service has recorded the plan.
LEMMA PlanRecordedStep ==
  ASSUME SwarmInv, NEW r \in Runs, PlanRecorded(r), UNCHANGED Desk
  PROVE  SwarmInv'
<1> DEFINE row == [rows[r] EXCEPT !.status = "running"]
           a == [next |-> "outcome", in |-> "plan"]
<1>1. at[r].next = "plan" /\ ~Contains(writes, r) /\ at[r].next \in Live \ {"answer"}
  BY DEF PlanRecorded, Takes, Live, Unproven, Lost, Closing
<1> USE DEF Ready
<1>2. Ready(r) BY <1>1, Known
<1>3. row \in Row /\ row.status = "running" /\ row.planFailed = rows[r].planFailed /\ row.memory = rows[r].memory
  BY <1>2 DEF Row
<1>4. a \in Step /\ TryFits(a) /\ a.next = "outcome" BY DEF Step, Live, Unproven, Lost, Closing, TryFits
<1>5. UpsertExecution(r, row, "outcome", "plan") BY <1>2 DEF PlanRecorded, Running
<1>6. degraded' = [degraded EXCEPT ![r] = degraded[r]] BY <1>2 DEF PlanRecorded, Outcome
<1>7. Saying(row, receipts[r], degraded[r], a)
 <2> HIDE DEF row, a
 <2> QED
   BY <1>1, <1>2, <1>3, <1>4 DEF Saying, Fits, CleanSoFar, Judged, ProofTold, Backed, NoReceipt,
      Live, Unproven, Lost, Closing, Remembers
<1>8. Counts(r, row, a) BY <1>1 DEF PlanRecorded, Counts
<1> HIDE DEF row
<1> QED BY <1>1, <1>2, <1>5, <1>6, <1>7, <1>8, UpsertStep DEF Desk

\* The plan was sent by the bridge.
LEMMA PlannedStep ==
  ASSUME SwarmInv, NEW r \in Runs, Planned(r), UNCHANGED Desk
  PROVE  SwarmInv'
<1> DEFINE row == [rows[r] EXCEPT !.status = "running"]
           a == [next |-> "outcome", in |-> "plan"]
<1>1. at[r].next = "planned" /\ ~Contains(writes, r) /\ at[r].next \in Live \ {"answer"}
  BY DEF Planned, Takes, Live, Unproven, Lost, Closing
<1> USE DEF Ready
<1>2. Ready(r) BY <1>1, Known
<1>3. row \in Row /\ row.status = "running" /\ row.planFailed = rows[r].planFailed /\ row.memory = rows[r].memory
  BY <1>2 DEF Row
<1>4. a \in Step /\ TryFits(a) /\ a.next = "outcome" BY DEF Step, Live, Unproven, Lost, Closing, TryFits
<1>5. UpsertExecution(r, row, "outcome", "plan") BY <1>2 DEF Planned, Running
<1>6. degraded' = [degraded EXCEPT ![r] = degraded[r]] BY <1>2 DEF Planned, Outcome
<1>7. Saying(row, receipts[r], degraded[r], a)
 <2> HIDE DEF row, a
 <2> QED
   BY <1>1, <1>2, <1>3, <1>4 DEF Saying, Fits, CleanSoFar, Judged, ProofTold, Backed, NoReceipt,
      Live, Unproven, Lost, Closing, Remembers
<1>8. Counts(r, row, a) BY <1>1 DEF Planned, Counts
<1> HIDE DEF row
<1> QED BY <1>1, <1>2, <1>5, <1>6, <1>7, <1>8, UpsertStep DEF Desk

\* A plan that failed fails the run so far.
LEMMA RunOutcomeStep ==
  ASSUME SwarmInv, NEW r \in Runs, RunOutcome(r), UNCHANGED Desk
  PROVE  SwarmInv'
<1> DEFINE row == [rows[r] EXCEPT !.status = IF @ = "failed" THEN @ ELSE "succeeded"]
           a == [next |-> "reflect", in |-> "none"]
<1>1. at[r].next = "outcome" /\ ~Contains(writes, r) /\ at[r].next \in Live \ {"answer"}
  BY DEF RunOutcome, Takes, Live, Unproven, Lost, Closing
<1> USE DEF Ready
<1>2. Ready(r) BY <1>1, Known
<1>3. row \in Row /\ row.status \in {"failed", "succeeded"} /\ row.planFailed = rows[r].planFailed BY <1>2 DEF Row
<1>4. a \in Step /\ TryFits(a) /\ a.next = "reflect" BY DEF Step, Live, Unproven, Lost, Closing, TryFits
<1>5. UpsertExecution(r, row, "reflect", "none") BY <1>2 DEF RunOutcome
<1>6. degraded' = [degraded EXCEPT ![r] = degraded[r]] BY <1>2 DEF RunOutcome, Outcome
<1>7. Saying(row, receipts[r], degraded[r], a)
 <2> HIDE DEF row, a
 <2> QED
   BY <1>1, <1>2, <1>3, <1>4 DEF Saying, Fits, CleanSoFar, Judged, ProofTold, Backed, NoReceipt,
      Live, Unproven, Lost, Closing, Remembers
<1>8. Counts(r, row, a) BY <1>1 DEF RunOutcome, Counts
<1> HIDE DEF row
<1> QED BY <1>1, <1>2, <1>5, <1>6, <1>7, <1>8, UpsertStep DEF Desk

\* The reflection is created.
LEMMA ReflectedStep ==
  ASSUME SwarmInv, NEW r \in Runs, Reflected(r), UNCHANGED Desk
  PROVE  SwarmInv'
<1> DEFINE row == [rows[r] EXCEPT !.status = "reflected"]
           a == [next |-> "anchor", in |-> "reflection"]
<1>1. at[r].next = "reflect" /\ ~Contains(writes, r) /\ at[r].next \in Live \ {"answer"}
  BY DEF Reflected, Takes, Live, Unproven, Lost, Closing
<1> USE DEF Ready
<1>2. Ready(r) BY <1>1, Known
<1>3. row \in Row /\ row.status = "reflected" /\ row.planFailed = rows[r].planFailed /\ row.memory = rows[r].memory
  BY <1>2 DEF Row
<1>4. a \in Step /\ TryFits(a) /\ a.next = "anchor" BY DEF Step, Live, Unproven, Lost, Closing, TryFits
<1>5. UpsertExecution(r, row, "anchor", "reflection") BY <1>2 DEF Reflected
<1>6. degraded' = [degraded EXCEPT ![r] = degraded[r]] BY <1>2 DEF Reflected, Outcome
<1>7. Saying(row, receipts[r], degraded[r], a)
 <2> HIDE DEF row, a
 <2> QED
   BY <1>1, <1>2, <1>3, <1>4 DEF Saying, Fits, CleanSoFar, Judged, ProofTold, Backed, NoReceipt,
      Live, Unproven, Lost, Closing, Remembers
<1>8. Counts(r, row, a) BY <1>1 DEF Reflected, Counts
<1> HIDE DEF row
<1> QED BY <1>1, <1>2, <1>5, <1>6, <1>7, <1>8, UpsertStep DEF Desk

\* The reflection is stored, anchored or not.
LEMMA StoredStep ==
  ASSUME SwarmInv, NEW r \in Runs, NEW anchor \in {"signed", "unsigned", "throws"}, Stored(r, anchor), UNCHANGED Desk
  PROVE  SwarmInv'
<1> DEFINE row == [rows[r] EXCEPT !.status = "stored", !.memory = TRUE,
                                   !.tx = IF anchor = "signed" THEN "anchor" ELSE "none"]
           a == [next |-> "reflectionReceipt", in |-> "reflection"]
<1>1. at[r].next = "anchor" /\ ~Contains(writes, r) /\ at[r].next \in Live \ {"answer"}
  BY DEF Stored, Takes, Live, Unproven, Lost, Closing
<1> USE DEF Ready
<1>2. Ready(r) BY <1>1, Known
<1>3. row \in Row /\ row.status = "stored" /\ row.planFailed = rows[r].planFailed /\ row.memory BY <1>2 DEF Row
<1>4. a \in Step /\ TryFits(a) /\ a.next = "reflectionReceipt" BY DEF Step, Live, Unproven, Lost, Closing, TryFits
<1>5. UpsertExecution(r, row, "reflectionReceipt", "reflection") BY <1>2 DEF Stored
<1>6. degraded' = [degraded EXCEPT ![r] = degraded[r] \/ anchor = "throws"] BY <1>2 DEF Stored, Outcome
<1>7. Saying(row, receipts[r], degraded[r] \/ anchor = "throws", a)
 <2> HIDE DEF row, a
 <2> QED
   BY <1>1, <1>2, <1>3, <1>4 DEF Saying, Fits, CleanSoFar, Judged, ProofTold, Backed, NoReceipt,
      Live, Unproven, Lost, Closing, Remembers
<1>8. Counts(r, row, a) BY <1>1 DEF Stored, Counts
<1> HIDE DEF row
<1> QED BY <1>1, <1>2, <1>5, <1>6, <1>7, <1>8, UpsertStep DEF Desk

\* The memory is written to the record.
LEMMA RememberedStep ==
  ASSUME SwarmInv, NEW r \in Runs, Remembered(r), UNCHANGED Desk
  PROVE  SwarmInv'
<1> DEFINE row == rows[r]
           a == [next |-> "proof", in |-> "reflection"]
<1>1. at[r].next = "remembered" /\ ~Contains(writes, r) /\ at[r].next \in Live \ {"answer"}
  BY DEF Remembered, Takes, Live, Unproven, Lost, Closing
<1> USE DEF Ready
<1>2. Ready(r) BY <1>1, Known
<1>3. row \in Row /\ row = rows[r] BY <1>2 DEF Row
<1>4. a \in Step /\ TryFits(a) /\ a.next = "proof" BY DEF Step, Live, Unproven, Lost, Closing, TryFits
<1>5. UpsertExecution(r, row, "proof", "reflection") BY <1>2 DEF Remembered
<1>6. degraded' = [degraded EXCEPT ![r] = degraded[r]] BY <1>2 DEF Remembered, Outcome
<1>7. Saying(row, receipts[r], degraded[r], a)
 <2> HIDE DEF row, a
 <2> QED
   BY <1>1, <1>2, <1>3, <1>4 DEF Saying, Fits, CleanSoFar, Judged, ProofTold, Backed, NoReceipt,
      Live, Unproven, Lost, Closing, Remembers
<1>8. Counts(r, row, a) BY <1>1 DEF Remembered, Counts
<1> HIDE DEF row
<1> QED BY <1>1, <1>2, <1>5, <1>6, <1>7, <1>8, UpsertStep DEF Desk

\* The step after the proof was sent.
AfterProof(tx) ==
  IF tx.accepted THEN "proofReceipt" ELSE IF tx.signed THEN "lostReceipt" ELSE "failedReceipt"

\* The proof is sent: accepted, refused once it was signed, or before.
LEMMA ProofSentStep ==
  ASSUME SwarmInv, NEW r \in Runs, NEW tx \in Transactions, ProofSent(r, tx), UNCHANGED Desk
  PROVE  SwarmInv'
<1> DEFINE row == [rows[r] EXCEPT !.status = ProofStatus(tx), !.tx = IF tx.signed THEN "proof" ELSE @]
           a == [next |-> AfterProof(tx), in |-> "proof"]
<1>1. at[r].next = "proof" /\ ~Contains(writes, r) /\ at[r].next \in Live \ {"answer"}
  BY DEF ProofSent, Takes, Live, Unproven, Lost, Closing
<1> USE DEF Ready
<1>2. Ready(r) BY <1>1, Known
<1>3. /\ row \in Row /\ row.planFailed = rows[r].planFailed /\ row.memory = rows[r].memory
      /\ tx.accepted \in BOOLEAN
      /\ tx.accepted => row.status = "verified" /\ row.tx = "proof"
      /\ ~tx.accepted => row.status = "degraded"
  BY <1>2 DEF Row, ProofStatus, Transactions
<1>4. a \in Step /\ TryFits(a) /\ a.next = AfterProof(tx)
  BY DEF Step, Live, Unproven, Lost, Closing, TryFits, AfterProof
<1>5. UpsertExecution(r, row, AfterProof(tx), "proof") BY <1>2 DEF ProofSent, AfterProof
<1>6. degraded' = [degraded EXCEPT ![r] = degraded[r] \/ ~tx.accepted] BY <1>2 DEF ProofSent, Outcome
<1>7. Saying(row, receipts[r], degraded[r] \/ ~tx.accepted, a)
 <2> HIDE DEF row, a
 <2> QED
   BY <1>1, <1>2, <1>3, <1>4 DEF Saying, Fits, CleanSoFar, Judged, ProofTold, Backed, NoReceipt,
      Live, Unproven, Lost, Closing, Remembers, AfterProof
<1>8. Counts(r, row, a) BY <1>1 DEF ProofSent, Counts
<1> HIDE DEF row
<1> QED BY <1>1, <1>2, <1>5, <1>6, <1>7, <1>8, UpsertStep DEF Desk

\* The framework's status says what became of the run.
LEMMA ProvenStep ==
  ASSUME SwarmInv, NEW r \in Runs, Proven(r), UNCHANGED Desk
  PROVE  SwarmInv'
<1> DEFINE row == [rows[r] EXCEPT !.framework = FrameworkStatus(r)]
           a == [next |-> "credit", in |-> "proof"]
<1>1. at[r].next = "proven" /\ ~Contains(writes, r) /\ at[r].next \in Live \ {"answer"}
  BY DEF Proven, Takes, Live, Unproven, Lost, Closing
<1> USE DEF Ready
<1>2. Ready(r) BY <1>1, Known
<1>3. /\ row \in Row /\ row.status = rows[r].status /\ row.tx = rows[r].tx /\ row.planFailed = rows[r].planFailed
      /\ row.memory = rows[r].memory
      /\ degraded[r] => row.framework \in {"failed", "degraded"}
      /\ ~degraded[r] /\ rows[r].status = "verified" => row.framework = "completed"
  BY <1>2 DEF Row, FrameworkStatus
<1>4. a \in Step /\ TryFits(a) /\ a.next = "credit" BY DEF Step, Live, Unproven, Lost, Closing, TryFits
<1>5. UpsertExecution(r, row, "credit", "proof") BY <1>2 DEF Proven
<1>6. degraded' = [degraded EXCEPT ![r] = degraded[r]] BY <1>2 DEF Proven, Outcome
<1>7. Saying(row, receipts[r], degraded[r], a)
 <2> HIDE DEF row, a
 <2> QED
   BY <1>1, <1>2, <1>3, <1>4 DEF Saying, Fits, CleanSoFar, Judged, ProofTold, Backed, NoReceipt,
      Live, Unproven, Lost, Closing, Remembers
<1>8. Counts(r, row, a) BY <1>1 DEF Proven, Counts
<1> HIDE DEF row
<1> QED BY <1>1, <1>2, <1>5, <1>6, <1>7, <1>8, UpsertStep DEF Desk

\* The skill is credited with the success on record.
LEMMA CreditSkillStep ==
  ASSUME SwarmInv, NEW r \in Runs, NEW counted \in BOOLEAN, CreditSkill(r, counted), UNCHANGED Desk
  PROVE  SwarmInv'
<1> DEFINE row == rows[r]
           a == [next |-> "answer", in |-> "none"]
<1>1. at[r].next = "credit" /\ ~Contains(writes, r) /\ at[r].next \in Live \ {"answer"}
  BY DEF CreditSkill, Takes, Live, Unproven, Lost, Closing
<1> USE DEF Ready
<1>2. Ready(r) BY <1>1, Known
<1>3. row \in Row /\ row = rows[r] BY <1>2 DEF Row
<1>4. a \in Step /\ TryFits(a) /\ a.next = "answer" BY DEF Step, Live, Unproven, Lost, Closing, TryFits
<1>5. UpsertExecution(r, row, "answer", "none") BY <1>2 DEF CreditSkill
<1>6. degraded' = [degraded EXCEPT ![r] = degraded[r]] BY <1>2 DEF CreditSkill, Outcome
<1>7. Saying(row, receipts[r], degraded[r], a)
 <2> HIDE DEF row, a
 <2> QED
   BY <1>1, <1>2, <1>3, <1>4 DEF Saying, Fits, CleanSoFar, Judged, ProofTold, Backed, NoReceipt,
      Live, Unproven, Lost, Closing, Remembers
<1>8. Counts(r, row, a) BY <1>1 DEF CreditSkill, Counts
<1> HIDE DEF row
<1> QED BY <1>1, <1>2, <1>5, <1>6, <1>7, <1>8, UpsertStep DEF Desk

\* The receipt of the plan's transaction.
LEMMA PlanSentStep ==
  ASSUME SwarmInv, NEW r \in Runs, NEW tx \in Transactions, PlanSent(r, tx), UNCHANGED Desk
  PROVE  SwarmInv'
<1> DEFINE receipt == Receipt(tx)
           slips == [receipts[r] EXCEPT !["plan"] = receipt]
           a == [next |-> "planned", in |-> "plan"]
<1>1. at[r].next = "plan" /\ ~Contains(writes, r) /\ at[r].next \in Live \ {"answer"}
  BY DEF PlanSent, Takes, Live, Unproven, Lost, Closing
<1> USE DEF Ready
<1>2. Ready(r) BY <1>1, Known
<1>3. receipt \in Slip /\ tx.accepted \in BOOLEAN /\ (tx.accepted => receipt.status = "submitted")
  BY <1>1, <1>2 DEF Slip, Receipt, Transactions
<1> HIDE DEF receipt
<1>4. /\ slips \in Slips /\ slips["plan"] = receipt
      /\ \A t \in ReceiptTypes : t # "plan" => slips[t] = receipts[r][t]
  BY <1>2, <1>3 DEF Slips, ReceiptTypes
<1>5. a \in Step /\ TryFits(a) /\ a.next = "planned" BY DEF Step, Live, Unproven, Lost, Closing, TryFits
<1>6. /\ PushReceipt(r, "plan", receipt, "planned", "plan")
      /\ "plan" \in ReceiptTypes /\ "proof" \in ReceiptTypes
  BY <1>1 DEF PlanSent, Takes, ReceiptTypes, receipt
<1>7. degraded' = [degraded EXCEPT ![r] = degraded[r] \/ ~tx.accepted] BY <1>2 DEF PlanSent, Outcome
<1>8. Saying(rows[r], slips, degraded[r] \/ ~tx.accepted, a)
 <2> HIDE DEF slips, a
 <2> QED
   BY <1>1, <1>2, <1>3, <1>4, <1>5, <1>6 DEF Saying, Fits, CleanSoFar, Judged, ProofTold, Backed, Submitted,
      Live, Unproven, Lost, Closing, Remembers
<1> QED BY <1>1, <1>2, <1>6, <1>7, <1>8, PushStep DEF Desk

\* The receipt of the reflection, degraded without a signature.
LEMMA ReflectionReceiptStep ==
  ASSUME SwarmInv, NEW r \in Runs, ReflectionReceipt(r), UNCHANGED Desk
  PROVE  SwarmInv'
<1> DEFINE receipt == [status |-> IF rows[r].tx = "anchor" THEN "submitted" ELSE "degraded",
                       signed |-> rows[r].tx = "anchor"]
           slips == [receipts[r] EXCEPT !["reflection"] = receipt]
           a == [next |-> "remembered", in |-> "reflection"]
<1>1. at[r].next = "reflectionReceipt" /\ ~Contains(writes, r) /\ at[r].next \in Live \ {"answer"}
  BY DEF ReflectionReceipt, Takes, Live, Unproven, Lost, Closing
<1> USE DEF Ready
<1>2. Ready(r) BY <1>1, Known
<1>3. receipt \in Slip /\ receipt.status # "failed" BY <1>1, <1>2 DEF Slip
<1> HIDE DEF receipt
<1>4. /\ slips \in Slips /\ slips["reflection"] = receipt
      /\ \A t \in ReceiptTypes : t # "reflection" => slips[t] = receipts[r][t]
  BY <1>2, <1>3 DEF Slips, ReceiptTypes
<1>5. a \in Step /\ TryFits(a) /\ a.next = "remembered" BY DEF Step, Live, Unproven, Lost, Closing, TryFits
<1>6. /\ PushReceipt(r, "reflection", receipt, "remembered", "reflection")
      /\ "reflection" \in ReceiptTypes /\ "proof" \in ReceiptTypes
  BY <1>1 DEF ReflectionReceipt, Takes, ReceiptTypes, receipt
<1>7. degraded' = [degraded EXCEPT ![r] = degraded[r]] BY <1>2 DEF ReflectionReceipt, Outcome
<1>8. Saying(rows[r], slips, degraded[r], a)
 <2> HIDE DEF slips, a
 <2> QED
   BY <1>1, <1>2, <1>3, <1>4, <1>5, <1>6 DEF Saying, Fits, CleanSoFar, Judged, ProofTold, Backed, Submitted,
      Live, Unproven, Lost, Closing, Remembers
<1> QED BY <1>1, <1>2, <1>6, <1>7, <1>8, PushStep DEF Desk

\* The receipt of the proof, by what became of it.
LEMMA ProofReceiptStep ==
  ASSUME SwarmInv, NEW r \in Runs, ProofReceipt(r), UNCHANGED Desk
  PROVE  SwarmInv'
<1> DEFINE receipt == IF at[r].next = "proofReceipt" THEN Submitted
                      ELSE [status |-> "failed", signed |-> at[r].next = "lostReceipt"]
           slips == [receipts[r] EXCEPT !["proof"] = receipt]
           a == [next |-> "proven", in |-> "proof"]
<1>1. at[r].next \in Lost \cup {"proofReceipt"} /\ ~Contains(writes, r) /\ at[r].next \in Live \ {"answer"}
  BY DEF ProofReceipt, Takes, Live, Unproven, Lost, Closing
<1> USE DEF Ready
<1>2. Ready(r) BY <1>1, Known
<1>3. receipt \in Slip /\ (at[r].next = "proofReceipt" => receipt = Submitted) BY <1>1 DEF Slip, Submitted
<1> HIDE DEF receipt
<1>4. /\ slips \in Slips /\ slips["proof"] = receipt
      /\ \A t \in ReceiptTypes : t # "proof" => slips[t] = receipts[r][t]
  BY <1>2, <1>3 DEF Slips, ReceiptTypes
<1>5. a \in Step /\ TryFits(a) /\ a.next = "proven" BY DEF Step, Live, Unproven, Lost, Closing, TryFits
<1>6. /\ PushReceipt(r, "proof", receipt, "proven", "proof")
      /\ "proof" \in ReceiptTypes /\ "proof" \in ReceiptTypes
  BY <1>1 DEF ProofReceipt, Takes, ReceiptTypes, receipt, Lost, Submitted
<1>7. degraded' = [degraded EXCEPT ![r] = degraded[r]] BY <1>2 DEF ProofReceipt, Outcome
<1>8. Saying(rows[r], slips, degraded[r], a)
 <2> HIDE DEF slips, a
 <2> QED
   BY <1>1, <1>2, <1>3, <1>4, <1>5, <1>6 DEF Saying, Fits, CleanSoFar, Judged, ProofTold, Backed, Submitted,
      Live, Unproven, Lost, Closing, Remembers
<1> QED BY <1>1, <1>2, <1>6, <1>7, <1>8, PushStep DEF Desk

----
\* A request ends, with its answer or with an error.

Ends(r, answer) ==
  /\ at' = [at EXCEPT ![r] = [next |-> "over", in |-> "none"]]
  /\ answers' = [answers EXCEPT ![r] = answer]
  /\ UNCHANGED <<limit, executions, rows, receipts, disk, lost, degraded, credits, selected, drafts, wish>>
  /\ \/ ~Contains(writes, r) /\ UNCHANGED <<writes, file, rejects>>
     \/ writes # <<>> /\ Head(writes) = r /\ writes' = Tail(writes) /\ rejects' /\ file' \in {"whole", "cut"}
  /\ \/ answer = "error"
     \/ /\ at[r].next = "answer" /\ ~Contains(writes, r)
        /\ answer = IF degraded[r] THEN "degraded" ELSE "ok"
     \/ at[r].next = "desk" /\ ~Contains(writes, r) /\ answer = "ok"

\* The end of a request keeps the invariant.
LEMMA EndStep ==
  ASSUME SwarmInv, NEW r \in Runs, NEW answer, Ends(r, answer), rejects' \in BOOLEAN
  PROVE  SwarmInv'
<1> DEFINE a == [next |-> "over", in |-> "none"]
<1>1. Types /\ RunHolds(r) /\ DeskInv BY DEF SwarmInv
<1>2. a \in Step /\ TryFits(a) /\ a.next = "over" BY DEF Step, TryFits
<1>3. at' = [at EXCEPT ![r] = a] /\ answers' = [answers EXCEPT ![r] = answer] BY DEF Ends
<1> HIDE DEF a
<1>4. answer \in {"ok", "degraded", "error"} /\ at'[r] = a /\ answers'[r] = answer BY <1>1, <1>3 DEF Ends, Types
<1>5. UNCHANGED <<limit, executions, rows, receipts, disk, lost, degraded, credits, selected, drafts, wish>>
  BY DEF Ends
<1>6. /\ writes' \in Seq(Runs) /\ Distinct(writes') /\ ~Contains(writes', r)
      /\ \A q : q # r => (Contains(writes', q) <=> Contains(writes, q)) /\ (Saved(q)' <=> Saved(q))
      /\ file' \in {"whole", "writing", "cut"} /\ (file' = "writing" => writes' # <<>> /\ ~rejects')
 <2>1. writes \in Seq(Runs) /\ Distinct(writes) BY <1>1 DEF Types
 <2>2. CASE ~Contains(writes, r) /\ UNCHANGED <<writes, file, rejects>> BY <1>1, <2>1, <2>2 DEF Saved, Types
 <2>3. CASE writes # <<>> /\ Head(writes) = r /\ writes' = Tail(writes) /\ file' \in {"whole", "cut"}
   BY <2>1, <2>3, TailEffect DEF Saved
 <2> QED BY <2>2, <2>3 DEF Ends
<1>7. Elsewhere(r) BY <1>1, <1>3, <1>5, <1>6 DEF Elsewhere, Types
<1>8. Held(r)' <=> HeldIn(executions, r) /\ HeldIn(disk.executions, r) /\ disk.receipts[r] = receipts[r]
  BY <1>5, <1>6 DEF Held, HeldIn, Saved
<1>9. Underway(r)' /\ Credited(r)' /\ Backed(rows[r], receipts[r])' /\ Backed(disk.rows[r], disk.receipts[r])'
 <2>1. a.next \notin Live BY <1>2 DEF Live, Unproven, Lost, Closing
 <2>2. Underway(r)' BY <1>4, <2>1 DEF Underway
 <2>3. Credited(r)' BY <1>1, <1>2, <1>4, <1>5 DEF RunHolds, Credited
 <2> QED BY <1>1, <1>5, <2>2, <2>3 DEF RunHolds
<1>10. ASSUME wish[r] = "none", answer \in {"ok", "degraded"} PROVE RunHolds(r)'
 <2>1. /\ at[r].next = "answer" /\ ~Contains(writes, r)
       /\ answer = IF degraded[r] THEN "degraded" ELSE "ok"
   BY <1>1, <1>10 DEF Ends, RunHolds, Placed
 <2>2. Judged(rows[r], receipts[r], degraded[r]) /\ Held(r) /\ degraded[r] \in BOOLEAN /\ Saved(r)
       /\ (Contains(disk.executions, r) => disk.rows[r] = rows[r])
   BY <1>1, <2>1 DEF RunHolds, Underway, Fits, Live, Closing, Types, Saved
 <2>3. Held(r)' /\ disk.receipts[r] = receipts[r] BY <1>8, <2>1, <2>2 DEF Held
 <2>5. answer = "degraded" <=> degraded[r] BY <2>1, <2>2
 <2>6. Closed(r)' BY <1>4, <1>5, <2>2, <2>3, <2>5 DEF Closed
 <2>7. Placed(r)' BY <1>1, <1>2, <1>4, <1>5, <1>6 DEF RunHolds, Placed, Untouched
 <2> QED BY <1>9, <2>6, <2>7 DEF RunHolds
<1>11. ASSUME wish[r] # "none" \/ answer \notin {"ok", "degraded"} PROVE RunHolds(r)'
 <2>1. Placed(r)' BY <1>1, <1>2, <1>4, <1>5, <1>6 DEF RunHolds, Placed, Untouched
 <2>2. Closed(r)' BY <1>4, <1>5, <1>11 DEF Closed, Answered
 <2> QED BY <1>9, <2>1, <2>2 DEF RunHolds
<1>12. RunHolds(r)' BY <1>10, <1>11
<1>13. \A q \in Runs : RunHolds(q)' BY <1>7, <1>12, OthersHold
<1>14. Types'
 <2>1. at' \in [Runs -> Step] BY <1>1, <1>2, <1>3 DEF Types
 <2>2. answers' \in [Runs -> {"none", "ok", "degraded", "error"}] BY <1>1, <1>3, <1>4 DEF Types
 <2> QED BY <1>1, <1>5, <1>6, <2>1, <2>2 DEF Types, Mirrored, Distinct
<1>15. DeskInv'
 <2>1. DeskHolds(r)'
  <3>1. CASE wish[r] = "none" BY <1>5, <3>1, SwarmAssumption DEF DeskHolds, SwarmAssumption
  <3>2. CASE wish[r] # "none" /\ answer = "ok"
   <4>1. at[r].next = "desk" /\ ~Contains(writes, r) BY <1>1, <3>2 DEF Ends, RunHolds, Placed
   <4> QED BY <1>1, <1>5, <4>1 DEF DeskInv, DeskHolds, Saved
  <3>3. CASE answer # "ok" BY <1>2, <1>4, <3>3 DEF DeskHolds
  <3> QED BY <3>1, <3>2, <3>3
 <2>2. \A q \in Runs : DeskHolds(q)' BY <1>5, <1>7, <2>1, OthersAtDesk
 <2>3. Queued' = <<>> /\ ~rejects' => disk'.selected = selected' /\ disk'.drafts = drafts'
   BY <1>1, <1>5 DEF Ends, DeskInv, Queued
 <2> QED BY <1>1, <1>5, <2>2, <2>3 DEF DeskInv, Selecting
<1> QED BY <1>13, <1>14, <1>15 DEF SwarmInv

\* The steps that end a request without a write.
LEMMA OverStep ==
  ASSUME SwarmInv, NEW r \in Runs,
         \/ BeginFails(r) /\ UNCHANGED Desk
         \/ Answer(r) /\ UNCHANGED Desk
         \/ DeskAnswer(r)
  PROVE  SwarmInv'
<1>1. Types /\ TryFits(at[r]) BY DEF SwarmInv, RunHolds, Placed
<1>2. at[r].next \in {"begin", "answer", "desk"} /\ ~Contains(writes, r) BY DEF BeginFails, Answer, DeskAnswer, Takes
<1>3. at[r].in = "none" /\ at[r] \in Step BY <1>1, <1>2 DEF TryFits, Types, Step, Lost
<1>4. [at[r] EXCEPT !.next = "over"] = [next |-> "over", in |-> "none"] BY <1>3 DEF Step
<1>5. at' = [at EXCEPT ![r] = [next |-> "over", in |-> "none"]]
 <2>1. at' = [at EXCEPT ![r] = [at[r] EXCEPT !.next = "over"]] BY DEF BeginFails, Answer, DeskAnswer
 <2> QED BY <1>4, <2>1
<1>6. /\ UNCHANGED <<limit, executions, rows, receipts, disk, lost, degraded, credits, selected, drafts, wish>>
      /\ UNCHANGED <<writes, file, rejects>>
  BY DEF BeginFails, Answer, DeskAnswer, runVars, Desk
<1>7. CASE BeginFails(r) BY <1>2, <1>5, <1>6, <1>7, <1>1, EndStep DEF Ends, BeginFails, Types
<1>8. CASE Answer(r)
 <2> DEFINE answer == IF degraded[r] THEN "degraded" ELSE "ok"
 <2>1. answers' = [answers EXCEPT ![r] = answer] /\ at[r].next = "answer" BY <1>8 DEF Answer, Takes
 <2>2. Ends(r, answer) BY <1>2, <1>5, <1>6, <2>1 DEF Ends
 <2> QED BY <1>1, <1>6, <2>2, EndStep DEF Types
<1>9. CASE DeskAnswer(r)
 <2>1. answers' = [answers EXCEPT ![r] = "ok"] /\ at[r].next = "desk" BY <1>9 DEF DeskAnswer, Takes
 <2>2. Ends(r, "ok") BY <1>2, <1>5, <1>6, <2>1 DEF Ends
 <2> QED BY <1>1, <1>6, <2>2, EndStep DEF Types
<1> QED BY <1>7, <1>8, <1>9

----
\* The desk takes a request.

DeskAsks(r, request) ==
  /\ at[r].next = "begin" /\ ~Contains(writes, r)
  /\ at' = [at EXCEPT ![r] = [next |-> "desk", in |-> "none"]]
  /\ wish' = [wish EXCEPT ![r] = request]
  /\ writes' = Append(writes, r)
  /\ UNCHANGED <<runVars, answers>>
  /\ \/ request \in Chosen /\ selected' = request /\ drafts' = drafts
     \/ /\ request = "draft" /\ selected' = selected
        /\ IsSequence(drafts)' /\ OneOf(drafts', r) /\ \A q : OneOf(drafts, q) => OneOf(drafts', q)

\* A request of the desk keeps the invariant.
LEMMA AskStep ==
  ASSUME SwarmInv, NEW r \in Runs, NEW request, DeskAsks(r, request)
  PROVE  SwarmInv'
<1> DEFINE a == [next |-> "desk", in |-> "none"]
<1>1. Types /\ RunHolds(r) /\ DeskInv BY DEF SwarmInv
<1>2. a \in Step /\ TryFits(a) /\ a.next = "desk" BY DEF Step, TryFits
<1>3. at' = [at EXCEPT ![r] = a] /\ wish' = [wish EXCEPT ![r] = request] BY DEF DeskAsks
<1> HIDE DEF a
<1>4. at'[r] = a /\ wish'[r] = request /\ request # "none" /\ request \in {"draft"} \cup Chosen
  BY <1>1, <1>3, SwarmAssumption DEF DeskAsks, Types, SwarmAssumption
<1>5. UNCHANGED <<limit, executions, rows, receipts, disk, file, lost, rejects, degraded, credits, answers>>
  BY DEF DeskAsks, runVars
<1>6. /\ writes' \in Seq(Runs) /\ Distinct(writes') /\ Contains(writes', r) /\ writes' # <<>>
      /\ ~Saved(r)' /\ \A q : q # r => (Contains(writes', q) <=> Contains(writes, q)) /\ (Saved(q)' <=> Saved(q))
      /\ Queued' # <<>>
 <2>1. Chains(r) BY <1>5 DEF DeskAsks, Chains
 <2> QED BY <2>1, ChainsEffect
<1>7. Elsewhere(r) BY <1>1, <1>3, <1>5, <1>6 DEF Elsewhere, Types
<1>8. RunHolds(r)'
 <2>1. wish[r] = "none" /\ Untouched(r) /\ answers[r] = "none" /\ r \notin lost BY <1>1 DEF DeskAsks, RunHolds, Placed
 <2>2. Untouched(r)' BY <1>5, <2>1 DEF Untouched
 <2>3. Placed(r)' BY <1>2, <1>4, <1>5, <2>1, <2>2 DEF Placed
 <2>4. Underway(r)' /\ Closed(r)' /\ Credited(r)'
   BY <1>2, <1>4, <1>5, <2>1 DEF Underway, Closed, Credited, Answered, Untouched, Live, Unproven, Lost, Closing
 <2> QED BY <1>1, <1>5, <2>3, <2>4 DEF RunHolds
<1>9. \A q \in Runs : RunHolds(q)' BY <1>7, <1>8, OthersHold
<1>10. Types'
 <2>1. at' \in [Runs -> Step] /\ wish' \in [Runs -> {"none", "draft"} \cup Chosen] BY <1>1, <1>2, <1>3, <1>4 DEF Types
 <2>2. IsSequence(drafts)' BY <1>1 DEF DeskAsks, Types, IsSequence
 <2> QED BY <1>1, <1>5, <1>6, <2>1, <2>2 DEF Types, Mirrored, Distinct
<1>11. DeskInv'
 <2>1. /\ \A q : OneOf(drafts, q) => OneOf(drafts', q)
       /\ selected # "none" => selected' # "none"
   BY SwarmAssumption DEF DeskAsks, SwarmAssumption
 <2>2. DeskHolds(r)' BY <1>4, <1>6, SwarmAssumption DEF DeskHolds, DeskAsks, SwarmAssumption
 <2>3. \A q \in Runs : DeskHolds(q)' BY <1>7, <2>1, <2>2, OthersAtDesk
 <2>4. wish[r] = "none" BY <1>1 DEF DeskAsks, RunHolds, Placed
 <2>5. \A q \in Selecting : q \in Selecting' /\ wish'[q] = wish[q]
   BY <1>1, <1>3, <2>4, SwarmAssumption DEF Selecting, Types, SwarmAssumption
 <2>6. selected' = selected \/ (r \in Selecting' /\ selected' = wish'[r]) BY <1>4 DEF DeskAsks, Selecting
 <2>7. \A s \in {selected', disk'.selected} : s = "none" \/ \E q \in Selecting' : s = wish'[q]
   BY <1>1, <1>5, <2>5, <2>6 DEF DeskInv
 <2> QED BY <1>6, <2>3, <2>7 DEF DeskInv
<1> QED BY <1>9, <1>10, <1>11 DEF SwarmInv

\* A selection and a draft.
LEMMA DeskStep ==
  ASSUME SwarmInv, DeskNext
  PROVE  SwarmInv'
<1>1. ASSUME NEW r \in Runs, NEW skill \in Chosen, SelectSkill(r, skill) PROVE SwarmInv'
 <2>1. DeskAsks(r, skill) BY <1>1 DEF DeskAsks, SelectSkill, Takes, Writes
 <2> QED BY <2>1, AskStep
<1>2. ASSUME NEW r \in Runs, NEW sameMoment \in BOOLEAN, Draft(r, sameMoment) PROVE SwarmInv'
 <2>1. PICK x : x = [id |-> IF sameMoment THEN Head(drafts).id ELSE Cardinality(Drafted) + 1, of |-> r] OBVIOUS
 <2>2. drafts' = <<x>> \o drafts /\ x.of = r BY <1>2, <2>1 DEF Draft
 <2>3. PICK d : d = <<x>> \o drafts OBVIOUS
 <2>4. IsSequence(d) /\ OneOf(d, r) /\ \A q : OneOf(drafts, q) => OneOf(d, q)
   BY <2>2, <2>3, FrontEffect DEF SwarmInv, Types
 <2>5. IsSequence(drafts)' /\ OneOf(drafts', r) /\ \A q : OneOf(drafts, q) => OneOf(drafts', q)
   BY <2>2, <2>3, <2>4 DEF IsSequence
 <2>6. DeskAsks(r, "draft") BY <1>2, <2>5 DEF DeskAsks, Draft, Takes, Writes
 <2> QED BY <2>6, AskStep
<1>3. ASSUME NEW r \in Runs, DeskAnswer(r) PROVE SwarmInv' BY <1>3, OverStep
<1> QED BY <1>1, <1>2, <1>3 DEF DeskNext

----
\* The mirror's own steps.

\* The first write begins: the file is given what the mirror says.
LEMMA BeginsStep ==
  ASSUME SwarmInv, WriteBegins
  PROVE  SwarmInv'
<1>1. Types /\ DeskInv /\ \A r \in Runs : RunHolds(r) /\ DeskHolds(r) BY DEF SwarmInv, DeskInv
<1>2. /\ UNCHANGED <<limit, executions, rows, receipts, lost, writes, rejects, at, degraded, credits, answers>>
      /\ UNCHANGED <<selected, drafts, wish>>
  BY DEF WriteBegins
<1>3. /\ disk'.executions = executions /\ disk'.receipts = receipts
      /\ disk'.selected = selected /\ disk'.drafts = drafts
      /\ disk'.rows = [r \in Runs |-> IF Contains(executions, r) THEN rows[r] ELSE NoRow]
      /\ file' = "writing" /\ writes # <<>> /\ ~rejects
  BY DEF WriteBegins
<1>4. NoRow \in Row /\ NoRow.status = "none" BY DEF NoRow, Row
<1>5. Types'
 <2>1. disk'.rows \in [Runs -> Row] /\ disk'.receipts \in [Runs -> Slips] BY <1>1, <1>3, <1>4 DEF Types
 <2>2. Mirrored(executions)' /\ Mirrored(disk.executions)' BY <1>1, <1>2, <1>3 DEF Types, Mirrored
 <2>3. IsSequence(drafts)' /\ IsSequence(disk.drafts)' BY <1>1, <1>2, <1>3 DEF Types, IsSequence
 <2>4. Distinct(writes)' BY <1>1, <1>2 DEF Types, Distinct
 <2> QED BY <1>1, <1>2, <1>3, <2>1, <2>2, <2>3, <2>4 DEF Types
<1>6. ASSUME NEW r \in Runs PROVE RunHolds(r)'
 <2>1. RunHolds(r) BY <1>1
 <2>2. disk'.rows[r] = IF Contains(executions, r) THEN rows[r] ELSE NoRow BY <1>3
 <2>3. Held(r) => Held(r)' BY <1>2, <1>3 DEF Held, HeldIn
 <2>4. Placed(r)' BY <1>2, <1>3, <2>1, <2>2 DEF RunHolds, Placed, Untouched
 <2>5. Underway(r)' BY <1>2, <1>3, <2>1, <2>2, <2>3 DEF RunHolds, Underway
 <2>6. Closed(r)' BY <1>2, <1>3, <2>1, <2>2, <2>3 DEF RunHolds, Closed, Answered
 <2>7. Credited(r)' BY <1>2, <1>3, <2>1, <2>2 DEF RunHolds, Credited
 <2>8. Backed(rows[r], receipts[r])' /\ Backed(disk.rows[r], disk.receipts[r])'
   BY <1>2, <1>3, <1>4, <2>1, <2>2 DEF RunHolds, Backed
 <2> QED BY <2>4, <2>5, <2>6, <2>7, <2>8 DEF RunHolds
<1>7. DeskInv'
 <2>1. \A r \in Runs : DeskHolds(r)' BY <1>1, <1>2, <1>3 DEF DeskHolds
 <2> QED BY <1>1, <1>2, <1>3, <2>1 DEF DeskInv, Selecting
<1> QED BY <1>5, <1>6, <1>7 DEF SwarmInv

\* The first write resolves: the file is whole, with what it was given.
LEMMA ResolveStep ==
  ASSUME SwarmInv, WriteResolves
  PROVE  SwarmInv'
<1>1. Types /\ DeskInv /\ \A r \in Runs : RunHolds(r) /\ DeskHolds(r) BY DEF SwarmInv, DeskInv
<1>2. /\ UNCHANGED <<limit, executions, rows, receipts, disk, lost, rejects, at, degraded, credits, answers>>
      /\ UNCHANGED <<selected, drafts, wish>> /\ file = "writing" /\ file' = "whole"
  BY DEF WriteResolves
<1>3. /\ writes \in Seq(Runs) /\ Distinct(writes) /\ writes # <<>> /\ writes' = Tail(writes)
  BY <1>1, <1>2 DEF Types, WriteResolves
<1>4. /\ writes' \in Seq(Runs) /\ Distinct(writes') /\ ~Contains(writes', Head(writes))
      /\ \A q : q # Head(writes) => (Contains(writes', q) <=> Contains(writes, q))
      /\ Contains(writes, Head(writes)) /\ Head(writes) \in Runs
  BY <1>3, TailEffect
<1>5. \A q : (Saved(q)' <=> Saved(q)) /\ (Contains(writes', q) => Contains(writes, q)) BY <1>2, <1>4 DEF Saved
<1>6. Types' BY <1>1, <1>2, <1>4 DEF Types, Mirrored, IsSequence, Distinct
<1>7. ASSUME NEW r \in Runs PROVE RunHolds(r)' /\ DeskHolds(r)'
 <2>1. RunHolds(r) /\ DeskHolds(r) BY <1>1
 <2>2. Held(r)' <=> Held(r) BY <1>2, <1>5 DEF Held, HeldIn
 <2>3. Placed(r)' /\ Underway(r)' /\ Closed(r)' /\ Credited(r)'
   BY <1>2, <1>5, <2>1, <2>2 DEF RunHolds, Placed, Untouched, Underway, Closed, Answered, Credited
 <2> QED BY <1>2, <1>5, <2>1, <2>3 DEF RunHolds, DeskHolds
<1>8. DeskInv'
 <2>1. Queued' = Queued BY <1>2, <1>3 DEF Queued
 <2> QED BY <1>1, <1>2, <1>7, <2>1 DEF DeskInv, Selecting
<1> QED BY <1>6, <1>7, <1>8 DEF SwarmInv

\* The first write rejects: its run catches that, or ends with an error.
LEMMA RejectStep ==
  ASSUME SwarmInv, WriteRejects
  PROVE  SwarmInv'
<1>1. Types /\ writes # <<>> /\ rejects' /\ file' \in {"whole", "cut"} BY DEF SwarmInv, Types, WriteRejects
<1>2. PICK r \in Runs : r = Head(writes) /\ Contains(writes, r) BY <1>1, TailEffect DEF Types
<1>3. RunHolds(r) /\ at[r] \in Step BY <1>1, <1>2 DEF SwarmInv, Types
<1>4. UNCHANGED <<limit, receipts, disk, lost, credits, selected, drafts, wish>> BY DEF WriteRejects
<1>5. CASE at[r].in = "none"
 <2>1. Ends(r, "error") BY <1>1, <1>2, <1>4, <1>5 DEF Ends, WriteRejects
 <2> QED BY <1>1, <2>1, EndStep DEF WriteRejects
<1>6. CASE at[r].in # "none"
 <2>1. Catch(r, at[r].in, Tail(writes)) /\ UNCHANGED answers BY <1>2, <1>6 DEF WriteRejects
 <2>2. /\ at[r].next \in Live \ {"answer"}
       /\ at[r].in \in {"plan", "reflection"} => at[r].next \in Unproven
   BY <1>3, <1>6 DEF RunHolds, Placed, TryFits, Step, Live, Unproven, Lost, Closing
 <2>3. rejects' \in BOOLEAN BY DEF WriteRejects
 <2> QED BY <1>1, <1>2, <1>4, <2>1, <2>2, <2>3, CatchStep
<1> QED BY <1>5, <1>6

\* A restart: the mirror is what the file says now.
Rereads ==
  /\ executions' = disk'.executions /\ rows' = disk'.rows /\ receipts' = disk'.receipts
  /\ selected' = disk'.selected /\ drafts' = disk'.drafts
  /\ file' = "whole" /\ writes' = <<>> /\ rejects' = FALSE
  /\ at' = [r \in Runs |-> IF at[r].next = "begin" THEN at[r] ELSE [next |-> "over", in |-> "none"]]
  /\ UNCHANGED <<limit, degraded, credits, answers, wish>>

\* No request is under way afterwards, and nothing is still to be written.
LEMMA RereadEffect ==
  ASSUME SwarmInv, Rereads
  PROVE  /\ writes' \in Seq(Runs) /\ Distinct(writes') /\ \A r : ~Contains(writes', r) /\ Saved(r)'
         /\ at' \in [Runs -> Step]
         /\ \A r \in Runs :
               /\ at[r].next = "begin" => at'[r] = at[r]
               /\ at[r].next # "begin" => at'[r].next = "over" /\ TryFits(at'[r])
               /\ at'[r].next \in {"begin", "over"} /\ Underway(r)'
               /\ answers[r] # "none" => at[r].next = "over" /\ ~Contains(writes, r) /\ Saved(r)
<1> DEFINE over == [next |-> "over", in |-> "none"]
<1>1. at \in [Runs -> Step] /\ \A r \in Runs : Placed(r) BY DEF SwarmInv, Types, RunHolds
<1>2. over \in Step /\ TryFits(over) /\ over.next = "over" BY DEF Step, TryFits
<1>3. writes' = <<>> /\ at' = [r \in Runs |-> IF at[r].next = "begin" THEN at[r] ELSE over] BY DEF Rereads
<1> HIDE DEF over
<1>4. writes' \in Seq(Runs) /\ Distinct(writes') /\ \A r : ~Contains(writes', r) /\ Saved(r)'
  BY <1>3 DEF Distinct, Contains, Saved
<1>5. ASSUME NEW r \in Runs
      PROVE  /\ at[r].next = "begin" => at'[r] = at[r]
             /\ at[r].next # "begin" => at'[r].next = "over" /\ TryFits(at'[r])
             /\ at'[r].next \in {"begin", "over"} /\ Underway(r)'
             /\ answers[r] # "none" => at[r].next = "over" /\ ~Contains(writes, r) /\ Saved(r)
 <2>1. at'[r] = IF at[r].next = "begin" THEN at[r] ELSE over BY <1>3
 <2>2. answers[r] # "none" => at[r].next = "over" /\ ~Contains(writes, r) BY <1>1 DEF Placed
 <2> QED BY <1>2, <2>1, <2>2 DEF Underway, Saved, Live, Unproven, Lost, Closing
<1> QED BY <1>1, <1>2, <1>3, <1>4, <1>5

\* The file was whole, or as good as that: what was answered is read back.
LEMMA WholeStep ==
  ASSUME SwarmInv, Rereads, UNCHANGED <<disk, lost>>
  PROVE  SwarmInv'
<1>1. Types /\ DeskInv /\ \A r \in Runs : RunHolds(r) /\ DeskHolds(r) BY DEF SwarmInv, DeskInv
<1>2. /\ executions' = disk.executions /\ rows' = disk.rows /\ receipts' = disk.receipts
      /\ selected' = disk.selected /\ drafts' = disk.drafts
      /\ UNCHANGED <<limit, disk, lost, degraded, credits, answers, wish>>
  BY DEF Rereads
<1>3. Types'
 <2>1. Mirrored(executions)' /\ Mirrored(disk.executions)' BY <1>1, <1>2 DEF Types, Mirrored
 <2>2. IsSequence(drafts)' /\ IsSequence(disk.drafts)' BY <1>1, <1>2 DEF Types, IsSequence
 <2> QED BY <1>1, <1>2, <2>1, <2>2, RereadEffect DEF Types, Rereads
<1>4. ASSUME NEW r \in Runs PROVE RunHolds(r)'
 <2>1. RunHolds(r) BY <1>1
 <2>2. Placed(r)'
  <3>1. Untouched(r) => Untouched(r)' BY <1>2 DEF Untouched
  <3> QED BY <1>2, <2>1, <3>1, RereadEffect DEF RunHolds, Placed
 <2>3. Closed(r)'
  <3>1. Saved(r) /\ Held(r) => Held(r)' BY <1>2 DEF Held, HeldIn
  <3> QED BY <1>2, <2>1, <3>1, RereadEffect DEF RunHolds, Closed, Answered
 <2>4. Credited(r)' BY <1>2, <2>1, RereadEffect DEF RunHolds, Credited
 <2>5. Backed(rows[r], receipts[r])' /\ Backed(disk.rows[r], disk.receipts[r])' BY <1>2, <2>1 DEF RunHolds
 <2> QED BY <2>2, <2>3, <2>4, <2>5, RereadEffect DEF RunHolds
<1>5. DeskInv'
 <2>1. ASSUME NEW r \in Runs PROVE DeskHolds(r)'
  <3>1. DeskHolds(r) BY <1>1
  <3> QED BY <1>2, <3>1, RereadEffect DEF DeskHolds
 <2> QED BY <1>1, <1>2, <2>1 DEF DeskInv, Selecting
<1> QED BY <1>3, <1>4, <1>5 DEF SwarmInv

\* The file was torn: nothing is left of what was answered, and none of it is under way.
LEMMA TornStep ==
  ASSUME SwarmInv, Rereads, disk' = Empty, lost' = lost \cup {r \in Runs : at[r].next # "begin"}
  PROVE  SwarmInv'
<1>1. Types /\ DeskInv /\ \A r \in Runs : RunHolds(r) BY DEF SwarmInv
<1>2. /\ executions' = <<>> /\ disk'.executions = <<>> /\ drafts' = <<>> /\ disk'.drafts = <<>>
      /\ rows' = [r \in Runs |-> NoRow] /\ disk'.rows = rows'
      /\ receipts' = [r \in Runs |-> Unanchored] /\ disk'.receipts = receipts'
      /\ selected' = "none" /\ disk'.selected = "none"
      /\ UNCHANGED <<limit, degraded, credits, answers, wish>>
  BY DEF Rereads, Empty, Unanchored
<1>3. NoRow \in Row /\ Unanchored \in Slips /\ NoRow.status = "none" BY DEF NoRow, Row, Unanchored, Slips, Slip
<1>4. \A x : ~Contains(<<>>, x) BY DEF Contains
<1>5. Types'
 <2>1. Mirrored(executions)' /\ Mirrored(disk.executions)' BY <1>1, <1>2 DEF Types, Mirrored, Distinct
 <2>2. IsSequence(drafts)' /\ IsSequence(disk.drafts)' BY <1>2 DEF IsSequence
 <2>3. lost' \subseteq Runs BY <1>1 DEF Types
 <2>4. rows' \in [Runs -> Row] /\ receipts' \in [Runs -> Slips] BY <1>2, <1>3
 <2>5. file' = "whole" /\ rejects' = FALSE BY DEF Rereads
 <2> QED BY <1>1, <1>2, <2>1, <2>2, <2>3, <2>4, <2>5, RereadEffect DEF Types
<1>6. ASSUME NEW r \in Runs PROVE RunHolds(r)'
 <2>1. RunHolds(r) /\ rows'[r] = NoRow /\ receipts'[r] = Unanchored BY <1>1, <1>2
 <2>2. Placed(r)'
  <3>1. Untouched(r) => Untouched(r)' BY <1>2, <1>4, <2>1 DEF Untouched
  <3>2. at[r].next = "begin" => (r \in lost' <=> r \in lost) OBVIOUS
  <3> QED BY <1>2, <2>1, <3>1, <3>2, RereadEffect DEF RunHolds, Placed
 <2>3. Closed(r)'
  <3>1. answers[r] # "none" => r \in lost' BY RereadEffect
  <3> QED BY <1>2, <1>4, <2>1, <3>1 DEF RunHolds, Closed, Answered
 <2>4. Credited(r)' BY <1>2, <1>4, <2>1, RereadEffect DEF RunHolds, Credited
 <2>5. Backed(rows[r], receipts[r])' /\ Backed(disk.rows[r], disk.receipts[r])' BY <1>2, <1>3, <2>1 DEF Backed
 <2> QED BY <2>2, <2>3, <2>4, <2>5, RereadEffect DEF RunHolds
<1>7. DeskInv'
 <2>1. ASSUME NEW r \in Runs PROVE DeskHolds(r)'
  <3>1. answers[r] # "none" => r \in lost' BY RereadEffect
  <3>2. at'[r].next # "desk" BY RereadEffect
  <3> QED BY <1>2, <3>1, <3>2 DEF DeskHolds
 <2> QED BY <1>1, <1>2, <2>1 DEF DeskInv, Selecting
<1> QED BY <1>5, <1>6, <1>7 DEF SwarmInv

\* A restart, with the file whole or torn.
LEMMA RestartStep ==
  ASSUME SwarmInv, Restart
  PROVE  SwarmInv'
<1>1. Rereads BY DEF Restart, Rereads
<1>2. \/ UNCHANGED <<disk, lost>>
      \/ disk' = Empty /\ lost' = lost \cup {r \in Runs : at[r].next # "begin"}
  BY DEF Restart
<1> QED BY <1>1, <1>2, WholeStep, TornStep

\* Nothing is there at first.
LEMMA SwarmInitInv == SwarmInit => SwarmInv
<1> SUFFICES ASSUME SwarmInit PROVE SwarmInv OBVIOUS
<1>1. /\ executions = <<>> /\ writes = <<>> /\ ~rejects /\ rejects \in BOOLEAN
      /\ rows = [r \in Runs |-> NoRow] /\ receipts = [r \in Runs |-> Unanchored]
      /\ at = [r \in Runs |-> [next |-> "begin", in |-> "none"]]
      /\ degraded = [r \in Runs |-> FALSE] /\ credits = {}
      /\ answers = [r \in Runs |-> "none"] /\ wish = [r \in Runs |-> "none"]
      /\ selected = "none" /\ drafts = <<>>
  BY DEF SwarmInit, Empty, Unanchored
<1>2. /\ file = "whole" /\ lost = {} /\ disk.executions = <<>> /\ disk.rows = rows /\ disk.receipts = receipts
      /\ disk.selected = selected /\ disk.drafts = drafts
  BY DEF SwarmInit, Empty
<1>3. limit \in Nat \ {0} BY SwarmAssumption DEF SwarmInit, SwarmAssumption
<1>4. \A x : ~Contains(<<>>, x) BY DEF Contains
<1>5. NoRow \in Row /\ Unanchored \in Slips /\ NoRow.status = "none" BY DEF NoRow, Row, Unanchored, Slips, Slip
<1>6. [next |-> "begin", in |-> "none"] \in Step BY DEF Step
<1>7. Types
 <2>1. Mirrored(<<>>) BY <1>3 DEF Mirrored, Distinct
 <2>2. IsSequence(<<>>) /\ Distinct(<<>>) BY DEF IsSequence, Distinct
 <2> QED BY <1>1, <1>2, <1>3, <1>5, <1>6, <2>1, <2>2 DEF Types
<1>8. ASSUME NEW r \in Runs PROVE RunHolds(r)
 <2>1. at[r].next = "begin" /\ at[r].in = "none" /\ wish[r] = "none" /\ answers[r] = "none" /\ rows[r] = NoRow BY <1>1
 <2>2. Placed(r) BY <1>1, <1>2, <1>4, <2>1 DEF Placed, TryFits, Untouched
 <2>3. Underway(r) /\ Closed(r) /\ Credited(r)
   BY <1>1, <2>1 DEF Underway, Closed, Answered, Credited, Live, Unproven, Lost, Closing
 <2> QED BY <1>2, <1>5, <2>1, <2>2, <2>3 DEF RunHolds, Backed
<1>9. DeskInv BY <1>1, <1>2 DEF DeskInv, DeskHolds, Queued
<1> QED BY <1>7, <1>8, <1>9 DEF SwarmInv

\* Each step of a run.
LEMMA RunStep ==
  ASSUME SwarmInv, SwarmRunNext
  PROVE  SwarmInv'
<1>1. UNCHANGED Desk BY DEF SwarmRunNext, Desk
<1>2. ASSUME NEW r \in Runs, NEW try, Throws(r, try), ~Contains(writes, r), at[r].next \in Unproven,
             at[r].next \in Live \ {"answer"}
      PROVE  SwarmInv'
 <2>1. Catch(r, try, writes)
       /\ UNCHANGED <<limit, receipts, disk, file, lost, rejects, credits, answers, selected, drafts, wish>>
   BY <1>1, <1>2 DEF Throws, Desk
 <2>2. rejects' \in BOOLEAN BY <1>2 DEF Throws, SwarmInv, Types
 <2> QED BY <1>2, <2>1, <2>2, CatchStep
<1>3. ASSUME NEW r \in Runs,
             \/ Takes(r, "plan") /\ Throws(r, "plan")
             \/ Takes(r, "reflect") /\ Throws(r, "reflection")
             \/ Takes(r, "proof") /\ Throws(r, "proof")
      PROVE  SwarmInv'
 <2>1. at[r].next \in {"plan", "reflect", "proof"} /\ ~Contains(writes, r) BY <1>3 DEF Takes
 <2>2. at[r].next \in Unproven /\ at[r].next \in Live \ {"answer"} BY <2>1 DEF Live, Unproven
 <2> QED BY <1>2, <1>3, <2>1, <2>2
<1>4. ASSUME NEW r \in Runs,
             \/ \E active \in BOOLEAN : Begin(r, active)
             \/ BeginFails(r)
             \/ PlanRecorded(r)
             \/ \E tx \in Transactions : PlanSent(r, tx) \/ ProofSent(r, tx)
             \/ Planned(r)
             \/ RunOutcome(r)
             \/ Reflected(r)
             \/ \E anchor \in {"signed", "unsigned", "throws"} : Stored(r, anchor)
             \/ ReflectionReceipt(r)
             \/ Remembered(r)
             \/ ProofReceipt(r)
             \/ Proven(r)
             \/ \E counted \in BOOLEAN : CreditSkill(r, counted)
             \/ Answer(r)
      PROVE  SwarmInv'
  BY <1>1, <1>4, BeginStep, OverStep, PlanRecordedStep, PlanSentStep, ProofSentStep, PlannedStep, RunOutcomeStep,
     ReflectedStep, StoredStep, ReflectionReceiptStep, RememberedStep, ProofReceiptStep, ProvenStep, CreditSkillStep
<1> QED BY <1>3, <1>4 DEF SwarmRunNext

\* The invariant is inductive.
LEMMA SwarmNextInv == SwarmInv /\ [SwarmNext]_swarmVars => SwarmInv'
<1> SUFFICES ASSUME SwarmInv, [SwarmNext]_swarmVars PROVE SwarmInv' OBVIOUS
<1>1. CASE MirrorNext BY <1>1, BeginsStep, ResolveStep, RejectStep, RestartStep DEF MirrorNext
<1>2. CASE SwarmRunNext BY <1>2, RunStep
<1>3. CASE DeskNext BY <1>3, DeskStep
<1>4. CASE UNCHANGED swarmVars
 <2>1. /\ UNCHANGED <<limit, executions, rows, receipts, disk, file, lost, writes, rejects, at, degraded, credits>>
       /\ UNCHANGED answers /\ UNCHANGED <<selected, drafts, wish>>
   BY <1>4 DEF swarmVars
 <2>2. Types' BY <2>1 DEF SwarmInv, Types, Mirrored, IsSequence, Distinct
 <2>3. ASSUME NEW r \in Runs PROVE RunHolds(r)' /\ DeskHolds(r)'
  <3>1. RunHolds(r) /\ DeskHolds(r) BY DEF SwarmInv, DeskInv
  <3>2. (Held(r)' <=> Held(r)) /\ (Saved(r)' <=> Saved(r)) BY <2>1 DEF Held, HeldIn, Saved
  <3>3. Placed(r)' /\ Underway(r)' /\ Closed(r)' /\ Credited(r)'
    BY <2>1, <3>1, <3>2 DEF RunHolds, Placed, Untouched, Underway, Closed, Answered, Credited
  <3> QED BY <2>1, <3>1, <3>2, <3>3 DEF RunHolds, DeskHolds
 <2>4. DeskInv' BY <2>1, <2>3 DEF SwarmInv, DeskInv, Selecting, Queued
 <2> QED BY <2>2, <2>3, <2>4 DEF SwarmInv
<1> QED BY <1>1, <1>2, <1>3, <1>4 DEF SwarmNext

----
\* What follows.

\* The invariant, in every state the server can be in.
THEOREM SwarmHolds == SwarmSpec => []SwarmInv
<1> QED BY SwarmInitInv, SwarmNextInv, PTL DEF SwarmSpec

\* A run that was answered as not degraded.
LEMMA CleanIsProven ==
  ASSUME SwarmInv, NEW r \in Runs, answers[r] = "ok", wish[r] = "none"
  PROVE  /\ ~degraded[r]
         /\ Contains(executions, r) =>
               /\ receipts[r]["proof"] = Submitted /\ Judged(rows[r], receipts[r], FALSE)
               /\ rows[r] = [status |-> "verified", framework |-> "completed", planFailed |-> FALSE,
                             memory |-> TRUE, tx |-> "proof"]
<1>1. Closed(r) /\ rows[r] \in Row /\ degraded[r] \in BOOLEAN BY DEF SwarmInv, RunHolds, Types
<1>2. ~degraded[r] BY <1>1 DEF Closed, Answered
<1>3. ASSUME Contains(executions, r)
      PROVE  /\ receipts[r]["proof"] = Submitted /\ Judged(rows[r], receipts[r], FALSE)
             /\ rows[r] = [status |-> "verified", framework |-> "completed", planFailed |-> FALSE,
                           memory |-> TRUE, tx |-> "proof"]
 <2>1. Judged(rows[r], receipts[r], FALSE) BY <1>1, <1>2, <1>3 DEF Closed, Answered
 <2>2. /\ rows[r].status = "verified" /\ rows[r].framework = "completed" /\ rows[r].planFailed = FALSE
       /\ rows[r].memory = TRUE /\ rows[r].tx = "proof"
   BY <1>1, <2>1 DEF Judged, ProofTold, Backed, Row
 <2>3. receipts[r]["proof"] = Submitted BY <2>1 DEF Judged, ProofTold
 <2> QED BY <1>1, <2>1, <2>2, <2>3 DEF Row
<1> QED BY <1>2, <1>3

\* A run that is answered as not degraded has come through everything.
LEMMA RunsAreClean ==
  ASSUME SwarmInv
  PROVE  CleanRunsAreProven
<1> SUFFICES ASSUME NEW r \in Runs, answers[r] = "ok", wish[r] = "none", Contains(executions, r)
             PROVE  /\ rows[r] = [status |-> "verified", framework |-> "completed", planFailed |-> FALSE,
                                  memory |-> TRUE, tx |-> "proof"]
                    /\ receipts[r]["proof"].status = "submitted"
                    /\ \A t \in ReceiptTypes : receipts[r][t].status # "failed"
  BY DEF CleanRunsAreProven
<1>1. /\ receipts[r]["proof"] = Submitted
      /\ Judged(rows[r], receipts[r], FALSE)
      /\ rows[r] = [status |-> "verified", framework |-> "completed", planFailed |-> FALSE,
                    memory |-> TRUE, tx |-> "proof"]
  BY CleanIsProven
<1>2. \A t \in ReceiptTypes : receipts[r][t].status # "failed" BY <1>1 DEF Judged
<1> QED BY <1>1, <1>2 DEF Submitted

\* A verified record names its proof.
LEMMA VerifiedIsBacked ==
  ASSUME SwarmInv
  PROVE  VerifiedRestsOnProof
  BY DEF SwarmInv, RunHolds, Backed, VerifiedRestsOnProof

\* No receipt is called verified when it is recorded, so none is labelled
\* so.
LEMMA LabelsAreModest ==
  ASSUME SwarmInv
  PROVE  LabelsClaimNoMore
<1> SUFFICES ASSUME NEW r \in Runs, NEW t \in ReceiptTypes
             PROVE  /\ DeriveProofStatusDomain(receipts[r][t]) # "verified"
                    /\ DeriveProofStatusDomain(receipts[r][t]) = "pending" =>
                          receipts[r][t].signed /\ receipts[r][t].status = "submitted"
  BY DEF LabelsClaimNoMore
<1>1. PICK receipt \in Slip : receipt = receipts[r][t] BY DEF SwarmInv, Types, Slips
<1>2. /\ receipt.status \in {"none", "submitted", "failed", "degraded"} /\ receipt.signed \in BOOLEAN
      /\ receipt.status = "none" => ~receipt.signed
 <2>1. CASE receipt = NoReceipt BY <2>1 DEF NoReceipt
 <2>2. CASE receipt \in [status : {"submitted", "failed", "degraded"}, signed : BOOLEAN] BY <2>2
 <2> QED BY <1>1, <2>1, <2>2 DEF Slip
<1>3. /\ DeriveProofStatusDomain(receipt) # "verified"
      /\ DeriveProofStatusDomain(receipt) = "pending" => receipt.signed /\ receipt.status = "submitted"
  BY <1>2 DEF DeriveProofStatusDomain
<1> QED BY <1>1, <1>3

\* The page cannot say more than the run's answer and record do.
LEMMA ScreenIsTrue ==
  ASSUME SwarmInv
  PROVE  ScreenRestsOnProof
<1> SUFFICES ASSUME NEW r \in Runs, HasResult(r), NEW page \in Pages
             PROVE  LET screen == DeriveCommandUX(page, r) IN
                    /\ screen.proofChannel = "verified" =>
                          /\ rows[r].framework = "completed" /\ rows[r].memory /\ ~rows[r].planFailed
                          /\ \A t \in ReceiptTypes : receipts[r][t].status # "failed"
                    /\ screen.nextAction = "view_explorer" =>
                          rows[r].tx = "proof" /\ receipts[r]["proof"] = [status |-> "submitted", signed |-> TRUE]
  BY DEF ScreenRestsOnProof
<1> DEFINE screen == DeriveCommandUX(page, r)
<1>1. RunHolds(r) /\ Contains(executions, r) /\ answers[r] \in {"ok", "degraded"} BY DEF SwarmInv, HasResult
<1>2. wish[r] = "none" BY <1>1 DEF RunHolds, Placed, Untouched
<1>3. Judged(rows[r], receipts[r], degraded[r]) BY <1>1, <1>2 DEF RunHolds, Closed, Answered
<1>4. screen.proofChannel = "verified" => answers[r] = "ok" BY <1>1 DEF DeriveCommandUX, Screen, ProofChannelFromRun
<1>5. screen.nextAction = "view_explorer" => RunIsOver(r) BY DEF DeriveCommandUX, Screen
<1>6. ASSUME answers[r] = "ok"
      PROVE  /\ rows[r].framework = "completed" /\ rows[r].memory /\ ~rows[r].planFailed
             /\ \A t \in ReceiptTypes : receipts[r][t].status # "failed"
 <2>1. Judged(rows[r], receipts[r], FALSE) BY <1>1, <1>2, <1>6, CleanIsProven
 <2> QED BY <2>1 DEF Judged
<1>7. ASSUME RunIsOver(r)
      PROVE  rows[r].tx = "proof" /\ receipts[r]["proof"] = [status |-> "submitted", signed |-> TRUE]
  BY <1>3, <1>7 DEF RunIsOver, RunStatus, Judged, ProofTold, Backed, Submitted
<1> HIDE DEF screen
<1> QED BY <1>4, <1>5, <1>6, <1>7 DEF screen

\* What was answered is on disk.
LEMMA AnswersAreOnDisk ==
  ASSUME SwarmInv
  PROVE  AnsweredRunsAreOnDisk
<1> SUFFICES ASSUME NEW r \in Runs \ lost, answers[r] \in {"ok", "degraded"}, wish[r] = "none"
             PROVE  /\ Contains(disk.executions, r) =>
                          disk.rows[r].framework \in
                             (IF answers[r] = "ok" THEN {"completed"} ELSE {"degraded", "failed"})
                    /\ Len(disk.executions) < limit => Contains(disk.executions, r)
                    /\ disk.receipts[r] = receipts[r]
  BY DEF AnsweredRunsAreOnDisk
<1>1. Placed(r) /\ Closed(r) /\ Types BY DEF SwarmInv, RunHolds
<1>2. Held(r) /\ (answers[r] = "degraded" <=> degraded[r]) /\ degraded[r] \in BOOLEAN
      /\ (Contains(disk.executions, r) => Judged(disk.rows[r], disk.receipts[r], degraded[r]))
  BY <1>1 DEF Closed, Answered, Types
<1>3. ~Contains(writes, r) BY <1>1 DEF Placed
<1>4. HeldIn(disk.executions, r) /\ disk.receipts[r] = receipts[r] BY <1>2, <1>3 DEF Held, Saved
<1>5. Len(disk.executions) \in Nat /\ limit \in Nat BY <1>1 DEF Types, Mirrored
<1>6. Contains(disk.executions, r) =>
         disk.rows[r].framework \in (IF answers[r] = "ok" THEN {"completed"} ELSE {"degraded", "failed"})
  BY <1>2 DEF Judged
<1> QED BY <1>4, <1>5, <1>6 DEF HeldIn

\* A success that was counted is not taken back.
LEMMA CreditsStand ==
  ASSUME SwarmInv
  PROVE  CreditedRunsStayVerified
  BY DEF SwarmInv, RunHolds, Credited, CreditedRunsStayVerified

\* No run is in the mirror twice.
LEMMA MirrorIsSound ==
  ASSUME SwarmInv
  PROVE  MirroredOnce
  BY DEF SwarmInv, Types, Mirrored, Distinct, MirroredOnce

\* What the desk has answered is kept.
LEMMA DeskIsTrue ==
  ASSUME SwarmInv
  PROVE  DeskKeepsAnswers
<1> DEFINE Selections == {r \in Runs : wish[r] \in Chosen}
<1>1. DeskInv /\ Types /\ \A r \in Runs : Placed(r) /\ DeskHolds(r) BY DEF SwarmInv, RunHolds, DeskInv
<1>2. Selections = Selecting BY DEF Selecting
<1> HIDE DEF Selections
<1>3. ASSUME NEW r \in Drafted, r \notin lost, answers[r] = "ok"
      PROVE  /\ \E i \in DOMAIN disk.drafts : disk.drafts[i].of = r
             /\ \E i \in DOMAIN drafts :
                   /\ drafts[i].of = r
                   /\ \A draft \in ReceiptById(drafts[i].id) :
                         draft.of = r \/ \E j \in 1..(i - 1) : drafts[j].id = drafts[i].id
 <2>1. r \in Runs /\ wish[r] = "draft" /\ ~Contains(writes, r) BY <1>1, <1>3 DEF Drafted, Placed
 <2>2. OneOf(drafts, r) /\ OneOf(disk.drafts, r) BY <1>1, <1>3, <2>1 DEF DeskHolds, Saved
 <2>3. PICK i \in DOMAIN drafts : drafts[i].of = r BY <2>2 DEF OneOf
 <2>4. DOMAIN drafts = 1..Len(drafts) /\ Len(drafts) \in Nat BY <1>1, Elements DEF Types, IsSequence
 <2>5. ASSUME NEW draft \in ReceiptById(drafts[i].id), draft.of # r
       PROVE  \E j \in 1..(i - 1) : drafts[j].id = drafts[i].id
  <3>1. PICK k \in DOMAIN drafts : /\ draft = drafts[k] /\ drafts[k].id = drafts[i].id
                                   /\ \A j \in 1..(k - 1) : drafts[j].id # drafts[i].id
    BY DEF ReceiptById
  <3>2. k # i /\ i \notin 1..(k - 1) BY <2>3, <2>5, <3>1
  <3>3. k \in 1..(i - 1) BY <2>3, <2>4, <3>1, <3>2
  <3> QED BY <3>1, <3>3
 <2> QED BY <2>2, <2>3, <2>5 DEF OneOf
<1>4. ASSUME NEW r \in Selecting, r \notin lost, answers[r] = "ok"
      PROVE  /\ CurrentSkill \in {wish[q] : q \in Selecting}
             /\ Selecting = {r} => CurrentSkill = wish[r] /\ disk.selected = wish[r]
 <2>1. r \in Runs /\ wish[r] \in Chosen /\ ~Contains(writes, r) BY <1>1, <1>4 DEF Selecting, Placed
 <2>2. selected # "none" /\ disk.selected # "none" BY <1>1, <1>4, <2>1 DEF DeskHolds, Saved
 <2>3. \A s \in {selected, disk.selected} : \E q \in Selecting : s = wish[q] BY <1>1, <2>2 DEF DeskInv
 <2> QED BY <2>3 DEF CurrentSkill
<1>5. writes = <<>> /\ ~rejects => disk.selected = selected /\ disk.drafts = drafts
  BY <1>1 DEF DeskInv, Queued, Types
<1> QED BY <1>2, <1>3, <1>4, <1>5 DEF DeskKeepsAnswers, Selections

\* Nothing says of a run more than it has proven, for any number of runs,
\* however they interleave, fail and restart: ClaimsRestOnProof.
THEOREM ClaimsAlwaysRest == SwarmSpec => []ClaimsRestOnProof
<1>1. SwarmInv => ClaimsRestOnProof
  BY RunsAreClean, VerifiedIsBacked, LabelsAreModest, ScreenIsTrue DEF ClaimsRestOnProof
<1> QED BY SwarmHolds, <1>1, PTL

\* The mirror and its file keep what was answered, whatever cap the mirror
\* has and however many restarts there are, until one finds the file torn:
\* MirrorKeepsAnswers.
THEOREM AnswersAlwaysKept == SwarmSpec => []MirrorKeepsAnswers
<1>1. SwarmInv => MirrorKeepsAnswers
  BY AnswersAreOnDisk, CreditsStand, MirrorIsSound, DeskIsTrue DEF MirrorKeepsAnswers
<1> QED BY SwarmHolds, <1>1, PTL

----
\* The 0G sidecar.  A name that was told is among the names written, so
\* that whoever writes under it again is noticed; what was published of it
\* is only added to.

IsMap(f) == f = [x \in DOMAIN f |-> f[x]]
ArtifactRow(row) == [blob |-> row.blob, hash |-> row.hash, status |-> row.status]

SidecarRows ==
  /\ artifacts = [x \in DOMAIN artifacts |-> ArtifactRow(artifacts[x])]
  /\ IsMap(jobs) /\ IsMap(roots)

RefHolds(ref) ==
  /\ ref.place \in BlobPlaces /\ ref.place \in named /\ ref.uri = BlobId(ref.place)
  /\ ref.uri \in DOMAIN artifacts
  /\ ref.place \in renamed \/ VerifiesBlob(ref)

LinkHolds(l) ==
  /\ l.artifact \in named /\ l.artifact \in DOMAIN artifacts
  /\ \A place \in BlobPlaces : l.artifact # BlobId(place)
  /\ l.job \in named /\ l.job \in DOMAIN jobs
  /\ l.artifact \in renamed \/ artifacts[l.artifact].hash = l.content
  /\ l.job \in renamed \/ jobs[l.job] \in {NoOutput, l.summary}
  /\ \E a \in availability : a.n = l.published /\ a.artifact = l.artifact /\ a.root = l.content
  /\ \E r \in proofs : r.n = l.proof /\ r.artifact = l.artifact /\ r.summary = l.summary

SidecarInv ==
  /\ SidecarRows
  /\ \A ref \in blobRefs : RefHolds(ref)
  /\ \A l \in links : LinkHolds(l)
  /\ VerifiedWasAsked
  /\ LoggedRootsVerify

\* The table f is the given one with a row put in.
PutIn(f, table, id, row) ==
  /\ IsMap(f)
  /\ DOMAIN f = DOMAIN table \cup {id}
  /\ f[id] = row
  /\ \A x \in DOMAIN table : x # id => f[x] = table[x]

LEMMA PutRow ==
  ASSUME NEW table, NEW id, NEW row, NEW f, f = Put(table, id, row)
  PROVE  PutIn(f, table, id, row)
  BY DEF Put, IsMap, PutIn

LEMMA BlobIdsDiffer ==
  ASSUME NEW p \in BlobPlaces, NEW q \in BlobPlaces, BlobId(p) = BlobId(q)
  PROVE  p = q
<1>1. p = <<p[1], p[2]>> /\ q = <<q[1], q[2]>> BY SidecarAssumption DEF SidecarAssumption
<1>2. p[1] = q[1] /\ p[2] = q[2] BY DEF BlobId
<1> QED BY <1>1, <1>2

\* The row of an artifact as it is.
SameContent(x) ==
  artifacts'[x].blob = artifacts[x].blob /\ artifacts'[x].hash = artifacts[x].hash

\* A write under some names breaks nothing that was told of other names.
LEMMA ToldStays ==
  ASSUME SidecarInv, NEW names,
         named' = named \cup names, renamed' = renamed \cup (named \cap names),
         DOMAIN artifacts \subseteq DOMAIN artifacts', DOMAIN jobs \subseteq DOMAIN jobs',
         \A p \in BlobPlaces : BlobId(p) \in DOMAIN artifacts => p \in names \/ SameContent(BlobId(p)),
         \A x \in DOMAIN artifacts :
            x \in names \/ SameContent(x) \/ \E p \in BlobPlaces : x = BlobId(p),
         \A x \in DOMAIN jobs : x \in names \/ jobs'[x] = jobs[x],
         availability \subseteq availability', proofs \subseteq proofs'
  PROVE  /\ \A ref \in blobRefs : RefHolds(ref)'
         /\ \A l \in links : LinkHolds(l)'
<1>1. ASSUME NEW ref \in blobRefs
      PROVE  RefHolds(ref)'
 <2>1. RefHolds(ref) BY DEF SidecarInv
 <2>2. ref.place \in names => ref.place \in renamed' BY <2>1 DEF RefHolds
 <2>3. ref.place \notin names => SameContent(ref.uri) BY <2>1 DEF RefHolds
 <2> QED BY <2>1, <2>2, <2>3 DEF RefHolds, VerifiesBlob, SameContent
<1>2. ASSUME NEW l \in links
      PROVE  LinkHolds(l)'
 <2>1. LinkHolds(l) BY DEF SidecarInv
 <2>2. l.artifact \in renamed' \/ artifacts'[l.artifact].hash = l.content BY <2>1 DEF LinkHolds, SameContent
 <2>3. l.job \in renamed' \/ jobs'[l.job] \in {NoOutput, l.summary} BY <2>1 DEF LinkHolds
 <2>4. /\ \E a \in availability' : a.n = l.published /\ a.artifact = l.artifact /\ a.root = l.content
       /\ \E r \in proofs' : r.n = l.proof /\ r.artifact = l.artifact /\ r.summary = l.summary
   BY <2>1 DEF LinkHolds
 <2> QED BY <2>1, <2>2, <2>3, <2>4 DEF LinkHolds
<1> QED BY <1>1, <1>2

\* An artifact that is stored is not verified yet, and its rows are rows.
LEMMA StoredRow ==
  ASSUME SidecarInv, NEW id, NEW blob, NEW hash, StoreArtifact(id, blob, hash), asked' = asked
  PROVE  /\ DOMAIN artifacts' = DOMAIN artifacts \cup {id}
         /\ artifacts'[id].blob = blob /\ artifacts'[id].hash = hash
         /\ \A x \in DOMAIN artifacts : x # id => SameContent(x)
         /\ artifacts' = [x \in DOMAIN artifacts' |-> ArtifactRow(artifacts'[x])]
         /\ VerifiedWasAsked'
<1> DEFINE row == [blob |-> blob, hash |-> hash, status |-> StoredStatus(id)]
<1>1. PutIn(artifacts', artifacts, id, row)
 <2>1. artifacts' = Put(artifacts, id, row) BY DEF StoreArtifact
 <2> QED BY <2>1, PutRow
<1>2. /\ DOMAIN artifacts' = DOMAIN artifacts \cup {id} /\ artifacts'[id] = row
      /\ \A x \in DOMAIN artifacts : x # id => artifacts'[x] = artifacts[x]
      /\ IsMap(artifacts')
  BY <1>1 DEF PutIn
<1>3. row = ArtifactRow(row) /\ row.blob = blob /\ row.hash = hash /\ row.status # "verified"
  BY DEF ArtifactRow, StoredStatus
<1>4. \A x \in DOMAIN artifacts : artifacts[x] = ArtifactRow(artifacts[x]) BY DEF SidecarInv, SidecarRows
<1> HIDE DEF row
<1>5. \A x \in DOMAIN artifacts' : artifacts'[x] = ArtifactRow(artifacts'[x]) BY <1>2, <1>3, <1>4
<1>6. VerifiedWasAsked' BY <1>2, <1>3 DEF VerifiedWasAsked, SidecarInv
<1> QED BY <1>2, <1>3, <1>5, <1>6 DEF SameContent, IsMap

LEMMA PostArtifactHolds ==
  ASSUME SidecarInv, NEW id, NEW payload, PostArtifact(id, payload)
  PROVE  SidecarInv'
<1> DEFINE names == {id} \cup {p \in BlobPlaces : BlobId(p) = id}
<1>1. /\ named' = named \cup names /\ renamed' = renamed \cup (named \cap names)
      /\ StoreArtifact(id, FALSE, payload) /\ asked' = asked
      /\ jobs' = jobs /\ availability' = availability /\ proofs' = proofs /\ links' = links
      /\ blobRefs' = blobRefs /\ logged' = logged /\ roots' = roots
  BY DEF PostArtifact, WritesSidecar, daVars
<1>2. /\ DOMAIN artifacts' = DOMAIN artifacts \cup {id}
      /\ \A x \in DOMAIN artifacts : x # id => SameContent(x)
      /\ artifacts' = [x \in DOMAIN artifacts' |-> ArtifactRow(artifacts'[x])]
      /\ VerifiedWasAsked'
  BY <1>1, StoredRow
<1>3. /\ \A ref \in blobRefs : RefHolds(ref)'
      /\ \A l \in links : LinkHolds(l)'
 <2>1. \A p \in BlobPlaces : BlobId(p) \in DOMAIN artifacts => p \in names \/ SameContent(BlobId(p)) BY <1>2
 <2>2. \A x \in DOMAIN artifacts :
          x \in names \/ SameContent(x) \/ \E p \in BlobPlaces : x = BlobId(p)
   BY <1>2
 <2> HIDE DEF names
 <2> QED BY <1>1, <1>2, <2>1, <2>2, ToldStays
<1> QED BY <1>1, <1>2, <1>3 DEF SidecarInv, SidecarRows, LoggedRootsVerify

LEMMA PostJobHolds ==
  ASSUME SidecarInv, NEW id, NEW input, PostJob(id, input)
  PROVE  SidecarInv'
<1> DEFINE names == {id}
<1>1. /\ named' = named \cup names /\ renamed' = renamed \cup (named \cap names)
      /\ artifacts' = artifacts /\ asked' = asked
      /\ availability' = availability /\ proofs' = proofs /\ links' = links
      /\ blobRefs' = blobRefs /\ logged' = logged /\ roots' = roots
  BY DEF PostJob, WritesSidecar, daVars
<1>2. /\ DOMAIN jobs' = DOMAIN jobs \cup {id}
      /\ \A x \in DOMAIN jobs : x # id => jobs'[x] = jobs[x]
      /\ IsMap(jobs')
 <2>1. PICK row : jobs' = Put(jobs, id, row) BY DEF PostJob, SubmitJob
 <2>2. PutIn(jobs', jobs, id, row) BY <2>1, PutRow
 <2> QED BY <2>2 DEF PutIn
<1>3. /\ \A ref \in blobRefs : RefHolds(ref)'
      /\ \A l \in links : LinkHolds(l)'
 <2>1. \A x \in DOMAIN artifacts : SameContent(x) BY <1>1 DEF SameContent
 <2>2. \A x \in DOMAIN jobs : x \in names \/ jobs'[x] = jobs[x] BY <1>2
 <2> HIDE DEF names
 <2> QED BY <1>1, <1>2, <2>1, <2>2, ToldStays
<1> QED BY <1>1, <1>2, <1>3 DEF SidecarInv, SidecarRows, LoggedRootsVerify, VerifiedWasAsked

LEMMA PostAvailabilityHolds ==
  ASSUME SidecarInv, NEW id, NEW root, PostAvailability(id, root)
  PROVE  SidecarInv'
<1>1. /\ named' = named \cup {} /\ renamed' = renamed \cup (named \cap {})
      /\ artifacts' = artifacts /\ asked' = asked /\ jobs' = jobs
      /\ availability \subseteq availability' /\ proofs' = proofs /\ links' = links
      /\ blobRefs' = blobRefs /\ logged' = logged /\ roots' = roots
  BY DEF PostAvailability, WritesSidecar, daVars
<1>2. \A x \in DOMAIN artifacts : SameContent(x) BY <1>1 DEF SameContent
<1>3. /\ \A ref \in blobRefs : RefHolds(ref)'
      /\ \A l \in links : LinkHolds(l)'
  BY <1>1, <1>2, ToldStays
<1> QED BY <1>1, <1>3 DEF SidecarInv, SidecarRows, LoggedRootsVerify, VerifiedWasAsked

LEMMA VerifyArtifactHolds ==
  ASSUME SidecarInv, NEW id, NEW expected, VerifyArtifact(id, expected)
  PROVE  SidecarInv'
<1>1. /\ named' = named \cup {} /\ renamed' = renamed \cup (named \cap {})
      /\ jobs' = jobs /\ availability' = availability /\ proofs' = proofs /\ links' = links
      /\ blobRefs' = blobRefs /\ logged' = logged /\ roots' = roots
      /\ asked \subseteq asked' /\ <<id, expected>> \in asked' /\ id \in DOMAIN artifacts
  BY DEF VerifyArtifact, daVars
<1>2. artifacts = [x \in DOMAIN artifacts |-> ArtifactRow(artifacts[x])] BY DEF SidecarInv, SidecarRows
<1>3. /\ DOMAIN artifacts' = DOMAIN artifacts
      /\ artifacts' = [x \in DOMAIN artifacts' |-> ArtifactRow(artifacts'[x])]
      /\ \A x \in DOMAIN artifacts : SameContent(x)
      /\ \A x \in DOMAIN artifacts :
            artifacts'[x].status = "verified" =>
                artifacts[x].status = "verified" \/ (x = id /\ artifacts[x].hash = expected)
 <2>1. CASE artifacts[id].hash # expected BY <1>2, <2>1 DEF VerifyArtifact, SameContent
 <2>2. CASE artifacts[id].hash = expected
  <3> DEFINE row == [artifacts[id] EXCEPT !.status = "verified"]
  <3>1. artifacts' = [artifacts EXCEPT ![id] = row] BY <2>2 DEF VerifyArtifact
  <3>2. artifacts[id] = ArtifactRow(artifacts[id]) BY <1>1, <1>2
  <3>3. row = ArtifactRow(row) /\ row.blob = artifacts[id].blob /\ row.hash = artifacts[id].hash
    BY <3>2 DEF ArtifactRow
  <3> HIDE DEF row
  <3>4. /\ DOMAIN artifacts' = DOMAIN artifacts /\ artifacts'[id] = row
        /\ \A x \in DOMAIN artifacts : x # id => artifacts'[x] = artifacts[x]
        /\ artifacts' = [x \in DOMAIN artifacts' |-> artifacts'[x]]
    BY <1>1, <3>1
  <3>5. \A x \in DOMAIN artifacts' : artifacts'[x] = ArtifactRow(artifacts'[x]) BY <1>2, <3>3, <3>4
  <3>6. \A x \in DOMAIN artifacts : SameContent(x) BY <3>3, <3>4 DEF SameContent
  <3> QED BY <2>2, <3>4, <3>5, <3>6
 <2> QED BY <2>1, <2>2
<1>4. /\ \A ref \in blobRefs : RefHolds(ref)'
      /\ \A l \in links : LinkHolds(l)'
  BY <1>1, <1>3, ToldStays
<1>5. VerifiedWasAsked' BY <1>1, <1>3 DEF SidecarInv, VerifiedWasAsked, SameContent
<1> QED BY <1>1, <1>2, <1>3, <1>4, <1>5 DEF SidecarInv, SidecarRows, LoggedRootsVerify

\* A mirrored text: its artifact and its job are of names that are new or
\* noticed, and everything its link says has just been written.
LEMMA MirrorsHolds ==
  ASSUME SidecarInv, NEW id, \A p \in BlobPlaces : id # BlobId(p), NEW text, NEW input,
         Mirrors(id, text, input)
  PROVE  SidecarInv'
<1> DEFINE job == JobId(New)
           names == {id, job}
           l == [artifact |-> id, job |-> job, published |-> New, proof |-> New,
                 content |-> text, summary |-> JobOutput(input)]
<1>1. /\ named' = named \cup names /\ renamed' = renamed \cup (named \cap names)
      /\ StoreArtifact(id, FALSE, text) /\ asked' = asked
      /\ links' = links \cup {l}
      /\ blobRefs' = blobRefs /\ logged' = logged /\ roots' = roots
  BY DEF Mirrors, WritesSidecar, daVars
<1>2. /\ DOMAIN artifacts' = DOMAIN artifacts \cup {id} /\ artifacts'[id].hash = text
      /\ \A x \in DOMAIN artifacts : x # id => SameContent(x)
      /\ artifacts' = [x \in DOMAIN artifacts' |-> ArtifactRow(artifacts'[x])]
      /\ VerifiedWasAsked'
  BY <1>1, StoredRow
<1>3. /\ DOMAIN jobs' = DOMAIN jobs \cup {job}
      /\ jobs'[job] \in {NoOutput, JobOutput(input)}
      /\ \A x \in DOMAIN jobs : x # job => jobs'[x] = jobs[x]
      /\ IsMap(jobs')
 <2>1. PICK row \in {NoOutput, JobOutput(input)} : jobs' = Put(jobs, job, row) BY DEF Mirrors, SubmitJob, JobOutput
 <2>2. PutIn(jobs', jobs, job, row) BY <2>1, PutRow
 <2> QED BY <2>1, <2>2 DEF PutIn
<1>4. /\ availability \subseteq availability'
      /\ [n |-> New, artifact |-> id, root |-> text] \in availability'
      /\ proofs \subseteq proofs'
      /\ [n |-> New, artifact |-> id, summary |-> JobOutput(input)] \in proofs'
  BY DEF Mirrors, PublishedRoot
<1>5. ASSUME NEW k, k = l
      PROVE  LinkHolds(k)'
 <2>1. \E a \in availability' : a.n = l.published /\ a.artifact = l.artifact /\ a.root = l.content BY <1>4
 <2>2. \E r \in proofs' : r.n = l.proof /\ r.artifact = l.artifact /\ r.summary = l.summary BY <1>4
 <2> QED BY <1>1, <1>2, <1>3, <1>5, <2>1, <2>2 DEF LinkHolds
<1>6. /\ \A ref \in blobRefs : RefHolds(ref)'
      /\ \A k \in links : LinkHolds(k)'
 <2>1. \A p \in BlobPlaces : BlobId(p) \in DOMAIN artifacts => p \in names \/ SameContent(BlobId(p)) BY <1>2
 <2>2. \A x \in DOMAIN artifacts :
          x \in names \/ SameContent(x) \/ \E p \in BlobPlaces : x = BlobId(p)
   BY <1>2
 <2>3. \A x \in DOMAIN jobs : x \in names \/ jobs'[x] = jobs[x] BY <1>3
 <2> HIDE DEF names
 <2> QED BY <1>1, <1>2, <1>3, <1>4, <2>1, <2>2, <2>3, ToldStays
<1> HIDE DEF l
<1> QED BY <1>1, <1>2, <1>3, <1>5, <1>6 DEF SidecarInv, SidecarRows, LoggedRootsVerify

\* A blob that is put in its place, and the reference that is answered.
LEMMA PutsBlobKeeps ==
  ASSUME SidecarInv, NEW place \in BlobPlaces, NEW data, PutsBlob(place, data), asked' = asked,
         jobs' = jobs, availability' = availability, links' = links, proofs \subseteq proofs'
  PROVE  /\ artifacts' = [x \in DOMAIN artifacts' |-> ArtifactRow(artifacts'[x])]
         /\ \A ref \in blobRefs' : RefHolds(ref)'
         /\ \A l \in links' : LinkHolds(l)'
         /\ VerifiedWasAsked'
<1> DEFINE names == {place}
           new == [place |-> place, uri |-> BlobId(place), checksum |-> data]
<1>1. /\ named' = named \cup names /\ renamed' = renamed \cup (named \cap names)
      /\ StoreArtifact(BlobId(place), TRUE, data) /\ blobRefs' = blobRefs \cup {new}
  BY DEF PutsBlob, WritesSidecar
<1>2. /\ DOMAIN artifacts' = DOMAIN artifacts \cup {BlobId(place)}
      /\ artifacts'[BlobId(place)].blob = TRUE /\ artifacts'[BlobId(place)].hash = data
      /\ \A x \in DOMAIN artifacts : x # BlobId(place) => SameContent(x)
      /\ artifacts' = [x \in DOMAIN artifacts' |-> ArtifactRow(artifacts'[x])]
      /\ VerifiedWasAsked'
  BY <1>1, StoredRow
<1>3. RefHolds(new)' BY <1>1, <1>2 DEF RefHolds, VerifiesBlob
<1>4. /\ \A ref \in blobRefs : RefHolds(ref)'
      /\ \A l \in links : LinkHolds(l)'
 <2>1. \A p \in BlobPlaces : BlobId(p) \in DOMAIN artifacts => p \in names \/ SameContent(BlobId(p))
   BY <1>2, BlobIdsDiffer
 <2>2. \A x \in DOMAIN artifacts :
          x \in names \/ SameContent(x) \/ \E p \in BlobPlaces : x = BlobId(p)
   BY <1>2
 <2> HIDE DEF names
 <2> QED BY <1>1, <1>2, <2>1, <2>2, ToldStays
<1> HIDE DEF new
<1> QED BY <1>1, <1>2, <1>3, <1>4

LEMMA PutBlobHolds ==
  ASSUME SidecarInv, NEW place \in BlobPlaces, NEW data, PutBlob(place, data)
  PROVE  SidecarInv'
<1>1. /\ PutsBlob(place, data) /\ asked' = asked /\ jobs' = jobs /\ availability' = availability
      /\ links' = links /\ proofs' = proofs /\ logged' = logged /\ roots' = roots
  BY DEF PutBlob, daVars
<1> QED BY <1>1, PutsBlobKeeps DEF SidecarInv, SidecarRows, LoggedRootsVerify

\* The root of a record is that of a batch of it alone.
LEMMA RootOfOne ==
  ASSUME NEW payload, NEW subject
  PROVE  LET record == Record(payload, subject, "persist")
         IN  record.root = BatchRoot(<<record>>)
<1> DEFINE record == Record(payload, subject, "persist")
<1>1. record.root = CombineRoot(<<record.leaf>>) BY DEF Record, RecordRoot
<1> HIDE DEF record
<1>2. [i \in DOMAIN <<record>> |-> <<record>>[i].leaf] = <<record.leaf>> OBVIOUS
<1>3. BatchRoot(<<record>>) = CombineRoot(<<record.leaf>>) BY <1>2 DEF BatchRoot
<1> QED BY <1>1, <1>3 DEF record

LEMMA PersistArtifactHolds ==
  ASSUME SidecarInv, NEW place \in BlobPlaces, NEW subject, NEW payload,
         PersistArtifact(place, subject, payload)
  PROVE  SidecarInv'
<1> DEFINE record == Record(payload, subject, "persist")
           root == BatchRoot(<<record>>)
<1>1. /\ PutsBlob(place, payload) /\ asked' = asked /\ jobs' = jobs
      /\ availability' = availability /\ links' = links /\ proofs \subseteq proofs'
      /\ logged' = logged \cup {record} /\ roots' = Put(roots, root, "batched")
  BY DEF PersistArtifact
<1>2. record.root = root BY RootOfOne
<1> HIDE DEF record, root
<1>3. /\ DOMAIN roots' = DOMAIN roots \cup {root}
      /\ IsMap(roots')
 <2>1. PutIn(roots', roots, root, "batched") BY <1>1, PutRow
 <2> QED BY <2>1 DEF PutIn
<1>4. LoggedRootsVerify' BY <1>1, <1>2, <1>3 DEF SidecarInv, LoggedRootsVerify
<1> QED BY <1>1, <1>3, <1>4, PutsBlobKeeps DEF SidecarInv, SidecarRows

\* The routes of the log only add roots.
LEMMA LogHolds ==
  ASSUME SidecarInv, LogNext
  PROVE  SidecarInv'
<1>1. /\ artifacts' = artifacts /\ asked' = asked /\ jobs' = jobs /\ availability' = availability
      /\ links' = links /\ proofs' = proofs /\ blobRefs' = blobRefs
  BY DEF LogNext, AppendRecord, AppendBatch, VerifyBatch
<1>2. named' = named \cup {} /\ renamed' = renamed \cup (named \cap {})
  BY DEF LogNext, AppendRecord, AppendBatch, VerifyBatch, WritesSidecar
<1>3. \A r \in logged' : r \in logged \/ r.lane = "append"
  BY DEF LogNext, AppendRecord, AppendBatch, VerifyBatch, Record
<1>4. /\ DOMAIN roots \subseteq DOMAIN roots'
      /\ IsMap(roots')
 <2>1. CASE roots' = roots BY <2>1 DEF SidecarInv, SidecarRows
 <2>2. CASE \E root : roots' = Put(roots, root, "batched")
  <3>1. PICK root : roots' = Put(roots, root, "batched") BY <2>2
  <3>2. PutIn(roots', roots, root, "batched") BY <3>1, PutRow
  <3> QED BY <3>2 DEF PutIn
 <2>3. CASE \E root : roots' = [roots EXCEPT ![root] = "verified"] BY <2>3 DEF IsMap
 <2> QED BY <2>1, <2>2, <2>3 DEF LogNext, AppendRecord, AppendBatch, VerifyBatch
<1>5. /\ \A ref \in blobRefs : RefHolds(ref)'
      /\ \A l \in links : LinkHolds(l)'
  BY <1>1, <1>2, ToldStays DEF SameContent
<1> QED BY <1>1, <1>3, <1>4, <1>5 DEF SidecarInv, SidecarRows, LoggedRootsVerify, VerifiedWasAsked

LEMMA SidecarStep ==
  ASSUME SidecarInv, [SidecarNext]_sidecarVars
  PROVE  SidecarInv'
<1>1. CASE LogNext BY <1>1, LogHolds
<1>2. CASE PersistNext BY <1>2, PersistArtifactHolds DEF PersistNext
<1>3. ASSUME NEW p, NEW id, PostArtifact(id, p) \/ VerifyArtifact(id, p)
      PROVE  SidecarInv'
  BY <1>3, PostArtifactHolds, VerifyArtifactHolds
<1>4. ASSUME NEW p, NEW id, PostAvailability(id, p) \/ PostJob(id, p)
      PROVE  SidecarInv'
  BY <1>4, PostAvailabilityHolds, PostJobHolds
<1>5. ASSUME NEW p, NEW r, OrchestrateReflection(ReflectionId(r), p)
      PROVE  SidecarInv'
 <2>1. \A q \in BlobPlaces : ReflectionId(r) # BlobId(q) BY DEF ReflectionId, BlobId
 <2> QED BY <1>5, <2>1, MirrorsHolds DEF OrchestrateReflection
<1>6. ASSUME NEW p, RunDemoFlow(p)
      PROVE  SidecarInv'
 <2>1. \A q \in BlobPlaces : DemoId # BlobId(q) BY DEF DemoId, BlobId
 <2> QED BY <1>6, <2>1, MirrorsHolds DEF RunDemoFlow
<1>7. ASSUME NEW p, NEW place \in BlobPlaces, PutBlob(place, p)
      PROVE  SidecarInv'
  BY <1>7, PutBlobHolds
<1>8. CASE UNCHANGED sidecarVars
  BY <1>8 DEF sidecarVars, daVars, SidecarInv, SidecarRows, RefHolds, LinkHolds, VerifiesBlob,
     VerifiedWasAsked, LoggedRootsVerify
<1> QED BY <1>1, <1>2, <1>3, <1>4, <1>5, <1>6, <1>7, <1>8, Zenon DEF SidecarNext

----
\* The OpenClaw bridge.  Of each skill the first receipt and the first
\* manifest say the same.

ManifestRow == [skill : SkillVersions, hash : ManifestHashes]
BridgedRow == [direction : {"import", "export"}, skill : SkillVersions, hash : ManifestHashes]

\* The first row of a list about a skill.
FirstAbout(list, skill, i) ==
  /\ i \in 1..Len(list) /\ list[i].skill = skill
  /\ \A j \in 1..(i - 1) : list[j].skill # skill

NewestAgree ==
  \A skill : \A i \in 1..Len(bridged) : FirstAbout(bridged, skill, i) =>
     \E k \in 1..Len(manifests) :
        FirstAbout(manifests, skill, k) /\ manifests[k].hash = bridged[i].hash

OpenClawInv ==
  /\ manifests \in Seq(ManifestRow)
  /\ bridged \in Seq(BridgedRow)
  /\ NewestAgree

LEMMA FirstIsFound ==
  ASSUME OpenClawInv, NEW skill, NEW k, FirstAbout(manifests, skill, k)
  PROVE  Listed(manifests, skill) # {} /\ FindIndex(skill) = k
<1>1. /\ k \in Listed(manifests, skill) /\ Listed(manifests, skill) \subseteq Nat /\ k \in Nat
      /\ \A j \in Listed(manifests, skill) : k <= j
  BY DEF OpenClawInv, FirstAbout, Listed
<1>2. \A i \in Listed(manifests, skill) :
         (\A j \in Listed(manifests, skill) : i <= j) => i = k
  BY <1>1
<1> QED BY <1>1, <1>2 DEF FindIndex

LEMMA SomeIsFirst ==
  ASSUME OpenClawInv, NEW skill, Listed(manifests, skill) # {}
  PROVE  \E k \in 1..Len(manifests) : FirstAbout(manifests, skill, k)
<1> DEFINE T == Listed(manifests, skill)
<1>1. T \subseteq Nat /\ T \subseteq 1..Len(manifests) /\ Len(manifests) \in Nat
      /\ \A i \in 1..Len(manifests) : manifests[i].skill = skill => i \in T
  BY DEF OpenClawInv, Listed
<1>2. T # {} OBVIOUS
<1>3. \A i \in T : manifests[i].skill = skill BY DEF Listed
<1> HIDE DEF T
<1>4. PICK k \in T : \A j \in T : ~(<<j, k>> \in Below) BY <1>1, <1>2, BelowWellFounded, WFMin, Zenon
<1>5. \A j \in T : ~(j < k) BY <1>1, <1>4 DEF Below
<1>6. \A j \in 1..(k - 1) : manifests[j].skill # skill BY <1>1, <1>5
<1> QED BY <1>1, <1>3, <1>6 DEF FirstAbout

LEMMA RowBefore ==
  ASSUME NEW S, NEW list \in Seq(S), NEW row \in S, NEW more, more = <<row>> \o list
  PROVE  /\ more \in Seq(S) /\ Len(more) = Len(list) + 1 /\ more[1] = row
         /\ \A i \in 1..Len(list) : more[i + 1] = list[i]
  OBVIOUS

\* The list more is the given one after a row.
Leads(more, row, list) ==
  /\ Len(list) \in Nat
  /\ Len(more) = Len(list) + 1 /\ more[1] = row
  /\ \A i \in 1..Len(list) : more[i + 1] = list[i]

LEMMA FirstIsLeader ==
  ASSUME NEW more, NEW row, NEW list, Leads(more, row, list), NEW skill, row.skill = skill
  PROVE  /\ FirstAbout(more, skill, 1)
         /\ \A i \in 1..Len(more) : FirstAbout(more, skill, i) => i = 1
<1>1. FirstAbout(more, skill, 1) BY DEF Leads, FirstAbout
<1>2. ASSUME NEW i \in 1..Len(more), FirstAbout(more, skill, i), i # 1
      PROVE  FALSE
 <2>1. 1 \in 1..(i - 1) BY <1>2 DEF Leads
 <2> QED BY <1>2, <2>1 DEF Leads, FirstAbout
<1> QED BY <1>1, <1>2

LEMMA FirstMovesOn ==
  ASSUME NEW more, NEW row, NEW list, Leads(more, row, list), NEW skill, row.skill # skill,
         NEW i \in 1..Len(list), FirstAbout(list, skill, i)
  PROVE  FirstAbout(more, skill, i + 1)
<1>1. i + 1 \in 1..Len(more) /\ more[i + 1].skill = skill BY DEF Leads, FirstAbout
<1>2. ASSUME NEW j \in 1..((i + 1) - 1), more[j].skill = skill
      PROVE  FALSE
 <2>1. CASE j = 1 BY <1>2, <2>1 DEF Leads
 <2>2. CASE j # 1
  <3>1. j - 1 \in 1..(i - 1) /\ j - 1 \in 1..Len(list) /\ (j - 1) + 1 = j BY <2>2 DEF Leads
  <3>2. more[(j - 1) + 1] = list[j - 1] BY <3>1 DEF Leads
  <3> QED BY <1>2, <3>1, <3>2 DEF FirstAbout
 <2> QED BY <2>1, <2>2
<1> QED BY <1>1, <1>2 DEF FirstAbout

LEMMA FirstMovedOn ==
  ASSUME NEW more, NEW row, NEW list, Leads(more, row, list), NEW skill, row.skill # skill,
         NEW i \in 1..Len(more), FirstAbout(more, skill, i)
  PROVE  \E k \in 1..Len(list) : i = k + 1 /\ FirstAbout(list, skill, k)
<1>1. i # 1 BY DEF Leads, FirstAbout
<1>2. i - 1 \in 1..Len(list) /\ i = (i - 1) + 1 BY <1>1 DEF Leads
<1>3. more[(i - 1) + 1] = list[i - 1] BY <1>2 DEF Leads
<1>4. list[i - 1].skill = skill BY <1>2, <1>3 DEF FirstAbout
<1>5. ASSUME NEW j \in 1..((i - 1) - 1), list[j].skill = skill
      PROVE  FALSE
 <2>1. j + 1 \in 1..(i - 1) /\ j \in 1..Len(list) BY <1>2 DEF Leads
 <2>2. more[j + 1] = list[j] BY <2>1 DEF Leads
 <2> QED BY <1>5, <2>1, <2>2 DEF FirstAbout
<1> QED BY <1>2, <1>4, <1>5 DEF FirstAbout

\* What is received of a skill says the same in both lists.
LEMMA ReceivedAgree ==
  ASSUME OpenClawInv, NEW skill \in SkillVersions, NEW hash \in ManifestHashes,
         NEW direction \in {"import", "export"}, Receives(direction, skill, hash),
         \E k \in 1..Len(manifests') :
            FirstAbout(manifests', skill, k) /\ manifests'[k].hash = hash,
         \A s : s # skill => \A k \in 1..Len(manifests) : FirstAbout(manifests, s, k) =>
            \E m \in 1..Len(manifests') :
               FirstAbout(manifests', s, m) /\ manifests'[m].hash = manifests[k].hash
  PROVE  bridged' \in Seq(BridgedRow) /\ NewestAgree'
<1> DEFINE row == [direction |-> direction, skill |-> skill, hash |-> hash]
<1>1. /\ bridged' = <<row>> \o bridged /\ row \in BridgedRow /\ bridged \in Seq(BridgedRow)
      /\ row.skill = skill /\ row.hash = hash
  BY DEF Receives, OpenClawInv, BridgedRow
<1> HIDE DEF row
<1>2. bridged' \in Seq(BridgedRow) /\ Leads(bridged', row, bridged) BY <1>1, RowBefore DEF Leads
<1>3. ASSUME NEW s, NEW i \in 1..Len(bridged'), FirstAbout(bridged', s, i)
      PROVE  \E k \in 1..Len(manifests') :
                FirstAbout(manifests', s, k) /\ manifests'[k].hash = bridged'[i].hash
 <2>1. CASE s = skill
  <3>1. i = 1 BY <1>1, <1>2, <1>3, <2>1, FirstIsLeader
  <3> QED BY <1>1, <1>2, <2>1, <3>1 DEF Leads
 <2>2. CASE s # skill
  <3>1. row.skill # s BY <1>1, <2>2
  <3>3. PICK k \in 1..Len(bridged) : i = k + 1 /\ FirstAbout(bridged, s, k) BY <1>2, <1>3, <3>1, FirstMovedOn
  <3>4. bridged'[i] = bridged[k] BY <1>2, <3>3 DEF Leads
  <3>5. PICK m \in 1..Len(manifests) :
           FirstAbout(manifests, s, m) /\ manifests[m].hash = bridged[k].hash
    BY <3>3 DEF OpenClawInv, NewestAgree
  <3> QED BY <2>2, <3>4, <3>5
 <2> QED BY <2>1, <2>2
<1> QED BY <1>2, <1>3 DEF NewestAgree

\* A manifest that is put before the others.
LEMMA ManifestBefore ==
  ASSUME OpenClawInv, NEW skill \in SkillVersions, NEW hash \in ManifestHashes,
         NEW direction \in {"import", "export"}, Receives(direction, skill, hash),
         manifests' = <<[skill |-> skill, hash |-> hash]>> \o manifests
  PROVE  OpenClawInv'
<1> DEFINE row == [skill |-> skill, hash |-> hash]
<1>1. /\ row \in ManifestRow /\ manifests \in Seq(ManifestRow)
      /\ row.skill = skill /\ row.hash = hash /\ manifests' = <<row>> \o manifests
  BY DEF OpenClawInv, ManifestRow
<1> HIDE DEF row
<1>2. manifests' \in Seq(ManifestRow) /\ Leads(manifests', row, manifests) BY <1>1, RowBefore DEF Leads
<1>3. \E k \in 1..Len(manifests') : FirstAbout(manifests', skill, k) /\ manifests'[k].hash = hash
 <2>1. FirstAbout(manifests', skill, 1) BY <1>1, <1>2, FirstIsLeader
 <2> QED BY <1>1, <1>2, <2>1 DEF Leads
<1>4. ASSUME NEW s, s # skill, NEW k \in 1..Len(manifests), FirstAbout(manifests, s, k)
      PROVE  \E m \in 1..Len(manifests') :
                FirstAbout(manifests', s, m) /\ manifests'[m].hash = manifests[k].hash
 <2>1. FirstAbout(manifests', s, k + 1) BY <1>1, <1>2, <1>4, FirstMovesOn
 <2>2. manifests'[k + 1] = manifests[k] /\ k + 1 \in 1..Len(manifests') BY <1>2 DEF Leads
 <2> QED BY <2>1, <2>2
<1>5. bridged' \in Seq(BridgedRow) /\ NewestAgree' BY <1>3, <1>4, ReceivedAgree
<1> QED BY <1>2, <1>5 DEF OpenClawInv

\* A manifest that replaces the first of its skill.
LEMMA ManifestReplaced ==
  ASSUME OpenClawInv, NEW skill \in SkillVersions, NEW hash \in ManifestHashes,
         Receives("import", skill, hash), Listed(manifests, skill) # {},
         manifests' = [manifests EXCEPT ![FindIndex(skill)] = [skill |-> skill, hash |-> hash]]
  PROVE  OpenClawInv'
<1> DEFINE row == [skill |-> skill, hash |-> hash]
<1>1. PICK k \in 1..Len(manifests) : FirstAbout(manifests, skill, k) BY SomeIsFirst
<1>2. manifests' = [manifests EXCEPT ![k] = row] BY <1>1, FirstIsFound
<1>3. row \in ManifestRow /\ row.skill = skill /\ row.hash = hash BY DEF ManifestRow
<1> HIDE DEF row
<1>4. /\ manifests' \in Seq(ManifestRow) /\ Len(manifests') = Len(manifests)
      /\ manifests'[k] = row /\ \A m \in 1..Len(manifests) : m # k => manifests'[m] = manifests[m]
      /\ Len(manifests) \in Nat
 <2>1. manifests \in Seq(ManifestRow) BY DEF OpenClawInv
 <2>2. manifests \in [1..Len(manifests) -> ManifestRow] /\ Len(manifests) \in Nat BY <2>1
 <2>3. manifests' \in Seq(ManifestRow) /\ Len(manifests') = Len(manifests)
  <3>1. manifests' \in [1..Len(manifests) -> ManifestRow] BY <1>2, <1>3, <2>2
  <3> QED BY <2>2, <3>1
 <2> QED BY <1>1, <1>2, <2>2, <2>3
<1>5. \A m \in 1..Len(manifests) : manifests'[m].skill = manifests[m].skill BY <1>1, <1>3, <1>4 DEF FirstAbout
<1>6. \A s : \A m \in 1..Len(manifests) :
         FirstAbout(manifests, s, m) => FirstAbout(manifests', s, m)
  BY <1>4, <1>5 DEF FirstAbout
<1>7. \E m \in 1..Len(manifests') : FirstAbout(manifests', skill, m) /\ manifests'[m].hash = hash
  BY <1>1, <1>3, <1>4, <1>6
<1>8. ASSUME NEW s, s # skill, NEW m \in 1..Len(manifests), FirstAbout(manifests, s, m)
      PROVE  \E n \in 1..Len(manifests') :
                FirstAbout(manifests', s, n) /\ manifests'[n].hash = manifests[m].hash
 <2>1. m # k BY <1>1, <1>8 DEF FirstAbout
 <2> QED BY <1>4, <1>6, <1>8, <2>1
<1>9. bridged' \in Seq(BridgedRow) /\ NewestAgree' BY <1>7, <1>8, ReceivedAgree
<1> QED BY <1>4, <1>9 DEF OpenClawInv

LEMMA OpenClawStep ==
  ASSUME OpenClawInv, [OpenClawNext]_openClawVars
  PROVE  OpenClawInv'
<1>1. ASSUME NEW skill \in SkillVersions, NEW hash \in ManifestHashes, ImportManifest(skill, hash)
      PROVE  OpenClawInv'
 <2>1. CASE Listed(manifests, skill) # {} BY <1>1, <2>1, ManifestReplaced DEF ImportManifest
 <2>2. CASE Listed(manifests, skill) = {} BY <1>1, <2>2, ManifestBefore DEF ImportManifest
 <2> QED BY <2>1, <2>2
<1>2. ASSUME NEW skill \in SkillVersions, NEW hash \in ManifestHashes, ExportSkill(skill, hash)
      PROVE  OpenClawInv'
  BY <1>2, ManifestBefore DEF ExportSkill
<1>3. CASE UNCHANGED openClawVars BY <1>3 DEF openClawVars, OpenClawInv, NewestAgree, FirstAbout
<1> QED BY <1>1, <1>2, <1>3 DEF OpenClawNext

LEMMA NewestIsFirst == OpenClawInv => NewestManifestIsFirst
<1> SUFFICES ASSUME OpenClawInv, NEW i \in DOMAIN bridged,
                    \A j \in Listed(bridged, bridged[i].skill) : i <= j
             PROVE  /\ Listed(manifests, bridged[i].skill) # {}
                    /\ manifests[FindIndex(bridged[i].skill)].hash = bridged[i].hash
  BY DEF NewestManifestIsFirst
<1>1. i \in 1..Len(bridged) /\ Len(bridged) \in Nat BY DEF OpenClawInv
<1>2. \A j \in 1..(i - 1) : bridged[j].skill # bridged[i].skill BY <1>1 DEF Listed, OpenClawInv
<1>3. FirstAbout(bridged, bridged[i].skill, i) BY <1>1, <1>2 DEF FirstAbout
<1>4. PICK k \in 1..Len(manifests) :
         FirstAbout(manifests, bridged[i].skill, k) /\ manifests[k].hash = bridged[i].hash
  BY <1>1, <1>3 DEF OpenClawInv, NewestAgree
<1> QED BY <1>4, FirstIsFound

\* What the relays have answered can be found and verified again.
RelayInv == SidecarInv /\ OpenClawInv

\* However many writes, reflections, places and manifests there are: what
\* the 0G sidecar has answered is in its store until the same name is
\* written again, what it calls verified was asked about, each record
\* verifies under its root, and the OpenClaw bridge finds of each skill
\* the manifest of its newest receipt.
THEOREM RelaysAlwaysTellTheTruth == ExecutionSpec => []RelaysTellTheTruth
<1>1. ExecutionInit => RelayInv
 <2> SUFFICES ASSUME SidecarInit, OpenClawInit
              PROVE  SidecarInv /\ OpenClawInv
   BY DEF ExecutionInit, RelayInv
 <2>1. artifacts = [x \in DOMAIN artifacts |-> ArtifactRow(artifacts[x])] BY DEF SidecarInit
 <2>2. IsMap(jobs) /\ IsMap(roots) BY DEF SidecarInit, IsMap
 <2>3. SidecarInv BY <2>1, <2>2 DEF SidecarInit, SidecarInv, SidecarRows, VerifiedWasAsked, LoggedRootsVerify
 <2>4. OpenClawInv BY DEF OpenClawInit, OpenClawInv, NewestAgree
 <2> QED BY <2>3, <2>4
<1>2. RelayInv /\ [ExecutionNext]_executionVars => RelayInv'
 <2> SUFFICES ASSUME RelayInv, [ExecutionNext]_executionVars
              PROVE  RelayInv'
   OBVIOUS
 <2>1. [SidecarNext]_sidecarVars /\ [OpenClawNext]_openClawVars
   BY DEF ExecutionNext, AroundNext, executionVars, aroundVars
 <2> QED BY <2>1, SidecarStep, OpenClawStep DEF RelayInv
<1>3. RelayInv => RelaysTellTheTruth
 <2> SUFFICES ASSUME RelayInv
              PROVE  RelaysTellTheTruth
   OBVIOUS
 <2>1. ReferencesHold BY DEF RelayInv, SidecarInv, ReferencesHold, RefHolds, LinkHolds
 <2> QED BY <2>1, NewestIsFirst DEF RelayInv, SidecarInv, RelaysTellTheTruth
<1> QED BY <1>1, <1>2, <1>3, PTL DEF ExecutionSpec

----
\* The errors.  A call that is asked has no code in the log yet, so what
\* the log says of it is said once, with the error it is told as; the
\* numbers in the history are those of the calls that have failed.

CallKinds == {"loop", "boot", "refresh"}
CallsWith(E) == [kind : CallKinds, at : {"asked", "failed", "done"}, error : E]
Surfaces == [active : Nat, history : Seq(Nat), pending : Seq(Nat), degraded : BOOLEAN]

SurfaceTypes ==
  /\ \E E : calls \in Seq(CallsWith(E))
  /\ \E C : loggedCode \in Seq(C)
  /\ Len(loggedCode) = Len(calls)
  /\ surface \in Surfaces

FailedCalls == {i \in DOMAIN calls : calls[i].at = "failed"}

LoggedFits ==
  \A i \in 1..Len(calls) :
     /\ calls[i].at = "asked" => loggedCode[i] = "none"
     /\ calls[i].kind = "loop" /\ loggedCode[i] # "none" =>
           calls[i].error.code = loggedCode[i] /\ calls[i].error.status >= 400

PendingFits ==
  \A n \in 1..Len(surface.pending) :
     /\ surface.pending[n] \in FailedCalls
     /\ calls[surface.pending[n]].error.code \notin NotRetryable

SurfaceInv == SurfaceTypes /\ LoggedFits /\ PendingFits /\ SurfaceIsCurrent

LEMMA CallsAreList ==
  ASSUME SurfaceTypes
  PROVE  /\ Len(calls) \in Nat /\ DOMAIN calls = 1..Len(calls)
         /\ DOMAIN loggedCode = 1..Len(calls)
         /\ \A i \in 1..Len(calls) : calls[i].kind \in CallKinds
         /\ \A i \in 1..Len(calls) :
               calls[i] = [kind |-> calls[i].kind, at |-> calls[i].at, error |-> calls[i].error]
<1>1. PICK E : calls \in Seq(CallsWith(E)) BY DEF SurfaceTypes
<1>2. \A i \in 1..Len(calls) : calls[i] \in CallsWith(E) BY <1>1
<1>3. DOMAIN calls = 1..Len(calls) /\ Len(calls) \in Nat BY <1>1
<1>4. DOMAIN loggedCode = 1..Len(calls) BY DEF SurfaceTypes
<1>5. \A call \in CallsWith(E) :
         call.kind \in CallKinds /\ call = [kind |-> call.kind, at |-> call.at, error |-> call.error]
  BY DEF CallsWith
<1> QED BY <1>2, <1>3, <1>4, <1>5

LEMMA ListOfMore ==
  ASSUME NEW A, NEW B, A \subseteq B, NEW s \in Seq(A)
  PROVE  s \in Seq(B)
<1>1. s \in [1..Len(s) -> A] /\ Len(s) \in Nat OBVIOUS
<1>2. s \in [1..Len(s) -> B] BY <1>1
<1> QED BY <1>1, <1>2

LEMMA ListOfFunction ==
  ASSUME NEW S, NEW n \in Nat, NEW f \in [1..n -> S]
  PROVE  f \in Seq(S) /\ Len(f) = n
  OBVIOUS

LEMMA FailedFinite ==
  ASSUME SurfaceTypes
  PROVE  IsFiniteSet(FailedCalls)
<1>1. FailedCalls \subseteq 1..Len(calls) /\ Len(calls) \in Nat BY CallsAreList DEF FailedCalls
<1>2. IsFiniteSet(1..Len(calls)) BY <1>1, FS_Interval
<1> QED BY <1>1, <1>2, FS_Subset, Zenon

\* A further call, of which nothing is known yet.
LEMMA AsksHolds ==
  ASSUME SurfaceInv, NEW kind \in CallKinds, Asks(kind), surface' = surface
  PROVE  SurfaceInv'
<1> DEFINE new == [kind |-> kind, at |-> "asked", error |-> NoError]
<1>1. PICK E : calls \in Seq(CallsWith(E)) BY DEF SurfaceInv, SurfaceTypes
<1>2. PICK C : loggedCode \in Seq(C) BY DEF SurfaceInv, SurfaceTypes
<1>3. Len(loggedCode) = Len(calls) /\ surface \in Surfaces BY DEF SurfaceInv, SurfaceTypes
<1>4. calls' = Append(calls, new) /\ loggedCode' = Append(loggedCode, "none") BY DEF Asks
<1>5. /\ CallsWith(E) \subseteq CallsWith(E \cup {NoError})
      /\ new \in CallsWith(E \cup {NoError})
  BY DEF CallsWith
<1>6. calls \in Seq(CallsWith(E \cup {NoError})) BY <1>1, <1>5, ListOfMore
<1>7. new.at = "asked" /\ new.kind = kind OBVIOUS
<1> HIDE DEF new
<1>8. /\ calls' \in Seq(CallsWith(E \cup {NoError})) /\ Len(calls') = Len(calls) + 1
      /\ calls'[Len(calls) + 1] = new
      /\ \A i \in 1..Len(calls) : calls'[i] = calls[i]
  BY <1>4, <1>5, <1>6
<1>9. loggedCode \in Seq(C \cup {"none"}) BY <1>2
<1>10. /\ loggedCode' \in Seq(C \cup {"none"}) /\ Len(loggedCode') = Len(calls) + 1
       /\ loggedCode'[Len(calls) + 1] = "none"
       /\ \A i \in 1..Len(calls) : loggedCode'[i] = loggedCode[i]
  BY <1>3, <1>4, <1>9
<1>11. SurfaceTypes' BY <1>3, <1>8, <1>10 DEF SurfaceTypes
<1>12. Len(calls) \in Nat /\ 1..Len(calls') = 1..Len(calls) \cup {Len(calls) + 1} BY <1>1, <1>8
<1>13. FailedCalls' = FailedCalls BY <1>1, <1>7, <1>8, <1>12 DEF FailedCalls
<1>14. LoggedFits' BY <1>7, <1>8, <1>10, <1>12 DEF SurfaceInv, LoggedFits
<1>15. PendingFits' BY <1>1, <1>8, <1>13 DEF SurfaceInv, PendingFits, FailedCalls
<1>16. SurfaceIsCurrent' BY <1>13 DEF SurfaceInv, SurfaceIsCurrent, FailedCalls
<1> QED BY <1>11, <1>14, <1>15, <1>16 DEF SurfaceInv

\* A call changes, and what is logged of it.
LEMMA CallChanges ==
  ASSUME SurfaceInv, NEW i \in 1..Len(calls), NEW at_ \in {"failed", "done"}, NEW error,
         calls' = [calls EXCEPT ![i] = [kind |-> calls[i].kind, at |-> at_, error |-> error]],
         loggedCode' = loggedCode \/ \E code : loggedCode' = [loggedCode EXCEPT ![i] = code],
         surface' \in Surfaces
  PROVE  /\ SurfaceTypes'
         /\ Len(calls') = Len(calls)
         /\ calls'[i].kind = calls[i].kind /\ calls'[i].at = at_ /\ calls'[i].error = error
         /\ \A j \in 1..Len(calls) : j # i => calls'[j] = calls[j] /\ loggedCode'[j] = loggedCode[j]
<1> DEFINE new == [kind |-> calls[i].kind, at |-> at_, error |-> error]
<1>1. PICK E : calls \in Seq(CallsWith(E)) BY DEF SurfaceInv, SurfaceTypes
<1>2. PICK C : loggedCode \in Seq(C) BY DEF SurfaceInv, SurfaceTypes
<1>3. Len(loggedCode) = Len(calls) BY DEF SurfaceInv, SurfaceTypes
<1>4. /\ CallsWith(E) \subseteq CallsWith(E \cup {error})
      /\ new \in CallsWith(E \cup {error})
 <2>1. calls[i].kind \in CallKinds BY CallsAreList DEF SurfaceInv
 <2> QED BY <2>1 DEF CallsWith
<1>5. calls \in Seq(CallsWith(E \cup {error})) BY <1>1, <1>4, ListOfMore
<1>6. new.kind = calls[i].kind /\ new.at = at_ /\ new.error = error OBVIOUS
<1> HIDE DEF new
<1>7. calls' = [calls EXCEPT ![i] = new] BY DEF new
<1>8. /\ calls' \in Seq(CallsWith(E \cup {error})) /\ Len(calls') = Len(calls)
      /\ calls'[i] = new
      /\ \A j \in 1..Len(calls) : j # i => calls'[j] = calls[j]
 <2>1. calls \in [1..Len(calls) -> CallsWith(E \cup {error})] /\ Len(calls) \in Nat BY <1>5
 <2>2. calls' \in [1..Len(calls) -> CallsWith(E \cup {error})] BY <1>4, <1>7, <2>1
 <2>3. calls' \in Seq(CallsWith(E \cup {error})) /\ Len(calls') = Len(calls)
  <3> DEFINE S == CallsWith(E \cup {error})
             n == Len(calls)
  <3>1. n \in Nat /\ calls' \in [1..n -> S] BY <2>1, <2>2
  <3> HIDE DEF S, n
  <3>2. calls' \in Seq(S) /\ Len(calls') = n BY <3>1, ListOfFunction
  <3> QED BY <3>2 DEF S, n
 <2> QED BY <1>7, <2>1, <2>3
<1>9. /\ \E D : loggedCode' \in Seq(D)
      /\ Len(loggedCode') = Len(loggedCode)
      /\ \A j \in 1..Len(calls) : j # i => loggedCode'[j] = loggedCode[j]
 <2>1. CASE loggedCode' = loggedCode BY <1>2, <2>1
 <2>2. ASSUME NEW code, loggedCode' = [loggedCode EXCEPT ![i] = code]
       PROVE  /\ \E D : loggedCode' \in Seq(D)
              /\ Len(loggedCode') = Len(loggedCode)
              /\ \A j \in 1..Len(calls) : j # i => loggedCode'[j] = loggedCode[j]
  <3>1. loggedCode \in [1..Len(calls) -> C \cup {code}] /\ Len(calls) \in Nat BY <1>2, <1>3
  <3>2. loggedCode' \in [1..Len(calls) -> C \cup {code}] BY <2>2, <3>1
  <3>3. loggedCode' \in Seq(C \cup {code}) /\ Len(loggedCode') = Len(calls) BY <3>1, <3>2
  <3> QED BY <1>3, <2>2, <3>1, <3>3
 <2> QED BY <2>1, <2>2
<1> QED BY <1>3, <1>6, <1>8, <1>9 DEF SurfaceTypes

\* A call is answered well: nothing is told.
LEMMA DoneHolds ==
  ASSUME SurfaceInv, NEW i \in 1..Len(calls), calls[i].at = "asked",
         calls' = [calls EXCEPT ![i].at = "done"], loggedCode' = loggedCode, surface' = surface
  PROVE  SurfaceInv'
<1>1. /\ calls[i] = [kind |-> calls[i].kind, at |-> calls[i].at, error |-> calls[i].error]
      /\ Len(calls) \in Nat /\ DOMAIN calls = 1..Len(calls) /\ surface \in Surfaces
  BY CallsAreList DEF SurfaceInv, SurfaceTypes
<1>2. calls' = [calls EXCEPT ![i] = [kind |-> calls[i].kind, at |-> "done", error |-> calls[i].error]]
 <2> DEFINE row == [kind |-> calls[i].kind, at |-> "done", error |-> calls[i].error]
 <2>1. [calls[i] EXCEPT !.at = "done"] = row BY <1>1
 <2>2. calls' = [calls EXCEPT ![i] = [calls[i] EXCEPT !.at = "done"]] OBVIOUS
 <2> QED BY <2>1, <2>2
<1>3. /\ SurfaceTypes' /\ Len(calls') = Len(calls) /\ calls'[i].at = "done"
      /\ calls'[i].kind = calls[i].kind
      /\ calls'[i].error = calls[i].error
      /\ \A j \in 1..Len(calls) : j # i => calls'[j] = calls[j]
  BY <1>1, <1>2, CallChanges
<1>4. DOMAIN calls' = 1..Len(calls) BY <1>1, <1>2
<1>5. FailedCalls' = FailedCalls BY <1>1, <1>3, <1>4 DEF FailedCalls
<1>6. LoggedFits' BY <1>3 DEF SurfaceInv, LoggedFits
<1>7. PendingFits' BY <1>1, <1>3, <1>5 DEF SurfaceInv, PendingFits, FailedCalls
<1>8. SurfaceIsCurrent' BY <1>5 DEF SurfaceInv, SurfaceIsCurrent, FailedCalls
<1> QED BY <1>3, <1>6, <1>7, <1>8 DEF SurfaceInv

\* The history takes the newest first and keeps to its limit.
LEMMA PrependedIs ==
  ASSUME surface \in Surfaces, NEW id \in Nat
  PROVE  /\ Prepended(id) \in Seq(Nat)
         /\ Prepended(id) # <<>> /\ Prepended(id)[1] = id
         /\ Ids(Prepended(id)) \subseteq Ids(surface.history) \cup {id}
         /\ Len(Prepended(id)) = IF Len(surface.history) + 1 < MaxHistory
                                 THEN Len(surface.history) + 1 ELSE MaxHistory
<1> DEFINE h == surface.history
           more == <<id>> \o h
<1>1. h \in Seq(Nat) /\ MaxHistory \in Nat \ {0} BY ErrorSurfaceAssumption DEF Surfaces, ErrorSurfaceAssumption
<1> HIDE DEF h
<1>2. /\ more \in Seq(Nat) /\ Len(more) = Len(h) + 1 /\ more[1] = id /\ Len(h) \in Nat
      /\ \A i \in 1..Len(h) : more[i + 1] = h[i]
      /\ DOMAIN h = 1..Len(h)
  BY <1>1
<1>3. \A i \in 1..Len(more) : more[i] \in Ids(h) \cup {id}
 <2> SUFFICES ASSUME NEW i \in 1..Len(more), i # 1
              PROVE  more[i] \in Ids(h)
   BY <1>2
 <2>1. i - 1 \in 1..Len(h) /\ (i - 1) + 1 = i BY <1>2
 <2>2. more[i] = h[i - 1] BY <1>2, <2>1
 <2> QED BY <1>2, <2>1, <2>2 DEF Ids
<1>4. Prepended(id) = IF Len(more) <= MaxHistory THEN more ELSE SubSeq(more, 1, MaxHistory)
  BY DEF Prepended, FirstOf, h
<1> HIDE DEF more
<1>5. CASE Len(more) <= MaxHistory
 <2>1. Prepended(id) = more /\ DOMAIN more = 1..Len(more) BY <1>2, <1>4, <1>5
 <2>2. Ids(more) \subseteq Ids(h) \cup {id} BY <1>3, <2>1 DEF Ids
 <2> QED BY <1>1, <1>2, <1>5, <2>1, <2>2 DEF h
<1>6. CASE ~(Len(more) <= MaxHistory)
 <2> DEFINE s == SubSeq(more, 1, MaxHistory)
 <2>1. MaxHistory \in 1..Len(more) BY <1>1, <1>2, <1>6
 <2>2. /\ s \in Seq(Nat) /\ Len(s) = MaxHistory /\ DOMAIN s = 1..MaxHistory
       /\ \A i \in 1..MaxHistory : s[i] = more[i]
   BY <1>1, <1>2, <2>1
 <2>3. Prepended(id) = s BY <1>4, <1>6
 <2> HIDE DEF s
 <2>4. Ids(s) \subseteq Ids(h) \cup {id} BY <1>3, <2>1, <2>2 DEF Ids
 <2>5. s # <<>> /\ s[1] = id BY <1>1, <1>2, <2>2
 <2> QED BY <1>1, <1>2, <1>6, <2>1, <2>2, <2>3, <2>4, <2>5 DEF h
<1> QED BY <1>5, <1>6

\* A call fails and is told: its number is new among those that failed.
LEMMA CaughtHolds ==
  ASSUME SurfaceInv, NEW i \in 1..Len(calls), calls[i].at = "asked", NEW told,
         calls' = [calls EXCEPT ![i] = [kind |-> calls[i].kind, at |-> "failed", error |-> told]],
         PushError(i, told, calls[i].kind # "refresh"),
         calls[i].kind = "refresh" => told.severity = "warning",
         \/ loggedCode' = loggedCode
         \/ \E code : /\ loggedCode' = [loggedCode EXCEPT ![i] = code]
                      /\ calls[i].kind = "loop" => told.code = code /\ told.status >= 400
  PROVE  SurfaceInv'
<1>1. /\ Len(calls) \in Nat /\ DOMAIN calls = 1..Len(calls) /\ surface \in Surfaces
      /\ DOMAIN loggedCode = 1..Len(calls)
  BY CallsAreList DEF SurfaceInv, SurfaceTypes
<1>2. /\ surface'.active = i /\ surface'.history = Prepended(i)
      /\ surface'.pending = surface.pending /\ surface'.degraded = TRUE
      /\ surface' \in Surfaces
 <2>1. surface.degraded \/ calls[i].kind # "refresh" \/ told.severity = "warning" OBVIOUS
 <2>2. surface' = [surface EXCEPT !.active = i, !.history = Prepended(i), !.degraded = TRUE]
   BY <1>1, <2>1 DEF PushError, Surfaces
 <2>3. Prepended(i) \in Seq(Nat) /\ i \in Nat BY <1>1, PrependedIs
 <2> QED BY <1>1, <2>2, <2>3 DEF Surfaces
<1>3. /\ SurfaceTypes' /\ Len(calls') = Len(calls) /\ calls'[i].kind = calls[i].kind
      /\ calls'[i].at = "failed" /\ calls'[i].error = told
      /\ \A j \in 1..Len(calls) : j # i => calls'[j] = calls[j] /\ loggedCode'[j] = loggedCode[j]
 <2>1. loggedCode' = loggedCode \/ \E code : loggedCode' = [loggedCode EXCEPT ![i] = code] OBVIOUS
 <2> QED BY <1>2, <2>1, CallChanges
<1>4. DOMAIN calls' = 1..Len(calls) BY <1>1
<1>5. FailedCalls' = FailedCalls \cup {i} /\ i \notin FailedCalls BY <1>1, <1>3, <1>4 DEF FailedCalls
<1>6. loggedCode'[i] = "none" \/ calls[i].kind # "loop"
        \/ (told.code = loggedCode'[i] /\ told.status >= 400)
  BY <1>1 DEF SurfaceInv, LoggedFits
<1>7. LoggedFits' BY <1>3, <1>6 DEF SurfaceInv, LoggedFits
<1>8. PendingFits' BY <1>1, <1>2, <1>3, <1>5 DEF SurfaceInv, PendingFits, FailedCalls
<1>9. SurfaceIsCurrent'
 <2>1. IsFiniteSet(FailedCalls) /\ Cardinality(FailedCalls) \in Nat BY FailedFinite, FS_CardinalityType DEF SurfaceInv
 <2>2. Cardinality(FailedCalls') = Cardinality(FailedCalls) + 1 BY <1>5, <2>1, FS_AddElement
 <2>3. /\ Len(surface.history) = IF Cardinality(FailedCalls) < MaxHistory
                                 THEN Cardinality(FailedCalls) ELSE MaxHistory
       /\ Ids(surface.history) \subseteq FailedCalls
   BY DEF SurfaceInv, SurfaceIsCurrent, FailedCalls
 <2>4. /\ Prepended(i) # <<>> /\ Prepended(i)[1] = i
       /\ Ids(Prepended(i)) \subseteq Ids(surface.history) \cup {i}
       /\ Len(Prepended(i)) = IF Len(surface.history) + 1 < MaxHistory
                              THEN Len(surface.history) + 1 ELSE MaxHistory
   BY <1>1, PrependedIs
 <2>5. MaxHistory \in Nat \ {0} BY ErrorSurfaceAssumption DEF ErrorSurfaceAssumption
 <2>6. Len(surface'.history) = IF Cardinality(FailedCalls') < MaxHistory
                               THEN Cardinality(FailedCalls') ELSE MaxHistory
   BY <1>2, <2>1, <2>2, <2>3, <2>4, <2>5
 <2>7. Ids(surface'.history) \subseteq FailedCalls' BY <1>2, <1>5, <2>3, <2>4
 <2> QED BY <1>2, <2>4, <2>6, <2>7 DEF SurfaceIsCurrent, FailedCalls
<1> QED BY <1>3, <1>7, <1>8, <1>9 DEF SurfaceInv

\* The rows of the catalog: a label for a retry only where the policy
\* allows one, and what the lists are told with is a warning.
RowsFit(entries) ==
  \A row \in entries :
     /\ row.retryLabel => PolicyRetries(row.code)
     /\ row.code = "INDEXER_SYNC_FAILED" => row.severity = "warning"

LEMMA RowsOfKindFit ==
  ASSUME NEW scope, NEW severity, NEW label \in BOOLEAN, NEW codes,
         label => \A code \in codes : PolicyRetries(code),
         severity = "warning" \/ "INDEXER_SYNC_FAILED" \notin codes
  PROVE  RowsFit(Rows(scope, severity, label, codes))
  BY DEF RowsFit, Rows

LEMMA JoinedRowsFit ==
  ASSUME NEW A, NEW B, RowsFit(A), RowsFit(B)
  PROVE  RowsFit(A \cup B)
  BY DEF RowsFit

LEMMA SessionRowsFit == RowsFit(SessionRows)
<1>1. \A code \in {"WALLET_NOT_CONNECTED", "WALLET_CONNECTION_REJECTED", "WALLET_WRONG_CLUSTER",
                   "WALLET_SESSION_SIGN_FAILED", "WALLET_SESSION_EXPIRED", "SESSION_TOKEN_EXPIRED",
                   "SESSION_REQUIRED", "SESSION_VERIFICATION_FAILED"} : PolicyRetries(code)
  BY DEF PolicyRetries, NotRetryable, WalletPoliciesWithoutRetry, ServicePoliciesWithoutRetry
<1>2. RowsFit(Rows("wallet", "warning", TRUE,
         {"WALLET_NOT_CONNECTED", "WALLET_CONNECTION_REJECTED", "WALLET_WRONG_CLUSTER"}))
  BY <1>1, RowsOfKindFit
<1>3. RowsFit(Rows("wallet", "error", FALSE, {"WALLET_UNSUPPORTED"})) BY RowsOfKindFit
<1>4. RowsFit(Rows("session", "warning", TRUE,
         {"WALLET_SESSION_SIGN_FAILED", "WALLET_SESSION_EXPIRED", "SESSION_TOKEN_EXPIRED",
          "SESSION_REQUIRED"}))
  BY <1>1, RowsOfKindFit
<1>5. RowsFit(Rows("session", "error", TRUE, {"SESSION_VERIFICATION_FAILED"})) BY <1>1, RowsOfKindFit
<1> QED BY <1>2, <1>3, <1>4, <1>5, JoinedRowsFit DEF SessionRows

LEMMA TransactionRowsFit == RowsFit(TransactionRows)
<1>1. \A code \in {"RPC_UNAVAILABLE", "RPC_TIMEOUT", "RPC_RATE_LIMITED", "TX_BUILD_FAILED",
                   "TX_SIMULATION_FAILED", "TX_SEND_FAILED", "TX_CONFIRMATION_FAILED",
                   "TX_EXPIRED"} : PolicyRetries(code)
  BY DEF PolicyRetries, NotRetryable, WalletPoliciesWithoutRetry, ServicePoliciesWithoutRetry
<1>2. RowsFit(Rows("rpc", "critical", TRUE, {"RPC_UNAVAILABLE"})) BY <1>1, RowsOfKindFit
<1>3. RowsFit(Rows("rpc", "error", TRUE, {"RPC_TIMEOUT"})) BY <1>1, RowsOfKindFit
<1>4. RowsFit(Rows("rpc", "warning", TRUE, {"RPC_RATE_LIMITED"})) BY <1>1, RowsOfKindFit
<1>5. RowsFit(Rows("transaction", "error", TRUE,
         {"TX_BUILD_FAILED", "TX_SIMULATION_FAILED", "TX_SEND_FAILED", "TX_CONFIRMATION_FAILED"}))
  BY <1>1, RowsOfKindFit
<1>6. RowsFit(Rows("transaction", "warning", TRUE, {"TX_EXPIRED"})) BY <1>1, RowsOfKindFit
<1> QED BY <1>2, <1>3, <1>4, <1>5, <1>6, JoinedRowsFit DEF TransactionRows

LEMMA AccountRowsFit == RowsFit(AccountRows)
<1>1. RowsFit(Rows("account", "error", FALSE,
         {"ACCOUNT_NOT_FOUND", "ACCOUNT_DECODE_FAILED", "PDA_DERIVATION_FAILED"}))
  BY RowsOfKindFit
<1>2. RowsFit(Rows("anchor", "error", FALSE, {"PROGRAM_ERROR"})) BY RowsOfKindFit
<1>3. RowsFit(Rows("anchor", "critical", FALSE, {"ANCHOR_IDL_MISMATCH"})) BY RowsOfKindFit
<1>4. RowsFit(Rows("solana", "warning", FALSE, {"INSUFFICIENT_SOL"})) BY RowsOfKindFit
<1>5. RowsFit(Rows("backend", "error", FALSE, {"INSUFFICIENT_PERMISSIONS"})) BY RowsOfKindFit
<1> QED BY <1>1, <1>2, <1>3, <1>4, <1>5, JoinedRowsFit DEF AccountRows

LEMMA RecordRowsFit == RowsFit(RecordRows)
<1>1. \A code \in {"RECEIPT_ANCHOR_FAILED", "PROOF_VERIFICATION_FAILED", "MEMORY_WRITE_FAILED",
                   "MEMORY_RETRIEVE_FAILED", "REFLECTION_WRITE_FAILED", "SKILL_PUBLISH_FAILED",
                   "SKILL_UPDATE_FAILED", "PLAN_BUILD_FAILED", "EXECUTION_FAILED"} :
         PolicyRetries(code)
  BY DEF PolicyRetries, NotRetryable, WalletPoliciesWithoutRetry, ServicePoliciesWithoutRetry
<1>2. RowsFit(Rows("receipt", "error", TRUE, {"RECEIPT_ANCHOR_FAILED"})) BY <1>1, RowsOfKindFit
<1>3. RowsFit(Rows("proof", "warning", TRUE, {"PROOF_VERIFICATION_FAILED"})) BY <1>1, RowsOfKindFit
<1>4. RowsFit(Rows("memory", "error", TRUE, {"MEMORY_WRITE_FAILED", "MEMORY_RETRIEVE_FAILED"})) BY <1>1, RowsOfKindFit
<1>5. RowsFit(Rows("reflection", "error", TRUE, {"REFLECTION_WRITE_FAILED"})) BY <1>1, RowsOfKindFit
<1>6. RowsFit(Rows("skill", "error", TRUE, {"SKILL_PUBLISH_FAILED", "SKILL_UPDATE_FAILED"})) BY <1>1, RowsOfKindFit
<1>7. RowsFit(Rows("plan", "error", TRUE, {"PLAN_BUILD_FAILED"})) BY <1>1, RowsOfKindFit
<1>8. RowsFit(Rows("execution", "error", TRUE, {"EXECUTION_FAILED"})) BY <1>1, RowsOfKindFit
<1> QED BY <1>2, <1>3, <1>4, <1>5, <1>6, <1>7, <1>8, JoinedRowsFit DEF RecordRows

LEMMA ServiceRowsFit == RowsFit(ServiceRows)
<1>1. \A code \in {"OPENCLAW_IMPORT_FAILED", "OPENCLAW_EXPORT_FAILED", "ZERO_G_STORAGE_FAILED",
                   "ZERO_G_DA_FAILED", "ZERO_G_VERIFY_FAILED", "DB_WRITE_FAILED", "DB_READ_FAILED",
                   "INDEXER_SYNC_FAILED"} : PolicyRetries(code)
  BY DEF PolicyRetries, NotRetryable, WalletPoliciesWithoutRetry, ServicePoliciesWithoutRetry
<1>2. RowsFit(Rows("openclaw", "error", TRUE, {"OPENCLAW_IMPORT_FAILED", "OPENCLAW_EXPORT_FAILED"}))
  BY <1>1, RowsOfKindFit
<1>3. RowsFit(Rows("zerog", "error", TRUE, {"ZERO_G_STORAGE_FAILED", "ZERO_G_DA_FAILED"})) BY <1>1, RowsOfKindFit
<1>4. RowsFit(Rows("zerog", "warning", TRUE, {"ZERO_G_VERIFY_FAILED"})) BY <1>1, RowsOfKindFit
<1>5. RowsFit(Rows("database", "critical", TRUE, {"DB_WRITE_FAILED"})) BY <1>1, RowsOfKindFit
<1>6. RowsFit(Rows("database", "error", TRUE, {"DB_READ_FAILED"})) BY <1>1, RowsOfKindFit
<1>7. RowsFit(Rows("indexer", "warning", TRUE, {"INDEXER_SYNC_FAILED"})) BY <1>1, RowsOfKindFit
<1> QED BY <1>2, <1>3, <1>4, <1>5, <1>6, <1>7, JoinedRowsFit DEF ServiceRows

LEMMA OtherRowsFit == RowsFit(OtherRows)
<1>1. \A code \in {"UNEXPECTED_ROUTE_ERROR", "DEGRADED_MODE", "UNKNOWN"} : PolicyRetries(code)
  BY DEF PolicyRetries, NotRetryable, WalletPoliciesWithoutRetry, ServicePoliciesWithoutRetry
<1>2. RowsFit(Rows("backend", "critical", TRUE, {"UNEXPECTED_ROUTE_ERROR"})) BY <1>1, RowsOfKindFit
<1>3. RowsFit(Rows("backend", "warning", FALSE, {"VALIDATION_FAILED"})) BY RowsOfKindFit
<1>4. RowsFit(Rows("demo", "info", FALSE, {"DEMO_MODE_MISMATCH"})) BY RowsOfKindFit
<1>5. RowsFit(Rows("backend", "warning", TRUE, {"DEGRADED_MODE"})) BY <1>1, RowsOfKindFit
<1>6. RowsFit(Rows("unknown", "error", TRUE, {"UNKNOWN"})) BY <1>1, RowsOfKindFit
<1> QED BY <1>2, <1>3, <1>4, <1>5, <1>6, JoinedRowsFit DEF OtherRows

LEMMA CatalogFits == RowsFit(CatalogRows)
  BY SessionRowsFit, TransactionRowsFit, AccountRowsFit, RecordRowsFit, ServiceRowsFit,
     OtherRowsFit, JoinedRowsFit DEF CatalogRows

LEMMA EntryIsRow ==
  ASSUME NEW code \in ErrorCodes
  PROVE  Catalog[code] \in CatalogRows /\ Catalog[code].code = code
<1>1. \E row \in CatalogRows : row.code = code BY DEF ErrorCodes
<1>2. Catalog[code] = CHOOSE row \in CatalogRows : row.code = code BY DEF Catalog
<1> QED BY <1>1, <1>2

LEMMA ListsAreWarned == Catalog["INDEXER_SYNC_FAILED"].severity = "warning"
<1> DEFINE row == [code |-> "INDEXER_SYNC_FAILED", scope |-> "indexer", severity |-> "warning",
                   retryLabel |-> TRUE]
<1>1. row \in Rows("indexer", "warning", TRUE, {"INDEXER_SYNC_FAILED"}) BY DEF Rows
<1>2. row.code = "INDEXER_SYNC_FAILED" OBVIOUS
<1> HIDE DEF row
<1>3. row \in ServiceRows BY <1>1 DEF ServiceRows
<1>4. "INDEXER_SYNC_FAILED" \in ErrorCodes BY <1>2, <1>3 DEF CatalogRows, ErrorCodes
<1> QED BY <1>4, EntryIsRow, CatalogFits DEF RowsFit

\* What a call fails with, whatever it is, is told.
LEMMA CaughtIsTold ==
  ASSUME SurfaceInv, NEW i \in DOMAIN calls, calls[i].at = "asked", NEW error, Caught(i, error),
         \/ loggedCode' = loggedCode
         \/ loggedCode' = [loggedCode EXCEPT ![i] = error.code] /\ error.status >= 400
  PROVE  SurfaceInv'
<1> DEFINE told == Told(calls[i].kind, error)
           row == [kind |-> calls[i].kind, at |-> "failed", error |-> told]
<1>1. /\ i \in 1..Len(calls)
      /\ calls[i] = [kind |-> calls[i].kind, at |-> calls[i].at, error |-> calls[i].error]
  BY CallsAreList DEF SurfaceInv
<1>2. calls[i].kind = "refresh" => told.severity = "warning" BY ListsAreWarned DEF Told, AppError
<1>3. calls[i].kind = "loop" => told = error BY DEF Told
<1>4. calls' = [calls EXCEPT ![i] = [calls[i] EXCEPT !.at = "failed", !.error = told]] BY DEF Caught
<1>5. PushError(i, told, calls[i].kind # "refresh") BY DEF Caught
<1> HIDE DEF told
<1>6. [calls[i] EXCEPT !.at = "failed", !.error = told] = row
 <2>1. PICK k, a, e : calls[i] = [kind |-> k, at |-> a, error |-> e] BY <1>1
 <2>2. calls[i].kind = k BY <2>1
 <2> DEFINE new == [calls[i] EXCEPT !.at = "failed", !.error = told]
 <2>3. /\ new \in [kind : {k}, at : {a, "failed"}, error : {e, told}]
       /\ new.kind = k /\ new.at = "failed" /\ new.error = told
  <3>1. calls[i] \in [kind : {k}, at : {a, "failed"}, error : {e, told}] BY <2>1
  <3> QED BY <3>1
 <2> HIDE DEF new
 <2>4. new = [kind |-> k, at |-> "failed", error |-> told] BY <2>3
 <2> QED BY <2>2, <2>4 DEF new
<1>7. calls' = [calls EXCEPT ![i] = row] BY <1>4, <1>6
<1>8. \/ loggedCode' = loggedCode
      \/ \E code : /\ loggedCode' = [loggedCode EXCEPT ![i] = code]
                   /\ calls[i].kind = "loop" => told.code = code /\ told.status >= 400
  BY <1>3
<1> QED BY <1>1, <1>2, <1>5, <1>7, <1>8, CaughtHolds

\* A refusal has a status of its own.
LEMMA RefusalHasStatus ==
  /\ \A thrown \in RouteMessages : Fail(thrown).status >= 400
  /\ NotFound.status >= 400
<1>1. ASSUME NEW thrown \in RouteMessages
      PROVE  Fail(thrown).status >= 400
 <2> DEFINE appError == NormalizeServerError(thrown)
 <2>1. thrown.status \in {400, 500}
  <3> DEFINE a == {"walletaddress_required", "wallet"}
             b == {"identity_service_unavailable"}
             c == {"circuit_open", "rpc"}
             d == {"fetch failed"}
             none == {}
             zod == [words |-> {}, status |-> 400, zod |-> TRUE]
  <3>1. /\ thrown \in {Thrown(a, 400), Thrown(b, 400), Thrown(c, 500), Thrown(d, 500),
                       Thrown(none, 400), zod}
        /\ zod.status = 400
    BY DEF RouteMessages
  <3>2. \A words, status : Thrown(words, status).status = status BY DEF Thrown
  <3> HIDE DEF a, b, c, d, none, zod
  <3> QED BY <3>1, <3>2
 <2>2. appError.status \in {0, 400} /\ "status" \in DOMAIN appError BY DEF NormalizeServerError, AppError
 <2>3. Fail(thrown) = [appError EXCEPT !.status = IF @ >= 400 THEN @ ELSE thrown.status] BY DEF Fail
 <2> HIDE DEF appError
 <2> QED BY <2>1, <2>2, <2>3
<1>2. NotFound.status = 404 BY DEF NotFound, AppError
<1> QED BY <1>1, <1>2

\* The banner is dismissed, with or without a retry.
LEMMA DismissedHolds ==
  ASSUME SurfaceInv, surface.active # 0, UNCHANGED <<calls, loggedCode>>,
         surface' = [surface EXCEPT !.active = 0]
           \/ ( /\ calls[surface.active].error.code \notin NotRetryable
                /\ surface' = [surface EXCEPT !.active = 0,
                                  !.pending = Append(surface.pending, surface.active)])
  PROVE  SurfaceInv'
<1>1. surface \in Surfaces BY DEF SurfaceInv, SurfaceTypes
<1>2. surface.active \in FailedCalls
 <2>1. /\ surface.history # <<>> /\ surface.active = surface.history[1]
       /\ Ids(surface.history) \subseteq FailedCalls
   BY DEF SurfaceInv, SurfaceIsCurrent, FailedCalls
 <2>2. 1 \in DOMAIN surface.history BY <1>1, <2>1 DEF Surfaces
 <2> QED BY <2>1, <2>2 DEF Ids
<1>3. /\ surface' \in Surfaces /\ surface'.active = 0 /\ surface'.history = surface.history
      /\ surface'.degraded = surface.degraded
 <2>1. surface.active \in Nat /\ surface.pending \in Seq(Nat) BY <1>1 DEF Surfaces
 <2>2. CASE surface' = [surface EXCEPT !.active = 0] BY <1>1, <2>2 DEF Surfaces
 <2>3. CASE surface' = [surface EXCEPT !.active = 0,
                            !.pending = Append(surface.pending, surface.active)]
  <3> DEFINE more == Append(surface.pending, surface.active)
  <3>1. more \in Seq(Nat) BY <2>1
  <3> HIDE DEF more
  <3>2. surface' = [surface EXCEPT !.active = 0, !.pending = more] BY <2>3 DEF more
  <3> QED BY <1>1, <3>1, <3>2 DEF Surfaces
 <2> QED BY <2>2, <2>3
<1>4. /\ FailedCalls' = FailedCalls /\ SurfaceTypes' /\ LoggedFits'
  BY <1>3 DEF SurfaceInv, SurfaceTypes, LoggedFits, FailedCalls
<1>5. PendingFits'
 <2>1. CASE surface' = [surface EXCEPT !.active = 0]
  <3>1. surface'.pending = surface.pending BY <1>1, <2>1 DEF Surfaces
  <3> QED BY <1>4, <3>1 DEF SurfaceInv, PendingFits
 <2>2. CASE /\ calls[surface.active].error.code \notin NotRetryable
            /\ surface' = [surface EXCEPT !.active = 0,
                               !.pending = Append(surface.pending, surface.active)]
  <3>1. surface'.pending = Append(surface.pending, surface.active) BY <1>1, <2>2 DEF Surfaces
  <3>2. surface.pending \in Seq(Nat) /\ surface.active \in Nat BY <1>1 DEF Surfaces
  <3>3. ASSUME NEW n \in 1..Len(surface'.pending)
        PROVE  \/ surface'.pending[n] = surface.active
               \/ n \in 1..Len(surface.pending) /\ surface'.pending[n] = surface.pending[n]
    BY <3>1, <3>2
  <3> QED BY <1>2, <1>4, <2>2, <3>3 DEF SurfaceInv, PendingFits
 <2> QED BY <2>1, <2>2
<1>6. SurfaceIsCurrent' BY <1>3, <1>4 DEF SurfaceInv, SurfaceIsCurrent, FailedCalls
<1> QED BY <1>4, <1>5, <1>6 DEF SurfaceInv

LEMMA SurfaceStep ==
  ASSUME SurfaceInv, [ErrorSurfaceNext]_surfaceVars
  PROVE  SurfaceInv'
<1>1. ASSUME NEW kind \in {"loop", "boot", "refresh"}, Ask(kind)
      PROVE  SurfaceInv'
  BY <1>1, AsksHolds DEF Ask, CallKinds
<1>2. ASSUME NEW i \in DOMAIN calls, NEW thrown \in RouteMessages, RouteThrows(i, thrown)
      PROVE  SurfaceInv'
 <2>1. Refused(i, Fail(thrown)) /\ Fail(thrown).status >= 400 BY <1>2, RefusalHasStatus DEF RouteThrows
 <2> QED BY <2>1, CaughtIsTold DEF Refused, ThrownByClient
<1>3. ASSUME NEW i \in DOMAIN calls, RowIsMissing(i)
      PROVE  SurfaceInv'
 <2>1. Refused(i, NotFound) /\ NotFound.status >= 400 BY <1>3, RefusalHasStatus DEF RowIsMissing
 <2> QED BY <2>1, CaughtIsTold DEF Refused, ThrownByClient
<1>4. ASSUME NEW i \in DOMAIN calls, NEW words, NEW fallback, AnswerIsLost(i, words, fallback)
      PROVE  SurfaceInv'
  BY <1>4, CaughtIsTold DEF AnswerIsLost
<1>5. ASSUME NEW i \in DOMAIN calls, ListsArrive(i) \/ \E messages : RunAnswers(i, messages)
      PROVE  SurfaceInv'
 <2>1. i \in 1..Len(calls) BY CallsAreList DEF SurfaceInv
 <2>2. /\ calls[i].at = "asked" /\ calls' = [calls EXCEPT ![i].at = "done"]
       /\ loggedCode' = loggedCode /\ surface' = surface
   BY <1>5 DEF ListsArrive, RunAnswers
 <2> QED BY <2>1, <2>2, DoneHolds
<1>6. CASE DismissActive BY <1>6, DismissedHolds DEF DismissActive, Dismissed
<1>7. CASE RetryFromBanner
 <2>1. calls[surface.active].error.code \notin NotRetryable BY <1>7 DEF RetryFromBanner, RetryShown, PolicyRetries
 <2>2. surface \in Surfaces BY DEF SurfaceInv, SurfaceTypes
 <2>3. surface' = [surface EXCEPT !.active = 0]
         \/ surface' = [surface EXCEPT !.active = 0,
                           !.pending = Append(surface.pending, surface.active)]
  <3>1. CASE surface.active \in Ids(surface.pending) BY <1>7, <2>2, <3>1 DEF RetryFromBanner, Dismissed, Surfaces
  <3>2. CASE surface.active \notin Ids(surface.pending) BY <1>7, <2>2, <3>2 DEF RetryFromBanner, Dismissed, Surfaces
  <3> QED BY <3>1, <3>2
 <2>4. surface.active # 0 /\ UNCHANGED <<calls, loggedCode>> BY <1>7 DEF RetryFromBanner
 <2> QED BY <2>1, <2>3, <2>4, DismissedHolds
<1>8. CASE RetryFromPanel BY <1>8, AsksHolds DEF RetryFromPanel, CallKinds
<1>9. CASE UNCHANGED surfaceVars
  BY <1>9 DEF surfaceVars, SurfaceInv, SurfaceTypes, LoggedFits, PendingFits, FailedCalls,
              SurfaceIsCurrent
<1> QED BY <1>1, <1>2, <1>3, <1>4, <1>5, <1>6, <1>7, <1>8, <1>9 DEF ErrorSurfaceNext

\* However many calls fail, with whatever message: what a loop was refused
\* for is told with the code and the status the server has logged, only
\* errors that their policy lets be retried wait in the queue or have a
\* label for a retry, and the history, the banner and the mode of the page
\* are those of the latest failures.
THEOREM ErrorsAreAlwaysTold == ExecutionSpec => []ErrorsAreTold
<1>1. ExecutionInit => SurfaceInv
 <2> SUFFICES ASSUME ErrorSurfaceInit
              PROVE  SurfaceInv
   BY DEF ExecutionInit
 <2>1. SurfaceTypes BY DEF ErrorSurfaceInit, SurfaceTypes, Surfaces
 <2>2. FailedCalls = {} BY DEF ErrorSurfaceInit, FailedCalls
 <2>3. SurfaceIsCurrent
  <3>1. Cardinality(FailedCalls) = 0 BY <2>2, FS_EmptySet
  <3>2. MaxHistory \in Nat \ {0} BY ErrorSurfaceAssumption DEF ErrorSurfaceAssumption
  <3> QED BY <2>2, <3>1, <3>2 DEF ErrorSurfaceInit, SurfaceIsCurrent, FailedCalls, Ids
 <2> QED BY <2>1, <2>3 DEF ErrorSurfaceInit, SurfaceInv, LoggedFits, PendingFits
<1>2. SurfaceInv /\ [ExecutionNext]_executionVars => SurfaceInv'
 <2> SUFFICES ASSUME SurfaceInv, [ExecutionNext]_executionVars
              PROVE  SurfaceInv'
   OBVIOUS
 <2>1. [ErrorSurfaceNext]_surfaceVars BY DEF ExecutionNext, AroundNext, executionVars, aroundVars
 <2> QED BY <2>1, SurfaceStep
<1>3. SurfaceInv => ErrorsAreTold
 <2> SUFFICES ASSUME SurfaceInv
              PROVE  RefusalsAreTold /\ LabelsAreRetries
   BY DEF SurfaceInv, ErrorsAreTold
 <2>1. RefusalsAreTold
  <3>1. DOMAIN calls = 1..Len(calls) BY CallsAreList DEF SurfaceInv
  <3>2. DOMAIN surface.pending = 1..Len(surface.pending) BY DEF SurfaceInv, SurfaceTypes, Surfaces
  <3> QED BY <3>1, <3>2 DEF SurfaceInv, LoggedFits, PendingFits, RefusalsAreTold, Ids
 <2>2. LabelsAreRetries BY CatalogFits, EntryIsRow DEF LabelsAreRetries, RowsFit
 <2> QED BY <2>1, <2>2
<1> QED BY <1>1, <1>2, <1>3, PTL DEF ExecutionSpec
=============================================================================
