-------------------------- MODULE OperationsProofs --------------------------
\* Theorems, for every value of the constants, about the records of what
\* the agents have done and about the pages that show them: the receipts
\* of the agent's memory, the wallet panels of the client, and the command
\* center with its simulated runtime.
EXTENDS MCOperations, MemoryReceipts, SumTheorems

\* The receipts of the agent's memory (MemoryReceipts). The inductive
\* invariant has two halves. BooksInv is what the tables are: well typed,
\* and every receipt and every item of a bundle names what exists. WorkInv
\* is what the threads still do: each call is about what exists, and a
\* list holds first what is under way, then what is asked for; the marks
\* of a bundle come first, an awaited call of the chain is at the head,
\* and the threads of a bundle's links only save and tell.
\* What the calls of a thread are.
PlainNames == {"create", "anchor", "chain", "verify", "link", "bundle"}
Names == PlainNames \cup {"push", "save", "fork", "inject"}
PlainCalls ==
  [do : {"create", "anchor", "chain", "verify"}, r : 0..MaxCreated]
    \cup [do : {"link", "bundle"}, r : 0..MaxCreated, turn : Turns]

Plain(call) == call.do \in PlainNames
Carries(call) == call.do \in {"push", "save"}

\* A list has some set of elements.
IsList(s) == \E S : s \in Seq(S)

BundleSet ==
  [turn : Turns,
   items : Seq([r : Reflections, receipt : Nat, verified : BOOLEAN, signed : BOOLEAN])]

MemoryTypes ==
  /\ reflections \in Seq(ReflectionSet)
  /\ Len(reflections) <= MaxCreated
  /\ receipts \in Seq(ReceiptSet)
  /\ index \in [Reflections -> 0..Len(receipts)]
  /\ links \subseteq ((1..Len(receipts)) \X Turns)
  /\ injections \in Seq(BundleSet)
  /\ patient \in BOOLEAN
  /\ writeFailed \in BOOLEAN

WorkTypes ==
  /\ work = [t \in Threads |-> work[t]]
  /\ \A t \in Threads : IsList(work[t])

\* A call is about reflections, receipts and bundles that exist: n, rs, b.
FitsIn(call, n, rs, b) ==
  /\ call.do \in Names
  /\ Plain(call) => call \in PlainCalls
  /\ call.do \in {"anchor", "verify"} => call.r \in 0..n
  /\ call.do \in {"chain", "link", "save", "inject"} => call.r \in 1..n
  /\ call.do \in {"save", "inject"} =>
        call.receipt \in 1..Len(rs) /\ rs[call.receipt].of = call.r
  /\ call.do = "fork" => call.bundle \in 1..b

Fits(call) == FitsIn(call, Len(reflections), receipts, Len(injections))

CallsFit == \A t \in Threads : \A i \in 1..Len(work[t]) : Fits(work[t][i])

\* The order of the calls of a list: what is under way, then what is asked.
PlainLast(s) == \A i, j \in 1..Len(s) : i < j /\ Plain(s[i]) => Plain(s[j])
InjectsFirst(s) ==
  \A i, j \in 1..Len(s) : i < j /\ s[j].do = "inject" => s[i].do = "inject"
ChainFirst(s) == \A i \in 1..Len(s) : s[i].do = "chain" => i = 1
Owned(s) ==
  \A i \in 1..Len(s) : s[i].do \in {"anchor", "verify"} /\ s[i].r = 0 =>
      \E j \in 1..i : s[j].do = "create"
Ordered(s) == PlainLast(s) /\ InjectsFirst(s) /\ ChainFirst(s) /\ Owned(s)

CallsOrdered == \A t \in Threads : Ordered(work[t])

\* The threads of a bundle's links: they save and push only, while the
\* request waits with its first mark, or is gone.
Children ==
  /\ \A t \in Threads : t[2] # 0 => \A i \in 1..Len(work[t]) : Carries(work[t][i])
  /\ \A t \in Threads : t[2] # 0 /\ work[t] # <<>> /\ work[<<t[1], 0>>] # <<>> =>
        work[<<t[1], 0>>][1].do = "inject"

\* The items of a bundle name receipts of their reflections.
BundlesFit ==
  \A b \in 1..Len(injections) : \A n \in 1..Len(injections[b].items) :
     LET item == injections[b].items[n] IN
       /\ item.r \in 1..Len(reflections)
       /\ item.receipt \in 1..Len(receipts)
       /\ receipts[item.receipt].of = item.r
       /\ index[item.r] # 0

ReceiptsKnown == \A i \in 1..Len(receipts) : receipts[i].of \in 1..Len(reflections)

WorkInv == WorkTypes /\ CallsFit /\ CallsOrdered /\ Children

BooksInv == MemoryTypes /\ BundlesFit /\ ReceiptsKnown /\ IndexNamesOwnReceipt

MemoryInv == BooksInv /\ WorkInv

\* What holds of callers that wait.
Alone == \A t, u \in Threads : work[t] # <<>> /\ work[u] # <<>> => t[1] = u[1]
IndexedAll == \A i \in 1..Len(receipts) : index[receipts[i].of] = i
ChainsFresh ==
  \A t \in Threads : \A i \in 1..Len(work[t]) :
     work[t][i].do = "chain" => index[work[t][i].r] = 0
BundledIn(i, rs, bundles) ==
  \E b \in 1..Len(bundles) :
     /\ bundles[b].turn = rs[i].turn
     /\ \E n \in 1..Len(bundles[b].items) : bundles[b].items[n].receipt = i
BundledFor(i) == BundledIn(i, receipts, injections)
InjectsBundled ==
  \A t \in Threads : \A i \in 1..Len(work[t]) :
     work[t][i].do = "inject" => BundledFor(work[t][i].receipt)
InjectedBundled ==
  \A i \in 1..Len(receipts) : receipts[i].status = "injected" => BundledFor(i)

PatientInv ==
  patient => Alone /\ IndexedAll /\ ChainsFresh /\ InjectsBundled /\ InjectedBundled

\* An event is in the timeline, or some thread will push it.
CarriedIn(e, w) ==
  \E t \in Threads : \E i \in 1..Len(w[t]) : Carries(w[t][i]) /\ e \in w[t][i].events
ToldIn(e, told, w) == e \in told \/ CarriedIn(e, w)
Told(e) == ToldIn(e, events, work)
ForkingIn(b, w) ==
  \E t \in Threads : \E i \in 1..Len(w[t]) : w[t][i].do = "fork" /\ w[t][i].bundle = b
Forking(b) == ForkingIn(b, work)

TellParts ==
  /\ \A i \in 1..Len(receipts) :
        /\ \E st \in {"anchored", "degraded"} : Told(<<"receipt_" \o st, i>>)
        /\ receipts[i].verified => Told(<<"receipt_verified", i>>)
  /\ \A l \in links : Told(<<"receipt_linked", l[1], l[2]>>)
  /\ \A b \in 1..Len(injections) : Told(<<"injection_built", b>>) \/ Forking(b)

TellInv == ~writeFailed => TellParts

----
\* Lists of calls.

LEMMA NoList == IsList(<<>>) /\ Len(<<>>) = 0
<1>1. <<>> \in Seq({}) OBVIOUS
<1> QED BY <1>1 DEF IsList

LEMMA OneList ==
  ASSUME NEW x
  PROVE  IsList(<<x>>) /\ Len(<<x>>) = 1 /\ <<x>>[1] = x
<1>1. <<x>> \in Seq({x}) OBVIOUS
<1> QED BY <1>1 DEF IsList

LEMMA ListLength ==
  ASSUME NEW s, IsList(s)
  PROVE  Len(s) \in Nat /\ DOMAIN s = 1..Len(s) /\ (s = <<>> <=> Len(s) = 0)
<1>1. PICK S : s \in Seq(S) BY DEF IsList
<1> QED BY <1>1

\* A longer set of elements.
LEMMA SeqOfMore ==
  ASSUME NEW S, NEW T, NEW s \in Seq(S), S \subseteq T
  PROVE  s \in Seq(T)
<1>1. Len(s) \in Nat /\ s \in [1..Len(s) -> S] OBVIOUS
<1>2. s \in [1..Len(s) -> T] BY <1>1
<1> QED BY <1>1, <1>2

LEMMA Joined ==
  ASSUME NEW s, IsList(s), NEW q, IsList(q)
  PROVE  /\ IsList(s \o q)
         /\ Len(s \o q) = Len(s) + Len(q)
         /\ \A i \in 1..Len(s) : (s \o q)[i] = s[i]
         /\ \A i \in 1..Len(q) : (s \o q)[Len(s) + i] = q[i]
<1>1. PICK S : s \in Seq(S) BY DEF IsList
<1>2. PICK T : q \in Seq(T) BY DEF IsList
<1>3. s \in Seq(S \cup T) /\ q \in Seq(S \cup T) BY <1>1, <1>2, SeqOfMore
<1>4. s \o q \in Seq(S \cup T) BY <1>3
<1> QED BY <1>3, <1>4 DEF IsList

\* A call put before a list.
LEMMA Prefixed ==
  ASSUME NEW s, IsList(s), NEW x
  PROVE  /\ IsList(<<x>> \o s)
         /\ Len(<<x>> \o s) = Len(s) + 1
         /\ <<x>> \o s # <<>>
         /\ (<<x>> \o s)[1] = x
         /\ \A i \in 1..Len(s) : (<<x>> \o s)[i + 1] = s[i]
         /\ \A i \in 1..(Len(s) + 1) :
              i # 1 => i - 1 \in 1..Len(s) /\ (<<x>> \o s)[i] = s[i - 1]
<1> DEFINE q == <<x>> \o s
<1>1. IsList(<<x>>) /\ Len(<<x>>) = 1 /\ <<x>>[1] = x BY OneList
<1>2. /\ IsList(q) /\ Len(q) = 1 + Len(s)
      /\ q[1] = x
      /\ \A i \in 1..Len(s) : q[1 + i] = s[i]
  BY <1>1, Joined
<1>3. Len(s) \in Nat /\ (q = <<>> <=> Len(q) = 0) BY <1>2, ListLength
<1> HIDE DEF q
<1>4. Len(q) = Len(s) + 1 /\ q # <<>> BY <1>2, <1>3
<1>5. \A i \in 1..Len(s) : i + 1 = 1 + i BY <1>3
<1>6. \A i \in 1..(Len(s) + 1) : i # 1 => i - 1 \in 1..Len(s) /\ 1 + (i - 1) = i BY <1>3
<1>7. \A i \in 1..(Len(s) + 1) : i # 1 => i - 1 \in 1..Len(s) /\ q[i] = s[i - 1] BY <1>2, <1>6
<1> QED BY <1>2, <1>4, <1>5, <1>7 DEF q

\* A list without its head.
LEMMA Behead ==
  ASSUME NEW s, IsList(s), s # <<>>
  PROVE  /\ IsList(Tail(s))
         /\ Len(s) \in Nat \ {0}
         /\ Len(Tail(s)) = Len(s) - 1
         /\ Head(s) = s[1]
         /\ \A i \in 1..(Len(s) - 1) : Tail(s)[i] = s[i + 1] /\ i + 1 \in 1..Len(s)
         /\ 1 \in 1..Len(s)
<1>1. PICK S : s \in Seq(S) BY DEF IsList
<1>2. Tail(s) \in Seq(S) /\ Len(s) \in Nat \ {0} /\ Len(Tail(s)) = Len(s) - 1 BY <1>1
<1> QED BY <1>1, <1>2 DEF IsList

\* A function on the positions of a list is a list.
LEMMA Mapped ==
  ASSUME NEW n \in Nat, NEW f, f = [i \in 1..n |-> f[i]]
  PROVE  IsList(f) /\ Len(f) = n
<1> DEFINE S == {f[i] : i \in 1..n}
<1>1. f \in [1..n -> S]
 <2>1. \A i \in 1..n : f[i] \in S OBVIOUS
 <2> HIDE DEF S
 <2> QED BY <2>1
<1> HIDE DEF S
<1>2. f \in Seq(S) /\ Len(f) = n BY <1>1
<1> QED BY <1>2 DEF IsList

----
\* The order of a list's calls.

LEMMA NoOrder == Ordered(<<>>)
<1>1. \A i \in 1..Len(<<>>) : FALSE BY NoList
<1> QED BY <1>1 DEF Ordered, PlainLast, InjectsFirst, ChainFirst, Owned

\* The rest of a list whose head creates nothing.
LEMMA RestOrdered ==
  ASSUME NEW s, IsList(s), s # <<>>, Ordered(s)
  PROVE  /\ PlainLast(Tail(s)) /\ InjectsFirst(Tail(s))
         /\ \A i \in 1..Len(Tail(s)) : Tail(s)[i].do # "chain"
         /\ s[1].do # "create" => Owned(Tail(s))
         /\ s[1].do # "inject" => \A i \in 1..Len(Tail(s)) : Tail(s)[i].do # "inject"
         /\ Plain(s[1]) => \A i \in 1..Len(Tail(s)) : Plain(Tail(s)[i])
<1> DEFINE q == Tail(s)
<1>1. /\ Len(s) \in Nat \ {0} /\ Len(q) = Len(s) - 1 /\ 1 \in 1..Len(s)
      /\ \A i \in 1..Len(q) : q[i] = s[i + 1] /\ i + 1 \in 1..Len(s)
  BY Behead
<1> HIDE DEF q
<1>2. \A i, j \in 1..Len(q) : i < j => i + 1 < j + 1 BY <1>1
<1>3. \A i \in 1..Len(q) : 1 < i + 1 /\ i + 1 # 1 BY <1>1
<1>4. PlainLast(q) BY <1>1, <1>2 DEF Ordered, PlainLast
<1>5. InjectsFirst(q) BY <1>1, <1>2 DEF Ordered, InjectsFirst
<1>6. \A i \in 1..Len(q) : q[i].do # "chain" BY <1>1, <1>3 DEF Ordered, ChainFirst
<1>7. ASSUME s[1].do # "create" PROVE Owned(q)
 <2> SUFFICES ASSUME NEW i \in 1..Len(q), q[i].do \in {"anchor", "verify"}, q[i].r = 0
              PROVE  \E j \in 1..i : q[j].do = "create"
   BY DEF Owned
 <2>1. i + 1 \in 1..Len(s) /\ s[i + 1].do \in {"anchor", "verify"} /\ s[i + 1].r = 0 BY <1>1
 <2>2. PICK j \in 1..(i + 1) : s[j].do = "create" BY <2>1 DEF Ordered, Owned
 <2>3. j # 1 BY <1>7, <2>2
 <2>4. j - 1 \in 1..i /\ j - 1 \in 1..Len(q) /\ (j - 1) + 1 = j BY <1>1, <2>3
 <2>5. q[j - 1] = s[j] BY <1>1, <2>4
 <2> QED BY <2>2, <2>4, <2>5
<1>8. s[1].do # "inject" => \A i \in 1..Len(q) : q[i].do # "inject" BY <1>1, <1>3 DEF Ordered, InjectsFirst
<1>9. Plain(s[1]) => \A i \in 1..Len(q) : Plain(q[i]) BY <1>1, <1>3 DEF Ordered, PlainLast
<1> QED BY <1>4, <1>5, <1>6, <1>7, <1>8, <1>9 DEF q

\* Dropping the head.
LEMMA DroppedOrdered ==
  ASSUME NEW s, IsList(s), s # <<>>, Ordered(s), s[1].do # "create"
  PROVE  Ordered(Tail(s))
<1> DEFINE q == Tail(s)
<1>1. PlainLast(q) /\ InjectsFirst(q) /\ Owned(q) /\ \A i \in 1..Len(q) : q[i].do # "chain" BY RestOrdered
<1> HIDE DEF q
<1>2. ChainFirst(q) BY <1>1 DEF ChainFirst
<1> QED BY <1>1, <1>2 DEF Ordered, q

\* A call put before a list that holds no chain and no inject, unless it
\* is one: a plain call, before plain calls only.
LEMMA PrefixedOrdered ==
  ASSUME NEW s, IsList(s), PlainLast(s), InjectsFirst(s), Owned(s),
         \A i \in 1..Len(s) : s[i].do # "chain",
         NEW c, c.do \in {"push", "save", "fork", "chain"}, 
         \A i \in 1..Len(s) : s[i].do # "inject",
         c.do = "chain" => \A i \in 1..Len(s) : Plain(s[i])
  PROVE  Ordered(<<c>> \o s)
<1> DEFINE q == <<c>> \o s
<1>1. /\ IsList(q) /\ Len(q) = Len(s) + 1 /\ q[1] = c
      /\ \A i \in 1..Len(s) : q[i + 1] = s[i]
      /\ \A i \in 1..Len(q) : i # 1 => i - 1 \in 1..Len(s) /\ q[i] = s[i - 1]
  BY Prefixed
<1>2. Len(s) \in Nat BY ListLength
<1> HIDE DEF q
<1>3. PlainLast(q)
 <2> SUFFICES ASSUME NEW i \in 1..Len(q), NEW j \in 1..Len(q), i < j, Plain(q[i])
              PROVE  Plain(q[j])
   BY DEF PlainLast
 <2>1. j # 1 /\ j - 1 \in 1..Len(s) /\ q[j] = s[j - 1] BY <1>1, <1>2
 <2>2. CASE i = 1 BY <1>1, <2>2, <2>1 DEF Plain, PlainNames
 <2>3. CASE i # 1 BY <1>1, <1>2, <2>3, <2>1 DEF PlainLast
 <2> QED BY <2>2, <2>3
<1>4. \A i \in 1..Len(q) : q[i].do # "inject" BY <1>1
<1>5. InjectsFirst(q) BY <1>4 DEF InjectsFirst
<1>6. ChainFirst(q) BY <1>1 DEF ChainFirst
<1>7. Owned(q)
 <2> SUFFICES ASSUME NEW i \in 1..Len(q), q[i].do \in {"anchor", "verify"}, q[i].r = 0
              PROVE  \E j \in 1..i : q[j].do = "create"
   BY DEF Owned
 <2>1. i # 1 BY <1>1
 <2>2. i - 1 \in 1..Len(s) /\ q[i] = s[i - 1] BY <1>1, <2>1
 <2>3. PICK j \in 1..(i - 1) : s[j].do = "create" BY <2>2 DEF Owned
 <2>4. j \in 1..Len(s) /\ j + 1 \in 1..i BY <1>2, <2>2
 <2> QED BY <1>1, <2>3, <2>4
<1> QED BY <1>3, <1>5, <1>6, <1>7 DEF Ordered, q

\* A list of marks and a push put before calls that are plain.
LEMMA InjectsOrdered ==
  ASSUME NEW s, IsList(s), PlainLast(s), InjectsFirst(s), Owned(s),
         \A i \in 1..Len(s) : s[i].do # "chain" /\ s[i].do # "inject",
         NEW marks, IsList(marks), \A i \in 1..Len(marks) : marks[i].do = "inject",
         NEW c, c.do = "push"
  PROVE  Ordered(marks \o (<<c>> \o s))
<1> DEFINE p == <<c>> \o s
           q == marks \o p
           m == Len(marks)
<1>1. /\ IsList(p) /\ Len(p) = Len(s) + 1 /\ p[1] = c
      /\ \A i \in 1..Len(p) : i # 1 => i - 1 \in 1..Len(s) /\ p[i] = s[i - 1]
  BY Prefixed
<1>2. Ordered(p) BY PrefixedOrdered
<1>3. \A i \in 1..Len(p) : p[i].do # "inject" /\ p[i].do # "chain" BY <1>1
<1> HIDE DEF p
<1>4. Len(s) \in Nat /\ m \in Nat /\ Len(p) \in Nat BY <1>1, ListLength
<1>5. /\ IsList(q) /\ Len(q) = m + Len(p)
      /\ \A i \in 1..m : q[i] = marks[i]
      /\ \A i \in 1..Len(p) : q[m + i] = p[i]
 <2>1. IsList(p) BY <1>1
 <2> HIDE DEF p
 <2>2. /\ IsList(marks \o p)
       /\ Len(marks \o p) = Len(marks) + Len(p)
       /\ \A i \in 1..Len(marks) : (marks \o p)[i] = marks[i]
       /\ \A i \in 1..Len(p) : (marks \o p)[Len(marks) + i] = p[i]
   BY <2>1, Joined
 <2> QED BY <2>2
<1> HIDE DEF q, m
<1>6. \A i \in 1..Len(q) :
         (i \in 1..m /\ q[i].do = "inject") \/ (i > m /\ i - m \in 1..Len(p) /\ q[i] = p[i - m])
 <2> SUFFICES ASSUME NEW i \in 1..Len(q)
              PROVE  (i \in 1..m /\ q[i].do = "inject")
                       \/ (i > m /\ i - m \in 1..Len(p) /\ q[i] = p[i - m])
   OBVIOUS
 <2>1. CASE i <= m BY <1>4, <1>5, <2>1 DEF m
 <2>2. CASE i > m BY <1>4, <1>5, <2>2
 <2> QED BY <1>4, <2>1, <2>2
<1>7. PlainLast(q)
 <2> SUFFICES ASSUME NEW i \in 1..Len(q), NEW j \in 1..Len(q), i < j, Plain(q[i])
              PROVE  Plain(q[j])
   BY DEF PlainLast
 <2>1. i > m /\ i - m \in 1..Len(p) /\ q[i] = p[i - m] BY <1>6 DEF Plain, PlainNames
 <2>2. j > m /\ i - m < j - m BY <1>4, <1>5, <2>1
 <2>3. j - m \in 1..Len(p) /\ q[j] = p[j - m] BY <1>4, <1>6, <2>2, SMTT(30)
 <2> QED BY <1>2, <2>1, <2>2, <2>3 DEF Ordered, PlainLast
<1>8. InjectsFirst(q)
 <2> SUFFICES ASSUME NEW i \in 1..Len(q), NEW j \in 1..Len(q), i < j, q[j].do = "inject"
              PROVE  q[i].do = "inject"
   BY DEF InjectsFirst
 <2>1. j \in 1..m BY <1>3, <1>6
 <2>2. ~(i > m) BY <1>4, <2>1
 <2> QED BY <1>6, <2>2
<1>9. ChainFirst(q) BY <1>3, <1>6 DEF ChainFirst
<1>10. Owned(q)
 <2> SUFFICES ASSUME NEW i \in 1..Len(q), q[i].do \in {"anchor", "verify"}, q[i].r = 0
              PROVE  \E j \in 1..i : q[j].do = "create"
   BY DEF Owned
 <2>1. i > m /\ i - m \in 1..Len(p) /\ q[i] = p[i - m] BY <1>6
 <2>2. PICK j \in 1..(i - m) : p[j].do = "create" BY <1>2, <2>1 DEF Ordered, Owned
 <2>3. j \in 1..Len(p) /\ m + j \in 1..i BY <1>4, <2>1
 <2> QED BY <1>5, <2>2, <2>3
<1> QED BY <1>7, <1>8, <1>9, <1>10 DEF Ordered, q, p

\* The calls after a creation, about the new reflection, up to the next.
LEMMA NamingKeeps ==
  ASSUME NEW s, IsList(s), NEW new \in 1..MaxCreated,
         \A i \in 1..Len(s) : s[i] \in PlainCalls
  PROVE  /\ IsList(Naming(s, new)) /\ Len(Naming(s, new)) = Len(s)
         /\ \A i \in 1..Len(s) :
              LET call == Naming(s, new)[i] IN
              /\ call.do = s[i].do /\ call \in PlainCalls
              /\ call.r \in {s[i].r, new}
              /\ call.r = 0 => \E j \in 1..i : s[j].do = "create"
<1> DEFINE q == Naming(s, new)
           First(i) == \A j \in 1..i : s[j].do # "create"
<1>1. Len(s) \in Nat /\ DOMAIN s = 1..Len(s) BY ListLength
<1>2. q = [i \in 1..Len(s) |-> IF s[i].r = 0 /\ First(i) THEN [s[i] EXCEPT !.r = new] ELSE s[i]] BY <1>1 DEF Naming
<1>3. q = [i \in 1..Len(s) |-> q[i]] BY <1>2
<1>4. IsList(q) /\ Len(q) = Len(s)
 <2> HIDE DEF q
 <2> QED BY <1>1, <1>3, Mapped
<1>5. ASSUME NEW i \in 1..Len(s)
      PROVE  /\ q[i].do = s[i].do /\ q[i] \in PlainCalls
             /\ q[i].r \in {s[i].r, new}
             /\ q[i].r = 0 => \E j \in 1..i : s[j].do = "create"
 <2>1. q[i] = IF s[i].r = 0 /\ First(i) THEN [s[i] EXCEPT !.r = new] ELSE s[i] BY <1>2
 <2>2. s[i] \in PlainCalls /\ new \in 0..MaxCreated /\ new # 0 BY BoundsAssumption
 <2> HIDE DEF q
 <2>3. CASE s[i].r = 0 /\ First(i) BY <2>1, <2>3, <2>2 DEF PlainCalls
 <2>4. CASE s[i].r # 0 BY <2>1, <2>2, <2>4
 <2>5. CASE ~First(i) BY <2>1, <2>2, <2>5
 <2> QED BY <2>3, <2>4, <2>5
<1> QED BY <1>4, <1>5 DEF q

----
\* The threads.

LEMMA ThreadParts ==
  ASSUME NEW t \in Threads
  PROVE  /\ t[1] \in Callers /\ t[2] \in 0..MaxCreated /\ t = <<t[1], t[2]>>
         /\ <<t[1], 0>> \in Threads /\ <<t[1], 0>>[1] = t[1] /\ <<t[1], 0>>[2] = 0
         /\ t[2] = 0 => <<t[1], 0>> = t
<1>1. t[1] \in Callers /\ t[2] \in 0..MaxCreated /\ t = <<t[1], t[2]>> BY DEF Threads
<1>2. 0 \in 0..MaxCreated BY BoundsAssumption
<1> QED BY <1>1, <1>2 DEF Threads

\* What is recorded only grows, and receipts stay of their reflections.
Grows ==
  /\ Len(reflections) \in Nat /\ Len(reflections') \in Nat
  /\ Len(reflections) <= Len(reflections')
  /\ Len(receipts) \in Nat /\ Len(receipts') \in Nat
  /\ Len(receipts) <= Len(receipts')
  /\ \A i \in 1..Len(receipts) : receipts'[i].of = receipts[i].of
  /\ Len(injections) \in Nat /\ Len(injections') \in Nat
  /\ Len(injections) <= Len(injections')

LEMMA FitsStays ==
  ASSUME Grows, NEW call, Fits(call)
  PROVE  FitsIn(call, Len(reflections'), receipts', Len(injections'))
<1> DEFINE n == Len(reflections)
           k == Len(reflections')
           m == Len(receipts)
           l == Len(receipts')
           b == Len(injections)
           d == Len(injections')
<1>1. /\ 0..n \subseteq 0..k /\ 1..n \subseteq 1..k /\ 1..m \subseteq 1..l
      /\ 1..b \subseteq 1..d
  BY DEF Grows
<1>2. \A i \in 1..m : receipts'[i].of = receipts[i].of BY DEF Grows
<1>3. FitsIn(call, n, receipts, b) BY DEF Fits
<1>4. call.do \in {"save", "inject"} =>
         call.receipt \in 1..l /\ receipts'[call.receipt].of = call.r
  BY <1>1, <1>2, <1>3 DEF FitsIn
<1> HIDE DEF n, k, m, l, b, d
<1>5. FitsIn(call, k, receipts', d) BY <1>1, <1>3, <1>4 DEF FitsIn, l
<1> QED BY <1>5 DEF k, d

\* No link of a bundle of the request is still saved.
Quiet(t) == \A u \in Threads : u[2] # 0 /\ u[1] = t[1] => work[u] = <<>>

LEMMA HeadQuiet ==
  ASSUME WorkInv, NEW t \in Threads, t[2] = 0, work[t] # <<>>, work[t][1].do # "inject"
  PROVE  Quiet(t)
<1>1. <<t[1], 0>> = t BY ThreadParts
<1> QED BY <1>1 DEF WorkInv, Children, Quiet

LEMMA WaitingQuiet ==
  ASSUME NEW t \in Threads, ~Waiting(t[1])
  PROVE  Quiet(t)
<1> SUFFICES ASSUME NEW u \in Threads, u[2] # 0, u[1] = t[1] PROVE work[u] = <<>> BY DEF Quiet
<1>1. u[2] \in 0..MaxCreated /\ u = <<t[1], u[2]>> BY ThreadParts
<1>2. u[2] \in 1..MaxCreated BY <1>1, BoundsAssumption
<1> QED BY <1>1, <1>2 DEF Waiting, Reflections

\* The head of a list of calls that is not empty, and what heads a link.
LEMMA HeadFacts ==
  ASSUME WorkInv, NEW t \in Threads, work[t] # <<>>
  PROVE  /\ IsList(work[t]) /\ Ordered(work[t]) /\ Head(work[t]) = work[t][1]
         /\ Fits(work[t][1]) /\ 1 \in 1..Len(work[t])
         /\ t[2] # 0 => Carries(work[t][1])
<1>1. IsList(work[t]) /\ Ordered(work[t]) BY DEF WorkInv, WorkTypes, CallsOrdered
<1>2. Head(work[t]) = work[t][1] /\ 1 \in 1..Len(work[t]) BY <1>1, Behead
<1> QED BY <1>1, <1>2 DEF WorkInv, CallsFit, Children

\* A list of calls is changed.
LEMMA GoesWhere ==
  ASSUME WorkTypes, NEW t \in Threads, NEW items, Goes(t, items)
  PROVE  /\ work'[t] = items
         /\ \A u \in Threads : u # t => work'[u] = work[u]
         /\ work' = [u \in Threads |-> work'[u]]
<1>1. work = [u \in Threads |-> work[u]] /\ work' = [work EXCEPT ![t] = items] BY DEF WorkTypes, Goes
<1> QED BY <1>1

LEMMA ThreadGoes ==
  ASSUME WorkInv, Grows, NEW t \in Threads, NEW items, Goes(t, items),
         IsList(items), Ordered(items),
         \A i \in 1..Len(items) :
            FitsIn(items[i], Len(reflections'), receipts', Len(injections')),
         t[2] # 0 => work[t] # <<>> /\ \A i \in 1..Len(items) : Carries(items[i]),
         t[2] = 0 => Quiet(t)
  PROVE  WorkInv'
<1>1. /\ work'[t] = items
      /\ \A u \in Threads : u # t => work'[u] = work[u]
      /\ work' = [u \in Threads |-> work'[u]]
  BY GoesWhere DEF WorkInv
<1>2. WorkTypes' BY <1>1 DEF WorkInv, WorkTypes
<1>3. CallsFit'
 <2>1. ASSUME NEW u \in Threads, NEW i \in 1..Len(work'[u])
       PROVE  FitsIn(work'[u][i], Len(reflections'), receipts', Len(injections'))
  <3>1. CASE u = t BY <1>1, <3>1
  <3>2. CASE u # t BY <1>1, <3>2, FitsStays DEF WorkInv, CallsFit
  <3> QED BY <3>1, <3>2
 <2> QED BY <2>1 DEF CallsFit, Fits
<1>4. CallsOrdered'
 <2>1. \A u \in Threads : Ordered(work'[u]) BY <1>1 DEF WorkInv, CallsOrdered
 <2> QED BY <2>1 DEF CallsOrdered, Ordered, PlainLast, InjectsFirst, ChainFirst, Owned
<1>5. Children'
 <2>1. ASSUME NEW u \in Threads, u[2] # 0, NEW i \in 1..Len(work'[u])
       PROVE  Carries(work'[u][i])
   BY <1>1, <2>1 DEF WorkInv, Children
 <2>2. ASSUME NEW u \in Threads, u[2] # 0, work'[u] # <<>>, work'[<<u[1], 0>>] # <<>>
       PROVE  work'[<<u[1], 0>>][1].do = "inject"
  <3>1. <<u[1], 0>> \in Threads /\ <<u[1], 0>>[1] = u[1] /\ <<u[1], 0>>[2] = 0 BY ThreadParts
  <3>2. work[u] # <<>> BY <1>1, <2>2
  <3>3. <<u[1], 0>> # t BY <2>2, <3>1, <3>2 DEF Quiet
  <3>4. work'[<<u[1], 0>>] = work[<<u[1], 0>>] BY <1>1, <3>1, <3>3
  <3> QED BY <2>2, <3>2, <3>4 DEF WorkInv, Children
 <2> QED BY <2>1, <2>2 DEF Children, Carries
<1> QED BY <1>2, <1>3, <1>4, <1>5 DEF WorkInv

\* The head is done.
LEMMA HeadDone ==
  ASSUME WorkInv, Grows, NEW t \in Threads, work[t] # <<>>, work[t][1].do # "create",
         t[2] = 0 => Quiet(t), Goes(t, Rest(t))
  PROVE  WorkInv'
<1> DEFINE s == work[t]
           q == Tail(work[t])
<1>1. IsList(s) /\ Ordered(s) BY HeadFacts
<1>2. Ordered(q) BY <1>1, DroppedOrdered
<1>3. /\ IsList(q) /\ Len(q) = Len(s) - 1
      /\ \A i \in 1..Len(q) : q[i] = s[i + 1] /\ i + 1 \in 1..Len(s)
  BY <1>1, Behead
<1>4. Goes(t, q) BY DEF Rest
<1> HIDE DEF q
<1>5. ASSUME NEW i \in 1..Len(q)
      PROVE  /\ FitsIn(q[i], Len(reflections'), receipts', Len(injections'))
             /\ t[2] # 0 => Carries(q[i]) BY <1>3, FitsStays DEF WorkInv, CallsFit, Children
<1> QED BY <1>2, <1>3, <1>4, <1>5, ThreadGoes

\* The head is done, but for the call c that is left of it.
LEMMA HeadTurns ==
  ASSUME WorkInv, Grows, NEW t \in Threads, work[t] # <<>>, 
         work[t][1].do \notin {"create", "inject"},
         NEW c, c.do \in {"push", "save", "fork", "chain"},
         FitsIn(c, Len(reflections'), receipts', Len(injections')),
         c.do = "chain" => Plain(work[t][1]),
         t[2] # 0 => Carries(c),
         Goes(t, <<c>> \o Rest(t))
  PROVE  WorkInv'
<1> DEFINE s == work[t]
           q == Tail(work[t])
           p == <<c>> \o q
<1>1. IsList(s) /\ Ordered(s) BY HeadFacts
<1>2. /\ PlainLast(q) /\ InjectsFirst(q) /\ Owned(q)
      /\ \A i \in 1..Len(q) : q[i].do # "chain"
      /\ \A i \in 1..Len(q) : q[i].do # "inject"
      /\ Plain(s[1]) => \A i \in 1..Len(q) : Plain(q[i])
  BY <1>1, RestOrdered
<1>3. /\ IsList(q) /\ Len(q) = Len(s) - 1
      /\ \A i \in 1..Len(q) : q[i] = s[i + 1] /\ i + 1 \in 1..Len(s)
  BY <1>1, Behead
<1>4. Goes(t, p) BY DEF Rest
<1> HIDE DEF q
<1>5. Ordered(p) BY <1>2, <1>3, PrefixedOrdered
<1>6. /\ IsList(p) /\ Len(p) = Len(q) + 1 /\ p[1] = c
      /\ \A i \in 1..Len(p) : i # 1 => i - 1 \in 1..Len(q) /\ p[i] = q[i - 1]
  BY <1>3, Prefixed
<1>7. ASSUME NEW i \in 1..Len(q)
      PROVE  /\ FitsIn(q[i], Len(reflections'), receipts', Len(injections'))
             /\ t[2] # 0 => Carries(q[i]) BY <1>3, FitsStays DEF WorkInv, CallsFit, Children
<1> HIDE DEF p
<1>8. \A i \in 1..Len(p) :
         /\ FitsIn(p[i], Len(reflections'), receipts', Len(injections'))
         /\ t[2] # 0 => Carries(p[i])
  BY <1>6, <1>7
<1>9. t[2] = 0 => Quiet(t) BY HeadQuiet
<1> QED BY <1>4, <1>5, <1>6, <1>8, <1>9, ThreadGoes

\* The rest is given up.
LEMMA HeadEnds ==
  ASSUME WorkInv, Grows, NEW t \in Threads, work[t] # <<>>, t[2] = 0 => Quiet(t),
         Goes(t, <<>>)
  PROVE  WorkInv'
<1>1. IsList(<<>>) /\ Ordered(<<>>) /\ \A i \in 1..Len(<<>>) : FALSE BY NoList, NoOrder
<1> QED BY <1>1, ThreadGoes

----
\* What is recorded.

LEMMA BooksSame ==
  ASSUME BooksInv, UNCHANGED <<reflections, receipts, index, links, injections, patient>>,
         writeFailed' \in BOOLEAN
  PROVE  BooksInv' /\ Grows
<1>1. /\ reflections' = reflections /\ receipts' = receipts /\ index' = index
      /\ links' = links /\ injections' = injections /\ patient' = patient
  OBVIOUS
<1>2. MemoryTypes' BY <1>1 DEF BooksInv, MemoryTypes
<1>3. BundlesFit' /\ ReceiptsKnown' /\ IndexNamesOwnReceipt'
  BY <1>1 DEF BooksInv, BundlesFit, ReceiptsKnown, IndexNamesOwnReceipt
<1>4. Len(reflections) \in Nat /\ Len(receipts) \in Nat /\ Len(injections) \in Nat BY DEF BooksInv, MemoryTypes
<1>5. Grows BY <1>1, <1>4 DEF Grows
<1> QED BY <1>2, <1>3, <1>5 DEF BooksInv

LEMMA BooksGrow ==
  ASSUME BooksInv, Grows, MemoryTypes', injections' = injections,
         \A r \in Reflections : index[r] # 0 => index'[r] # 0,
         \A r \in Reflections : index'[r] # 0 => receipts'[index'[r]].of = r,
         \A i \in 1..Len(receipts') : receipts'[i].of \in 1..Len(reflections')
  PROVE  BooksInv'
<1>1. 1..Len(reflections) \subseteq Reflections BY BoundsAssumption DEF BooksInv, MemoryTypes, Reflections
<1>2. /\ 1..Len(reflections) \subseteq 1..Len(reflections')
      /\ 1..Len(receipts) \subseteq 1..Len(receipts')
  BY DEF Grows
<1>3. BundlesFit'
 <2> SUFFICES ASSUME NEW b \in 1..Len(injections), NEW n \in 1..Len(injections[b].items)
              PROVE  /\ injections[b].items[n].r \in 1..Len(reflections')
                     /\ injections[b].items[n].receipt \in 1..Len(receipts')
                     /\ receipts'[injections[b].items[n].receipt].of
                          = injections[b].items[n].r
                     /\ index'[injections[b].items[n].r] # 0
   BY Zenon DEF BundlesFit
 <2> DEFINE r == injections[b].items[n].r
            i == injections[b].items[n].receipt
 <2>1. r \in 1..Len(reflections) /\ i \in 1..Len(receipts) /\ receipts[i].of = r /\ index[r] # 0
   BY DEF BooksInv, BundlesFit
 <2> HIDE DEF r, i
 <2>2. r \in Reflections /\ receipts'[i].of = receipts[i].of BY <1>1, <2>1 DEF Grows
 <2>3. /\ r \in 1..Len(reflections') /\ i \in 1..Len(receipts')
       /\ receipts'[i].of = r /\ index'[r] # 0
   BY <1>2, <2>1, <2>2
 <2> QED BY <2>3 DEF r, i
<1>4. ReceiptsKnown' /\ IndexNamesOwnReceipt' BY DEF ReceiptsKnown, IndexNamesOwnReceipt
<1> QED BY <1>3, <1>4 DEF BooksInv

\* A change of receipts that leaves whose they are.
LEMMA ReceiptsChange ==
  ASSUME BooksInv, NEW f, f = [i \in 1..Len(receipts) |-> f[i]],
         \A i \in 1..Len(receipts) : f[i] \in ReceiptSet /\ f[i].of = receipts[i].of,
         receipts' = f, UNCHANGED <<reflections, injections, patient, writeFailed>>,
         links' \subseteq ((1..Len(receipts)) \X Turns),
         index' \in [Reflections -> 0..Len(receipts)],
         \A r \in Reflections : index[r] # 0 => index'[r] # 0,
         \A r \in Reflections : index'[r] # 0 => receipts[index'[r]].of = r
  PROVE  BooksInv' /\ Grows
<1>1. Len(receipts) \in Nat /\ Len(reflections) \in Nat /\ Len(injections) \in Nat BY DEF BooksInv, MemoryTypes
<1>2. f \in [1..Len(receipts) -> ReceiptSet] BY Zenon
<1>3. f \in Seq(ReceiptSet) /\ Len(f) = Len(receipts) BY <1>1, <1>2
<1>4. MemoryTypes' BY <1>3 DEF BooksInv, MemoryTypes
<1>5. Grows BY <1>1, <1>3 DEF Grows
<1>6. \A r \in Reflections : index'[r] # 0 => receipts'[index'[r]].of = r BY <1>1
<1>7. \A i \in 1..Len(receipts') : receipts'[i].of \in 1..Len(reflections') BY <1>3 DEF BooksInv, ReceiptsKnown
<1> QED BY <1>4, <1>5, <1>6, <1>7, BooksGrow

----
\* The steps.

LEMMA PushedKeeps ==
  ASSUME MemoryInv, NEW t \in Threads, Pushed(t)
  PROVE  MemoryInv'
<1>1. /\ work[t] # <<>> /\ Head(work[t]).do = "push" /\ Goes(t, Rest(t))
      /\ UNCHANGED <<reflections, receipts, index, links, injections, patient>>
      /\ writeFailed' = writeFailed
  BY DEF Pushed, Does
<1>2. BooksInv' /\ Grows BY <1>1, BooksSame DEF MemoryInv, BooksInv, MemoryTypes
<1>3. work[t][1].do = "push" BY <1>1, HeadFacts DEF MemoryInv
<1>4. t[2] = 0 => Quiet(t) BY <1>1, <1>3, HeadQuiet DEF MemoryInv
<1>5. WorkInv' BY <1>1, <1>2, <1>3, <1>4, HeadDone DEF MemoryInv
<1> QED BY <1>2, <1>5 DEF MemoryInv

LEMMA RejectsKeeps ==
  ASSUME MemoryInv, NEW t \in Threads, Rejects(t)
  PROVE  MemoryInv'
<1> DEFINE o == <<t[1], 0>>
<1>1. /\ work' = [work EXCEPT ![t] = <<>>, ![o] = <<>>]
      /\ UNCHANGED <<reflections, receipts, index, links, injections, patient>>
      /\ writeFailed' = TRUE
  BY Zenon DEF Rejects
<1>2. BooksInv' /\ Grows BY <1>1, BooksSame DEF MemoryInv
<1>3. o \in Threads /\ o[1] = t[1] /\ o[2] = 0 BY ThreadParts
<1>4. work = [u \in Threads |-> work[u]] BY DEF MemoryInv, WorkInv, WorkTypes
<1> HIDE DEF o
<1>5. /\ work' = [u \in Threads |-> work'[u]]
      /\ \A u \in Threads : work'[u] = work[u] \/ work'[u] = <<>>
  BY <1>1, <1>3, <1>4
<1>6. IsList(<<>>) /\ Ordered(<<>>) /\ \A i \in 1..Len(<<>>) : FALSE BY NoList, NoOrder
<1>7. WorkTypes' BY <1>5, <1>6 DEF MemoryInv, WorkInv, WorkTypes
<1>8. CallsFit'
 <2>1. ASSUME NEW u \in Threads, NEW i \in 1..Len(work'[u])
       PROVE  FitsIn(work'[u][i], Len(reflections'), receipts', Len(injections'))
   BY <1>5, <1>6, <1>2, FitsStays DEF MemoryInv, WorkInv, CallsFit
 <2> QED BY <2>1 DEF CallsFit, Fits
<1>9. CallsOrdered'
 <2>1. \A u \in Threads : Ordered(work'[u]) BY <1>5, <1>6 DEF MemoryInv, WorkInv, CallsOrdered
 <2> QED BY <2>1 DEF CallsOrdered, Ordered, PlainLast, InjectsFirst, ChainFirst, Owned
<1>10. Children'
 <2>1. ASSUME NEW u \in Threads, u[2] # 0, NEW i \in 1..Len(work'[u])
       PROVE  Carries(work'[u][i]) BY <1>5, <1>6, <2>1 DEF MemoryInv, WorkInv, Children
 <2>2. ASSUME NEW u \in Threads, u[2] # 0, work'[u] # <<>>, work'[<<u[1], 0>>] # <<>>
       PROVE  work'[<<u[1], 0>>][1].do = "inject"
   BY ThreadParts, <1>5, <2>2 DEF MemoryInv, WorkInv, Children
 <2> QED BY <2>1, <2>2 DEF Children, Carries
<1> QED BY <1>2, <1>7, <1>8, <1>9, <1>10 DEF MemoryInv, WorkInv

\* A reflection is kept, and the calls that follow are about it.
LEMMA CreatedKeeps ==
  ASSUME MemoryInv, NEW t \in Threads, NEW a \in Advices, NEW p \in Priorities,
         Created(t, a, p)
  PROVE  MemoryInv'
<1> DEFINE s == work[t]
           q == Tail(work[t])
           new == Len(reflections) + 1
           named == Naming(q, new)
           c == Push({<<"reflection_stored", new>>})
           items == <<c>> \o named
           row == [advice |-> a, priority |-> p]
<1>1. /\ s # <<>> /\ Head(s).do = "create" /\ Goes(t, items)
      /\ Len(reflections) < MaxCreated /\ reflections' = Append(reflections, row)
      /\ UNCHANGED <<receipts, index, links, injections, patient, writeFailed>>
  BY DEF Created, Does, Rest
<1>2. /\ IsList(s) /\ Ordered(s) /\ s[1].do = "create" /\ (t[2] # 0 => Carries(s[1])) BY <1>1, HeadFacts DEF MemoryInv
<1>3. t[2] = 0 /\ Quiet(t) BY <1>1, <1>2, HeadQuiet DEF MemoryInv, Carries
<1>4. /\ reflections \in Seq(ReflectionSet) /\ Len(reflections) \in Nat
      /\ Len(receipts) \in Nat /\ Len(injections) \in Nat
  BY DEF MemoryInv, BooksInv, MemoryTypes
<1>5. row \in ReflectionSet BY DEF ReflectionSet
<1>6. reflections' \in Seq(ReflectionSet) /\ Len(reflections') = new /\ new \in 1..MaxCreated
  BY <1>1, <1>4, <1>5, BoundsAssumption
<1>7. MemoryTypes' BY <1>1, <1>6, BoundsAssumption DEF MemoryInv, BooksInv, MemoryTypes
<1>8. Grows BY <1>1, <1>4, <1>6 DEF Grows
<1>9. BooksInv'
 <2>1. \A r \in Reflections : index'[r] # 0 => receipts'[index'[r]].of = r
   BY <1>1 DEF MemoryInv, BooksInv, IndexNamesOwnReceipt
 <2>2. \A i \in 1..Len(receipts) : receipts[i].of \in 1..Len(reflections) BY DEF MemoryInv, BooksInv, ReceiptsKnown
 <2>3. 1..Len(reflections) \subseteq 1..Len(reflections') BY <1>8 DEF Grows
 <2>4. \A i \in 1..Len(receipts') : receipts'[i].of \in 1..Len(reflections') BY <1>1, <2>2, <2>3
 <2> QED BY <1>1, <1>7, <1>8, <2>1, <2>4, BooksGrow DEF MemoryInv
<1>10. /\ IsList(q) /\ Len(q) = Len(s) - 1
       /\ \A i \in 1..Len(q) : q[i] = s[i + 1] /\ i + 1 \in 1..Len(s)
  BY <1>1, <1>2, Behead
<1>11. /\ PlainLast(q) /\ \A i \in 1..Len(q) : Plain(q[i]) /\ q[i].do # "chain"
  BY <1>1, <1>2, RestOrdered DEF Plain, PlainNames
<1>12. \A i \in 1..Len(q) : Fits(q[i]) BY <1>10 DEF MemoryInv, WorkInv, CallsFit
<1>13. \A i \in 1..Len(q) : q[i] \in PlainCalls BY <1>11, <1>12 DEF Fits, FitsIn
<1> HIDE DEF q
<1>14. /\ IsList(named) /\ Len(named) = Len(q)
       /\ \A i \in 1..Len(q) :
            /\ named[i].do = q[i].do /\ named[i] \in PlainCalls
            /\ named[i].r \in {q[i].r, new}
            /\ named[i].r = 0 => \E j \in 1..i : q[j].do = "create"
 <2> HIDE DEF new
 <2> QED BY <1>6, <1>10, <1>13, NamingKeeps
<1>15. Len(q) \in Nat BY <1>10, ListLength
<1> HIDE DEF named
<1>16. /\ PlainLast(named) /\ InjectsFirst(named) /\ Owned(named)
       /\ \A i \in 1..Len(named) : named[i].do # "chain" /\ named[i].do # "inject"
 <2>1. \A i \in 1..Len(named) : Plain(named[i]) /\ named[i].do # "chain"  BY <1>11, <1>14 DEF Plain
 <2>2. \A i \in 1..Len(named) : named[i].do # "inject" BY <2>1 DEF Plain, PlainNames
 <2>3. Owned(named)
  <3> SUFFICES ASSUME NEW i \in 1..Len(named), named[i].r = 0
               PROVE  \E j \in 1..i : named[j].do = "create"
    BY DEF Owned
  <3>1. PICK j \in 1..i : q[j].do = "create" BY <1>14
  <3>2. j \in 1..Len(q) BY <1>14, <1>15
  <3> QED BY <1>14, <3>1, <3>2
 <2> QED BY <2>1, <2>2, <2>3 DEF PlainLast, InjectsFirst
<1>17. c.do = "push" BY DEF Push
<1> HIDE DEF c
<1>18. Ordered(items) BY <1>14, <1>16, <1>17, PrefixedOrdered
<1>19. /\ IsList(items) /\ Len(items) = Len(named) + 1 /\ items[1] = c
       /\ \A i \in 1..Len(items) : i # 1 => i - 1 \in 1..Len(named) /\ items[i] = named[i - 1]
  BY <1>14, Prefixed
<1>20. \A call : call.do = "push"
          => FitsIn(call, Len(reflections'), receipts', Len(injections'))
  BY DEF FitsIn, Names, Plain, PlainNames
<1>21. ASSUME NEW i \in 1..Len(named)
       PROVE  FitsIn(named[i], Len(reflections'), receipts', Len(injections'))
 <2>1. /\ named[i].do = q[i].do /\ named[i] \in PlainCalls
       /\ named[i].r \in {q[i].r, new} /\ i \in 1..Len(q)
   BY <1>14
 <2>2. named[i].do \in {"create", "anchor", "verify", "link", "bundle"} BY <1>11, <2>1 DEF Plain, PlainNames
 <2>3. FitsIn(q[i], Len(reflections'), receipts', Len(injections')) BY <1>8, <1>12, <2>1, FitsStays
 <2>4. new \in 1..Len(reflections') /\ new \in 0..Len(reflections') BY <1>4, <1>6
 <2> HIDE DEF new
 <2> QED BY <2>1, <2>2, <2>3, <2>4 DEF FitsIn, Names, PlainNames
<1> HIDE DEF items, s, new, row
<1>22. \A i \in 1..Len(items) :
          FitsIn(items[i], Len(reflections'), receipts', Len(injections'))
  BY <1>17, <1>19, <1>20, <1>21
<1>23. WorkInv' BY <1>1, <1>3, <1>8, <1>18, <1>19, <1>22, ThreadGoes DEF MemoryInv
<1> QED BY <1>9, <1>23 DEF MemoryInv

----
\* The calls at the head are about a reflection that exists.
LEMMA HeadNamed ==
  ASSUME MemoryInv, NEW t \in Threads, work[t] # <<>>,
         work[t][1].do \in {"anchor", "verify", "chain", "link", "save", "inject"}
  PROVE  work[t][1].r \in 1..Len(reflections) /\ work[t][1].r \in Reflections
<1> DEFINE call == work[t][1]
<1>1. Ordered(work[t]) /\ Fits(call) /\ 1 \in 1..Len(work[t]) BY HeadFacts DEF MemoryInv
<1>2. Len(reflections) \in Nat /\ Len(reflections) <= MaxCreated BY DEF MemoryInv, BooksInv, MemoryTypes
<1>3. ASSUME call.do \in {"anchor", "verify"} PROVE call.r \in 1..Len(reflections)
 <2>1. call.r \in 0..Len(reflections) BY <1>1, <1>3 DEF Fits, FitsIn
 <2>2. ASSUME call.r = 0 PROVE FALSE
  <3>1. PICK j \in 1..1 : work[t][j].do = "create" BY <1>1, <1>3, <2>2 DEF Ordered, Owned
  <3>2. j = 1 OBVIOUS
  <3> QED BY <1>3, <3>1, <3>2
 <2> HIDE DEF call
 <2> QED BY <1>2, <2>1, <2>2
<1>4. ASSUME call.do \in {"chain", "link", "save", "inject"} PROVE call.r \in 1..Len(reflections)
  BY <1>1, <1>4 DEF Fits, FitsIn
<1>5. call.r \in 1..Len(reflections) BY <1>3, <1>4
<1> HIDE DEF call
<1>6. call.r \in Reflections BY <1>2, <1>5, BoundsAssumption DEF Reflections
<1> QED BY <1>5, <1>6 DEF call

LEMMA PushFits ==
  ASSUME NEW what, NEW n, NEW rs, NEW b
  PROVE  FitsIn(Push(what), n, rs, b) /\ Push(what).do = "push" /\ Carries(Push(what))
         /\ Push(what).events = what
<1>1. Push(what).do = "push" /\ Push(what).events = what BY DEF Push
<1> QED BY <1>1 DEF FitsIn, Names, Plain, PlainNames, Carries

LEMMA PlainHead ==
  ASSUME MemoryInv, NEW t \in Threads, work[t] # <<>>, Plain(work[t][1])
  PROVE  t[2] = 0 /\ Quiet(t)
<1>1. t[2] # 0 => Carries(work[t][1]) BY HeadFacts DEF MemoryInv
<1>2. t[2] = 0 /\ work[t][1].do # "inject" BY <1>1 DEF Plain, PlainNames, Carries
<1> QED BY <1>2, HeadQuiet DEF MemoryInv

LEMMA SaveAnchorKeeps ==
  ASSUME MemoryInv, NEW t \in Threads, work[t] # <<>>,
         work[t][1].do \in {"anchor", "chain"},
         NEW r \in 1..Len(reflections), r \in Reflections,
         NEW tx \in {"signed", "simulated", None}, SaveAnchor(t, r, tx),
         UNCHANGED <<reflections, links, injections, patient, writeFailed>>
  PROVE  MemoryInv'
<1> DEFINE m == Len(receipts)
           row == [of |-> r, tx |-> tx, status |-> AnchorStatus(tx),
                   verified |-> FALSE, turn |-> None]
           c == Push({<<"receipt_" \o AnchorStatus(tx), m + 1>>})
<1>1. /\ receipts' = Append(receipts, row)
      /\ index' = [index EXCEPT ![r] = m + 1]
      /\ Goes(t, <<c>> \o Rest(t))
  BY DEF SaveAnchor
<1>2. /\ receipts \in Seq(ReceiptSet) /\ m \in Nat /\ index \in [Reflections -> 0..m]
      /\ Len(reflections) \in Nat /\ Len(injections) \in Nat
      /\ links \subseteq ((1..m) \X Turns)
  BY DEF MemoryInv, BooksInv, MemoryTypes
<1>3. row \in ReceiptSet BY DEF ReceiptSet, AnchorStatus
<1>4. /\ receipts' \in Seq(ReceiptSet) /\ Len(receipts') = m + 1
      /\ \A i \in 1..m : receipts'[i] = receipts[i]
      /\ receipts'[m + 1] = row
 <2> HIDE DEF row
 <2> QED BY <1>1, <1>2, <1>3
<1>5. row.of = r OBVIOUS
<1> HIDE DEF row, c
<1>6. 0..m \subseteq 0..(m + 1) /\ m + 1 \in 0..(m + 1) /\ 1..m \subseteq 1..(m + 1)
      /\ m + 1 # 0 /\ m + 1 \in Nat /\ m <= m + 1
  BY <1>2
<1>7. /\ index' \in [Reflections -> 0..Len(receipts')]
      /\ index'[r] = m + 1
      /\ \A s \in Reflections : s # r => index'[s] = index[s]
 <2> HIDE DEF m
 <2> QED BY <1>1, <1>2, <1>4, <1>6
<1>8. links' \subseteq ((1..Len(receipts')) \X Turns) BY <1>2, <1>4, <1>6, Zenon
<1>9. MemoryTypes' BY <1>4, <1>7, <1>8 DEF MemoryInv, BooksInv, MemoryTypes
<1>10. Grows BY <1>2, <1>4, <1>6 DEF Grows
<1>11. \A i \in 1..Len(receipts') : i \in 1..m \/ i = m + 1 BY <1>2, <1>4
<1> HIDE DEF m
<1>12. BooksInv'
 <2>1. \A s \in Reflections : index[s] # 0 => index'[s] # 0 BY <1>6, <1>7
 <2>2. ASSUME NEW s \in Reflections, index'[s] # 0 PROVE receipts'[index'[s]].of = s
  <3>1. CASE s = r BY <1>4, <1>5, <1>7, <3>1
  <3>2. CASE s # r
   <4>1. index'[s] = index[s] /\ index[s] \in 0..m /\ receipts[index[s]].of = s
     BY <1>2, <1>7, <2>2, <3>2 DEF MemoryInv, BooksInv, IndexNamesOwnReceipt
   <4>2. index[s] \in 1..m BY <1>2, <2>2, <4>1
   <4> QED BY <1>4, <4>1, <4>2
  <3> QED BY <3>1, <3>2
 <2>3. \A i \in 1..Len(receipts') : receipts'[i].of \in 1..Len(reflections')
   BY <1>4, <1>5, <1>11 DEF MemoryInv, BooksInv, ReceiptsKnown, m
 <2> QED BY <1>9, <1>10, <2>1, <2>2, <2>3, BooksGrow DEF MemoryInv
<1>13. FitsIn(c, Len(reflections'), receipts', Len(injections')) /\ c.do = "push" /\ Carries(c) BY PushFits DEF c
<1>14. WorkInv' BY <1>1, <1>10, <1>13, HeadTurns DEF MemoryInv
<1> QED BY <1>12, <1>14 DEF MemoryInv

LEMMA AnchoredKeeps ==
  ASSUME MemoryInv, NEW t \in Threads, Anchored(t)
  PROVE  MemoryInv'
<1> DEFINE r == Head(work[t]).r
<1>1. /\ work[t] # <<>> /\ Head(work[t]).do = "anchor"
      /\ UNCHANGED <<reflections, links, injections, patient, writeFailed>>
  BY DEF Anchored, Does
<1>2. Head(work[t]) = work[t][1] /\ work[t][1].do = "anchor" /\ r = work[t][1].r BY <1>1, HeadFacts DEF MemoryInv
<1>3. r \in 1..Len(reflections) /\ r \in Reflections BY <1>1, <1>2, HeadNamed
<1>4. t[2] = 0 /\ Quiet(t) /\ Plain(work[t][1]) BY <1>1, <1>2, PlainHead DEF Plain, PlainNames
<1> HIDE DEF r
<1>5. \/ Goes(t, Rest(t)) /\ UNCHANGED <<receipts, index>>
      \/ Goes(t, <<Call("chain", r)>> \o Rest(t)) /\ UNCHANGED <<receipts, index>>
      \/ SaveAnchor(t, r, "simulated")
  BY SettingsAssumption DEF Anchored, r
<1>6. CASE Goes(t, Rest(t)) /\ UNCHANGED <<receipts, index>>
 <2>1. BooksInv' /\ Grows BY <1>1, <1>6, BooksSame DEF MemoryInv, BooksInv, MemoryTypes
 <2>2. WorkInv' BY <1>1, <1>2, <1>4, <1>6, <2>1, HeadDone DEF MemoryInv
 <2> QED BY <2>1, <2>2 DEF MemoryInv
<1>7. CASE Goes(t, <<Call("chain", r)>> \o Rest(t)) /\ UNCHANGED <<receipts, index>>
 <2> DEFINE c == Call("chain", r)
 <2>1. BooksInv' /\ Grows BY <1>1, <1>7, BooksSame DEF MemoryInv, BooksInv, MemoryTypes
 <2>2. c.do = "chain" /\ c.r = r /\ c \in PlainCalls BY <1>3, BoundsAssumption DEF Reflections, Call, PlainCalls
 <2> HIDE DEF c
 <2>3. FitsIn(c, Len(reflections'), receipts', Len(injections'))
   BY <1>1, <1>3, <2>2 DEF FitsIn, Names, Plain, PlainNames
 <2>4. WorkInv'
  <3>1. Goes(t, <<c>> \o Rest(t)) BY <1>7 DEF c
  <3> QED BY <1>1, <1>2, <1>4, <2>1, <2>2, <2>3, <3>1, HeadTurns DEF MemoryInv
 <2> QED BY <2>1, <2>4 DEF MemoryInv
<1>8. CASE SaveAnchor(t, r, "simulated") BY <1>1, <1>2, <1>3, <1>8, SaveAnchorKeeps
<1> QED BY <1>5, <1>6, <1>7, <1>8

LEMMA AnchorAnsweredKeeps ==
  ASSUME MemoryInv, NEW t \in Threads, NEW tx \in {"signed", None}, AnchorAnswered(t, tx)
  PROVE  MemoryInv'
<1> DEFINE r == Head(work[t]).r
<1>1. /\ work[t] # <<>> /\ Head(work[t]).do = "chain" /\ SaveAnchor(t, r, tx)
      /\ UNCHANGED <<reflections, links, injections, patient, writeFailed>>
  BY DEF AnchorAnswered, Does
<1>2. Head(work[t]) = work[t][1] /\ work[t][1].do = "chain" /\ r = work[t][1].r BY <1>1, HeadFacts DEF MemoryInv
<1>3. r \in 1..Len(reflections) /\ r \in Reflections BY <1>1, <1>2, HeadNamed
<1> HIDE DEF r
<1> QED BY <1>1, <1>2, <1>3, SaveAnchorKeeps

\* The receipts of reflections that have one are linked, or marked.
LEMMA LinkedBooks ==
  ASSUME MemoryInv, NEW rs, rs \subseteq Reflections, \A r \in rs : index[r] # 0,
         NEW turn \in Turns, LinkTo(rs, turn),
         UNCHANGED <<reflections, index, injections, patient, writeFailed>>
  PROVE  BooksInv' /\ Grows
<1> DEFINE f == [i \in 1..Len(receipts) |->
                   IF \E r \in rs : index[r] = i
                   THEN [receipts[i] EXCEPT !.turn = turn, !.status = "linked"]
                   ELSE receipts[i]]
<1>1. receipts \in Seq(ReceiptSet) /\ index \in [Reflections -> 0..Len(receipts)]
      /\ links \subseteq ((1..Len(receipts)) \X Turns)
  BY DEF MemoryInv, BooksInv, MemoryTypes
<1>2. DOMAIN receipts = 1..Len(receipts) /\ \A i \in 1..Len(receipts) : receipts[i] \in ReceiptSet
      /\ Len(receipts) \in Nat
  BY <1>1
<1>3. receipts' = f /\ links' = links \cup {<<index[r], turn>> : r \in rs} BY <1>2 DEF LinkTo
<1>4. f = [i \in 1..Len(receipts) |-> f[i]] OBVIOUS
<1>5. ASSUME NEW i \in 1..Len(receipts) PROVE f[i] \in ReceiptSet /\ f[i].of = receipts[i].of
 <2>1. receipts[i] \in ReceiptSet BY <1>2
 <2>2. f[i] = receipts[i] \/ f[i] = [receipts[i] EXCEPT !.turn = turn, !.status = "linked"] OBVIOUS
 <2> HIDE DEF f
 <2> QED BY <2>1, <2>2 DEF ReceiptSet
<1> HIDE DEF f
<1>6. links' \subseteq ((1..Len(receipts)) \X Turns) BY <1>1, <1>2, <1>3
<1>7. \A r \in Reflections : index'[r] # 0 => receipts[index'[r]].of = r
  BY DEF MemoryInv, BooksInv, IndexNamesOwnReceipt
<1> QED BY <1>1, <1>3, <1>4, <1>5, <1>6, <1>7, ReceiptsChange DEF MemoryInv

LEMMA SaveFits ==
  ASSUME MemoryInv, NEW r \in 1..Len(reflections), r \in Reflections, index[r] # 0, NEW what
  PROVE  /\ Fits(SaveCall(r, index[r], what)) /\ SaveCall(r, index[r], what).do = "save"
         /\ Carries(SaveCall(r, index[r], what)) /\ SaveCall(r, index[r], what).events = what
<1> DEFINE c == SaveCall(r, index[r], what)
<1>1. c.do = "save" /\ c.r = r /\ c.receipt = index[r] /\ c.events = what BY DEF SaveCall
<1>2. index[r] \in 1..Len(receipts) /\ receipts[index[r]].of = r
  BY DEF MemoryInv, BooksInv, MemoryTypes, IndexNamesOwnReceipt
<1> HIDE DEF c
<1>3. Fits(c) /\ Carries(c) BY <1>1, <1>2 DEF Fits, FitsIn, Names, Plain, PlainNames, Carries
<1> QED BY <1>1, <1>3 DEF c

LEMMA LinkKeeps ==
  ASSUME MemoryInv, NEW t \in Threads, Link(t)
  PROVE  MemoryInv'
<1> DEFINE r == Head(work[t]).r
           turn == Head(work[t]).turn
           c == SaveCall(r, index[r], {<<"receipt_linked", index[r], turn>>})
<1>1. /\ work[t] # <<>> /\ Head(work[t]).do = "link"
      /\ UNCHANGED <<reflections, index, injections, patient, writeFailed>>
  BY DEF Link, Does
<1>2. /\ Head(work[t]) = work[t][1] /\ work[t][1].do = "link" /\ r = work[t][1].r
      /\ turn = work[t][1].turn /\ Fits(work[t][1])
  BY <1>1, HeadFacts DEF MemoryInv
<1>3. r \in 1..Len(reflections) /\ r \in Reflections BY <1>1, <1>2, HeadNamed
<1>4. turn \in Turns BY <1>2 DEF Fits, FitsIn, Plain, PlainNames, PlainCalls
<1>5. t[2] = 0 /\ Quiet(t) /\ Plain(work[t][1]) BY <1>1, <1>2, PlainHead DEF Plain, PlainNames
<1>6. CASE index[r] # 0
 <2>1. LinkTo({r}, turn) /\ Goes(t, LinkSaves(r, turn) \o Rest(t)) BY <1>6 DEF Link, HasReceipt
 <2> HIDE DEF r, turn
 <2>2. BooksInv' /\ Grows BY <1>3, <1>6, <1>1, <1>4, <2>1, LinkedBooks
 <2>3. Fits(c) /\ c.do = "save" /\ Carries(c) BY <1>3, <1>6, SaveFits
 <2>4. Goes(t, <<c>> \o Rest(t)) BY <2>1 DEF LinkSaves
 <2> HIDE DEF c
 <2>5. FitsIn(c, Len(reflections'), receipts', Len(injections')) BY <2>2, <2>3, FitsStays
 <2>6. WorkInv' BY <1>1, <1>2, <2>2, <2>3, <2>4, <2>5, HeadTurns DEF MemoryInv
 <2> QED BY <2>2, <2>6 DEF MemoryInv
<1>7. CASE index[r] = 0
 <2>1. Goes(t, <<>>) /\ UNCHANGED <<receipts, links>> BY <1>7 DEF Link, HasReceipt
 <2>2. BooksInv' /\ Grows BY <1>1, <2>1, BooksSame DEF MemoryInv, BooksInv, MemoryTypes
 <2>3. WorkInv' BY <1>1, <1>5, <2>1, <2>2, HeadEnds DEF MemoryInv
 <2> QED BY <2>2, <2>3 DEF MemoryInv
<1> QED BY <1>6, <1>7

----
\* Ranks in a finite set under a strict total order R.

Orders(R, S) ==
  /\ \A x \in S : <<x, x>> \notin R
  /\ \A x, y, z \in S : <<x, y>> \in R /\ <<y, z>> \in R => <<x, z>> \in R
  /\ \A x, y \in S : x # y => <<x, y>> \in R \/ <<y, x>> \in R

Lower(x, S, R) == {y \in S : <<y, x>> \in R}

\* The elements of a finite set are ranked from 0, each with a rank of its
\* own.
LEMMA Ranked ==
  ASSUME NEW S, IsFiniteSet(S), NEW R, Orders(R, S)
  PROVE  /\ \A x \in S : Cardinality(Lower(x, S, R)) \in 0..(Cardinality(S) - 1)
         /\ \A x, y \in S : <<x, y>> \in R
               => Cardinality(Lower(x, S, R)) < Cardinality(Lower(y, S, R))
         /\ \A x, y \in S :
               Cardinality(Lower(x, S, R)) = Cardinality(Lower(y, S, R)) => x = y
         /\ \A k \in 0..(Cardinality(S) - 1) :
               \E x \in S : Cardinality(Lower(x, S, R)) = k
<1> DEFINE rank(x) == Cardinality(Lower(x, S, R))
           n == Cardinality(S)
           T == 0..(n - 1)
           f == [x \in S |-> rank(x)]
<1>1. n \in Nat BY FS_CardinalityType
<1>2. \A x \in S : IsFiniteSet(Lower(x, S, R)) /\ rank(x) \in Nat
 <2> SUFFICES ASSUME NEW x \in S PROVE IsFiniteSet(Lower(x, S, R)) /\ rank(x) \in Nat OBVIOUS
 <2>1. Lower(x, S, R) \in SUBSET S BY DEF Lower
 <2>2. IsFiniteSet(Lower(x, S, R)) BY <2>1, FS_Subset
 <2> QED BY <2>2, FS_CardinalityType
<1>3. ASSUME NEW x \in S PROVE rank(x) \in T
 <2>1. Lower(x, S, R) \in SUBSET S /\ Lower(x, S, R) # S BY DEF Lower, Orders
 <2>2. rank(x) <= n /\ rank(x) # n BY <2>1, FS_Subset
 <2>3. rank(x) \in Nat BY <1>2
 <2> HIDE DEF rank, n
 <2> QED BY <1>1, <2>2, <2>3
<1>4. ASSUME NEW x \in S, NEW y \in S, <<x, y>> \in R PROVE rank(x) < rank(y)
 <2>1. Lower(x, S, R) \in SUBSET Lower(y, S, R) BY <1>4 DEF Lower, Orders
 <2>2. x \in Lower(y, S, R) /\ x \notin Lower(x, S, R) BY <1>4 DEF Lower, Orders
 <2>3. IsFiniteSet(Lower(y, S, R)) BY <1>2
 <2>4. rank(x) <= rank(y) /\ rank(x) # rank(y) BY <2>1, <2>2, <2>3, FS_Subset
 <2>5. rank(x) \in Nat /\ rank(y) \in Nat BY <1>2
 <2> HIDE DEF rank
 <2> QED BY <2>4, <2>5
<1>5. ASSUME NEW x \in S, NEW y \in S, rank(x) = rank(y) PROVE x = y
 <2>1. rank(x) \in Nat BY <1>2
 <2>2. ~(rank(x) < rank(y)) /\ ~(rank(y) < rank(x))
  <3> HIDE DEF rank
  <3> QED BY <1>5, <2>1
 <2>3. <<x, y>> \notin R /\ <<y, x>> \notin R BY <1>4, <2>2
 <2> QED BY <2>3 DEF Orders
<1>6. IsFiniteSet(T) /\ Cardinality(T) = n
 <2> HIDE DEF n
 <2>1. 0 \in Int /\ n - 1 \in Int BY <1>1
 <2>2. IsFiniteSet(0..(n - 1)) /\ Cardinality(0..(n - 1)) = IF 0 > n - 1 THEN 0 ELSE (n - 1) - 0 + 1
   BY <2>1, FS_Interval
 <2> QED BY <1>1, <2>2
<1>7. f \in Injection(S, T)
 <2>1. f \in [S -> T] BY <1>3
 <2>2. \A x, y \in S : f[x] = f[y] => x = y BY <1>5
 <2> HIDE DEF f, T
 <2> QED BY <2>1, <2>2 DEF Injection, IsInjective
<1>8. f \in Surjection(S, T)
 <2> HIDE DEF f, T
 <2> QED BY <1>6, <1>7, FS_Injection DEF n
<1>9. ASSUME NEW k \in T PROVE \E x \in S : rank(x) = k
 <2>1. \E x \in S : f[x] = k
  <3> HIDE DEF f, T
  <3> QED BY <1>8 DEF Surjection
 <2> QED BY <2>1
<1> QED BY <1>3, <1>4, <1>5, <1>9

----
\* The order of the candidates of a bundle.

CandidateOrder(w) == {p \in Candidates(w) \X Candidates(w) : Before(p[1], p[2])}

LEMMA CandidatesFinite ==
  ASSUME BooksInv, NEW w
  PROVE  /\ Candidates(w) \subseteq 1..Len(reflections) /\ IsFiniteSet(Candidates(w))
         /\ Candidates(w) \subseteq Reflections
<1>1. /\ reflections \in Seq(ReflectionSet) /\ Len(reflections) \in Nat
      /\ Len(reflections) <= MaxCreated
  BY DEF BooksInv, MemoryTypes
<1>2. Candidates(w) \subseteq 1..Len(reflections) BY <1>1 DEF Candidates, Listed
<1>3. IsFiniteSet(1..Len(reflections)) BY <1>1, FS_Interval
<1>4. 1..Len(reflections) \subseteq Reflections BY <1>1, BoundsAssumption DEF Reflections
<1>5. Candidates(w) \in SUBSET (1..Len(reflections)) BY <1>2
<1>6. IsFiniteSet(Candidates(w)) BY <1>3, <1>5, FS_Subset
<1> QED BY <1>2, <1>4, <1>6

LEMMA ScoreType ==
  ASSUME BooksInv, NEW w, NEW r \in Candidates(w)
  PROVE  Score(r) \in Nat
<1>1. r \in 1..Len(reflections) BY CandidatesFinite
<1>2. reflections[r] \in ReflectionSet BY <1>1 DEF BooksInv, MemoryTypes
<1>3. reflections[r].priority \in 1..4 BY <1>2, ScoresAssumption DEF ReflectionSet
<1>4. \A n \in 1..4 : n \in Nat /\ n + 1 \in Nat /\ n + 0 \in Nat OBVIOUS
<1> QED BY <1>3, <1>4 DEF Score

LEMMA CandidatesOrdered ==
  ASSUME BooksInv, NEW w, NEW S, S \subseteq Candidates(w)
  PROVE  /\ Orders(CandidateOrder(w), S)
         /\ \A r \in S : Rank(r, S) = Cardinality(Lower(r, S, CandidateOrder(w)))
<1>1. \A r \in S : r \in Nat /\ Score(r) \in Nat BY CandidatesFinite, ScoreType DEF BooksInv, MemoryTypes
<1>2. \A r, s \in S : <<r, s>> \in CandidateOrder(w) <=> Before(r, s) BY DEF CandidateOrder
<1>3. \A r, s \in S : Before(r, s) <=> Score(r) > Score(s) \/ (Score(r) = Score(s) /\ r > s) BY DEF Before
<1>4. Orders(CandidateOrder(w), S) BY <1>1, <1>2, <1>3 DEF Orders
<1>5. ASSUME NEW r \in S PROVE Rank(r, S) = Cardinality(Lower(r, S, CandidateOrder(w))) BY <1>2 DEF Lower, Rank
<1> QED BY <1>4, <1>5

\* What is selected: the best, each once.
LEMMA SelectedFacts ==
  ASSUME BooksInv, NEW w
  PROVE  /\ Best(w) \subseteq Firsts(w) /\ Firsts(w) \subseteq Candidates(w)
         /\ IsFiniteSet(Best(w)) /\ Cardinality(Best(w)) \in Nat
         /\ Selected(w) = [n \in 1..Cardinality(Best(w)) |-> Selected(w)[n]]
         /\ \A n \in 1..Cardinality(Best(w)) : Selected(w)[n] \in Best(w)
         /\ \A n, k \in 1..Cardinality(Best(w)) : Selected(w)[n] = Selected(w)[k] => n = k
         /\ \A r \in Best(w) : \E n \in 1..Cardinality(Best(w)) : Selected(w)[n] = r
<1> DEFINE m == Cardinality(Best(w))
           At(n) == CHOOSE r \in Best(w) : Rank(r, Best(w)) = n - 1
<1>1. Best(w) \subseteq Firsts(w) /\ Firsts(w) \subseteq Candidates(w) BY DEF Best, Firsts
<1>2. IsFiniteSet(Best(w)) /\ m \in Nat BY <1>1, CandidatesFinite, FS_Subset, FS_CardinalityType
<1>3. Orders(CandidateOrder(w), Best(w))
      /\ \A r \in Best(w) : Rank(r, Best(w)) = Cardinality(Lower(r, Best(w), CandidateOrder(w)))
  BY <1>1, CandidatesOrdered
<1>4. /\ \A r \in Best(w) : Rank(r, Best(w)) \in 0..(m - 1)
      /\ \A r, s \in Best(w) : Rank(r, Best(w)) = Rank(s, Best(w)) => r = s
      /\ \A k \in 0..(m - 1) : \E r \in Best(w) : Rank(r, Best(w)) = k BY <1>2, <1>3, Ranked
<1>5. Selected(w) = [n \in 1..m |-> At(n)] BY DEF Selected
<1> HIDE DEF m
<1>6. ASSUME NEW n \in 1..m PROVE At(n) \in Best(w) /\ Rank(At(n), Best(w)) = n - 1 BY <1>2, <1>4
<1>7. \A n \in 1..m : Selected(w)[n] = At(n) BY <1>5
<1> HIDE DEF At
<1>8. \A n, k \in 1..m : Selected(w)[n] = Selected(w)[k] => n = k
 <2> SUFFICES ASSUME NEW n \in 1..m, NEW k \in 1..m, Selected(w)[n] = Selected(w)[k] PROVE n = k OBVIOUS
 <2>1. n - 1 = k - 1 BY <1>6, <1>7
 <2> QED BY <1>2, <2>1
<1>9. ASSUME NEW r \in Best(w) PROVE \E n \in 1..m : Selected(w)[n] = r
 <2> DEFINE n == Rank(r, Best(w)) + 1
 <2>1. n \in 1..m /\ n - 1 = Rank(r, Best(w)) BY <1>2, <1>4
 <2> HIDE DEF n
 <2>2. At(n) = r BY <1>4, <1>6, <2>1
 <2> QED BY <1>7, <2>1, <2>2
<1>10. Selected(w) = [n \in 1..m |-> Selected(w)[n]] /\ \A n \in 1..m : Selected(w)[n] \in Best(w) BY <1>5, <1>6, <1>7
<1> QED BY <1>1, <1>2, <1>8, <1>9, <1>10 DEF m

----
\* The other steps.

LEMMA SavedKeeps ==
  ASSUME MemoryInv, NEW t \in Threads, Saved(t)
  PROVE  MemoryInv'
<1> DEFINE r == Head(work[t]).r
           i == Head(work[t]).receipt
           c == Push(Head(work[t]).events)
           f == [k \in 1..Len(receipts) |-> receipts[k]]
<1>1. /\ work[t] # <<>> /\ Head(work[t]).do = "save"
      /\ index' = [index EXCEPT ![r] = i] /\ Goes(t, <<c>> \o Rest(t))
      /\ UNCHANGED <<reflections, receipts, links, injections, patient, writeFailed>>
  BY DEF Saved, Does
<1>2. /\ Head(work[t]) = work[t][1] /\ work[t][1].do = "save" /\ r = work[t][1].r
      /\ i = work[t][1].receipt /\ Fits(work[t][1])
  BY <1>1, HeadFacts DEF MemoryInv
<1>3. r \in 1..Len(reflections) /\ r \in Reflections BY <1>1, <1>2, HeadNamed
<1>4. i \in 1..Len(receipts) /\ receipts[i].of = r BY <1>2 DEF Fits, FitsIn
<1>5. /\ receipts \in Seq(ReceiptSet) /\ index \in [Reflections -> 0..Len(receipts)]
      /\ links \subseteq ((1..Len(receipts)) \X Turns) /\ Len(receipts) \in Nat
  BY DEF MemoryInv, BooksInv, MemoryTypes
<1>6. /\ receipts' = f /\ \A k \in 1..Len(receipts) : f[k] = receipts[k] /\ f[k] \in ReceiptSet
      /\ f = [k \in 1..Len(receipts) |-> f[k]]
  BY <1>1, <1>5
<1> HIDE DEF r, i, c, f
<1>7. /\ index' \in [Reflections -> 0..Len(receipts)] /\ index'[r] = i /\ i # 0
      /\ \A s \in Reflections : s # r => index'[s] = index[s]
  BY <1>1, <1>3, <1>4, <1>5
<1>8. \A s \in Reflections : index'[s] # 0 => receipts[index'[s]].of = s
  BY <1>4, <1>7 DEF MemoryInv, BooksInv, IndexNamesOwnReceipt
<1>9. BooksInv' /\ Grows BY <1>1, <1>5, <1>6, <1>7, <1>8, ReceiptsChange DEF MemoryInv
<1>10. FitsIn(c, Len(reflections'), receipts', Len(injections')) /\ c.do = "push" /\ Carries(c) BY PushFits DEF c
<1>11. WorkInv' BY <1>1, <1>2, <1>9, <1>10, HeadTurns DEF MemoryInv
<1> QED BY <1>9, <1>11 DEF MemoryInv

LEMMA VerifyKeeps ==
  ASSUME MemoryInv, NEW t \in Threads, Verify(t)
  PROVE  MemoryInv'
<1> DEFINE i == index[Head(work[t]).r]
           c == Push({<<"receipt_verified", i>>})
           f == [receipts EXCEPT ![i] = VerifiedReceipt(@)]
<1>1. /\ work[t] # <<>> /\ Head(work[t]).do = "verify"
      /\ UNCHANGED <<reflections, index, links, injections, patient, writeFailed>>
  BY DEF Verify, Does
<1>2. Head(work[t]) = work[t][1] /\ work[t][1].do = "verify" BY <1>1, HeadFacts DEF MemoryInv
<1>3. Head(work[t]).r \in Reflections BY <1>1, <1>2, HeadNamed
<1>4. t[2] = 0 /\ Quiet(t) /\ Plain(work[t][1]) BY <1>1, <1>2, PlainHead DEF Plain, PlainNames
<1>5. /\ receipts \in Seq(ReceiptSet) /\ index \in [Reflections -> 0..Len(receipts)]
      /\ links \subseteq ((1..Len(receipts)) \X Turns) /\ Len(receipts) \in Nat
  BY DEF MemoryInv, BooksInv, MemoryTypes
<1>6. i \in 0..Len(receipts) BY <1>3, <1>5
<1>7. CASE i # 0
 <2>1. receipts' = f /\ Goes(t, <<c>> \o Rest(t)) BY <1>7 DEF Verify
 <2> HIDE DEF i
 <2>2. f = [k \in 1..Len(receipts) |-> f[k]] BY <1>5
 <2>3. ASSUME NEW k \in 1..Len(receipts) PROVE f[k] \in ReceiptSet /\ f[k].of = receipts[k].of
  <3>1. receipts[k] \in ReceiptSet BY <1>5
  <3>2. f[k] = receipts[k] \/ f[k] = VerifiedReceipt(receipts[k]) BY <1>5
  <3> HIDE DEF f
  <3> QED BY <3>1, <3>2 DEF ReceiptSet, VerifiedReceipt
 <2> HIDE DEF f
 <2>4. \A s \in Reflections : index'[s] # 0 => receipts[index'[s]].of = s
   BY <1>1 DEF MemoryInv, BooksInv, IndexNamesOwnReceipt
 <2>5. BooksInv' /\ Grows BY <1>1, <1>5, <2>1, <2>2, <2>3, <2>4, ReceiptsChange DEF MemoryInv
 <2> HIDE DEF c
 <2>6. FitsIn(c, Len(reflections'), receipts', Len(injections')) /\ c.do = "push" /\ Carries(c) BY PushFits DEF c
 <2>7. WorkInv' BY <1>1, <1>2, <2>1, <2>5, <2>6, HeadTurns DEF MemoryInv
 <2> QED BY <2>5, <2>7 DEF MemoryInv
<1>8. CASE i = 0
 <2>1. Goes(t, <<>>) /\ UNCHANGED receipts BY <1>8 DEF Verify
 <2>2. BooksInv' /\ Grows BY <1>1, <2>1, BooksSame DEF MemoryInv, BooksInv, MemoryTypes
 <2>3. WorkInv' BY <1>1, <1>4, <2>1, <2>2, HeadEnds DEF MemoryInv
 <2> QED BY <2>2, <2>3 DEF MemoryInv
<1> QED BY <1>7, <1>8

LEMMA InjectKeeps ==
  ASSUME MemoryInv, NEW t \in Threads, Inject(t)
  PROVE  MemoryInv'
<1> DEFINE call == Head(work[t])
           r == call.r
           i == call.receipt
           f == [receipts EXCEPT ![i].status = "injected"]
<1>1. /\ work[t] # <<>> /\ Head(work[t]).do = "inject" /\ ~Waiting(t[1])
      /\ receipts' = f /\ index' = [index EXCEPT ![r] = i] /\ Goes(t, Rest(t))
      /\ UNCHANGED <<reflections, links, injections, patient, writeFailed>>
  BY DEF Inject, Does
<1>2. /\ Head(work[t]) = work[t][1] /\ work[t][1].do = "inject" /\ r = work[t][1].r
      /\ i = work[t][1].receipt /\ Fits(work[t][1])
  BY <1>1, HeadFacts DEF MemoryInv
<1>3. r \in 1..Len(reflections) /\ r \in Reflections BY <1>1, <1>2, HeadNamed
<1>4. i \in 1..Len(receipts) /\ receipts[i].of = r BY <1>2 DEF Fits, FitsIn
<1>5. /\ receipts \in Seq(ReceiptSet) /\ index \in [Reflections -> 0..Len(receipts)]
      /\ links \subseteq ((1..Len(receipts)) \X Turns) /\ Len(receipts) \in Nat
  BY DEF MemoryInv, BooksInv, MemoryTypes
<1> HIDE DEF r, i
<1>6. f = [k \in 1..Len(receipts) |-> f[k]] BY <1>5
<1>7. ASSUME NEW k \in 1..Len(receipts) PROVE f[k] \in ReceiptSet /\ f[k].of = receipts[k].of
 <2>1. receipts[k] \in ReceiptSet BY <1>5
 <2>2. f[k] = receipts[k] \/ f[k] = [receipts[k] EXCEPT !.status = "injected"] BY <1>5
 <2> HIDE DEF f
 <2> QED BY <2>1, <2>2 DEF ReceiptSet
<1> HIDE DEF f
<1>8. /\ index' \in [Reflections -> 0..Len(receipts)] /\ index'[r] = i /\ i # 0
      /\ \A s \in Reflections : s # r => index'[s] = index[s]
  BY <1>1, <1>3, <1>4, <1>5
<1>9. \A s \in Reflections : index'[s] # 0 => receipts[index'[s]].of = s
  BY <1>4, <1>8 DEF MemoryInv, BooksInv, IndexNamesOwnReceipt
<1>10. \A s \in Reflections : index[s] # 0 => index'[s] # 0 BY <1>8
<1>11. BooksInv' /\ Grows BY <1>1, <1>5, <1>6, <1>7, <1>8, <1>9, <1>10, ReceiptsChange DEF MemoryInv
<1>12. Quiet(t) BY <1>1, WaitingQuiet
<1>13. WorkInv' BY <1>1, <1>2, <1>11, <1>12, HeadDone DEF MemoryInv
<1> QED BY <1>11, <1>13 DEF MemoryInv

\* A bundle of the best.
BuiltItems(w) == [n \in DOMAIN Selected(w) |-> ItemOf(Selected(w)[n])]

LEMMA BuiltFacts ==
  ASSUME MemoryInv, NEW w
  PROVE  /\ BuiltItems(w) \in Seq([r : Reflections, receipt : Nat, verified : BOOLEAN, signed : BOOLEAN])
         /\ Len(BuiltItems(w)) = Cardinality(Best(w))
         /\ \A n \in 1..Len(BuiltItems(w)) :
              /\ BuiltItems(w)[n].r = Selected(w)[n] /\ BuiltItems(w)[n].r \in Best(w)
              /\ BuiltItems(w)[n].r \in 1..Len(reflections)
              /\ BuiltItems(w)[n].receipt = index[BuiltItems(w)[n].r]
              /\ BuiltItems(w)[n].receipt \in 1..Len(receipts)
              /\ receipts[BuiltItems(w)[n].receipt].of = BuiltItems(w)[n].r
<1> DEFINE m == Cardinality(Best(w))
           ItemSet == [r : Reflections, receipt : Nat, verified : BOOLEAN, signed : BOOLEAN]
<1>1. BooksInv BY DEF MemoryInv
<1>2. /\ m \in Nat /\ Selected(w) = [n \in 1..m |-> Selected(w)[n]]
      /\ \A n \in 1..m : Selected(w)[n] \in Best(w)
      /\ Best(w) \subseteq Candidates(w)
  BY <1>1, SelectedFacts
<1>3. BuiltItems(w) = [n \in 1..m |-> ItemOf(Selected(w)[n])] BY <1>2 DEF BuiltItems
<1>4. /\ receipts \in Seq(ReceiptSet) /\ index \in [Reflections -> 0..Len(receipts)]
      /\ Len(receipts) \in Nat
  BY <1>1 DEF BooksInv, MemoryTypes
<1>5. ASSUME NEW r \in Candidates(w)
      PROVE  /\ ItemOf(r) \in ItemSet /\ ItemOf(r).r = r /\ ItemOf(r).receipt = index[r]
             /\ r \in 1..Len(reflections) /\ index[r] \in 1..Len(receipts)
             /\ receipts[index[r]].of = r
 <2>1. r \in Reflections /\ r \in 1..Len(reflections) /\ index[r] # 0
   BY <1>1, CandidatesFinite DEF Candidates, Listed, HasReceipt
 <2>2. index[r] \in 1..Len(receipts) /\ index[r] \in Nat /\ receipts[index[r]].of = r
   BY <1>1, <1>4, <2>1 DEF BooksInv, IndexNamesOwnReceipt
 <2>3. receipts[index[r]] \in ReceiptSet BY <1>4, <2>2
 <2>4. receipts[index[r]].verified \in BOOLEAN BY <2>3 DEF ReceiptSet
 <2>5. (receipts[index[r]].tx # None) \in BOOLEAN OBVIOUS
 <2>6. ItemOf(r) = [r |-> r, receipt |-> index[r], verified |-> receipts[index[r]].verified,
                    signed |-> receipts[index[r]].tx # None]
   BY DEF ItemOf
 <2>7. \A v \in BOOLEAN, g \in BOOLEAN :
          [r |-> r, receipt |-> index[r], verified |-> v, signed |-> g] \in ItemSet
   BY <2>1, <2>2
 <2>8. ItemOf(r) \in ItemSet BY <2>4, <2>5, <2>6, <2>7, Zenon
 <2>9. ItemOf(r).r = r /\ ItemOf(r).receipt = index[r] BY <2>6
 <2> QED BY <2>1, <2>2, <2>8, <2>9
<1> HIDE DEF m, ItemSet
<1>6. \A n \in 1..m : BuiltItems(w)[n] = ItemOf(Selected(w)[n]) /\ Selected(w)[n] \in Candidates(w) BY <1>2, <1>3
<1>7. BuiltItems(w) \in [1..m -> ItemSet] BY <1>3, <1>5, <1>6
<1>8. BuiltItems(w) \in Seq(ItemSet) /\ Len(BuiltItems(w)) = m BY <1>2, <1>7
<1> QED BY <1>2, <1>5, <1>6, <1>8 DEF m, ItemSet

LEMMA BuildKeeps ==
  ASSUME MemoryInv, NEW t \in Threads, NEW w, Build(t, w)
  PROVE  MemoryInv'
<1> DEFINE turn == Head(work[t]).turn
           row == [turn |-> turn, items |-> BuiltItems(w)]
           b == Len(injections)
           c == [do |-> "fork", r |-> 0, bundle |-> b + 1]
<1>1. /\ work[t] # <<>> /\ Head(work[t]).do = "bundle"
      /\ injections' = Append(injections, row) /\ Goes(t, <<c>> \o Rest(t))
      /\ UNCHANGED <<reflections, receipts, index, links, patient, writeFailed>>
  BY DEF Build, Does, BuiltItems
<1>2. /\ Head(work[t]) = work[t][1] /\ work[t][1].do = "bundle" /\ turn = work[t][1].turn
      /\ Fits(work[t][1])
  BY <1>1, HeadFacts DEF MemoryInv
<1>3. turn \in Turns BY <1>2 DEF Fits, FitsIn, Plain, PlainNames, PlainCalls
<1>4. t[2] = 0 /\ Quiet(t) /\ Plain(work[t][1]) BY <1>1, <1>2, PlainHead DEF Plain, PlainNames
<1>5. /\ injections \in Seq(BundleSet) /\ b \in Nat
      /\ Len(receipts) \in Nat /\ Len(reflections) \in Nat
  BY DEF MemoryInv, BooksInv, MemoryTypes
<1>6. row \in BundleSet BY <1>3, BuiltFacts DEF BundleSet
<1>7. row.turn = turn /\ row.items = BuiltItems(w) OBVIOUS
<1> HIDE DEF row, turn
<1>8. /\ injections' \in Seq(BundleSet) /\ Len(injections') = b + 1
      /\ \A k \in 1..b : injections'[k] = injections[k]
      /\ injections'[b + 1] = row
  BY <1>1, <1>5, <1>6
<1>9. \A k \in 1..Len(injections') : k \in 1..b \/ k = b + 1 BY <1>5, <1>8
<1>10. b <= b + 1 /\ b + 1 \in Nat /\ b + 1 \in 1..(b + 1) BY <1>5
<1>11. c.do = "fork" /\ c.bundle = b + 1 OBVIOUS
<1> HIDE DEF b, c
<1>12. MemoryTypes' BY <1>1, <1>8 DEF MemoryInv, BooksInv, MemoryTypes
<1>13. Grows BY <1>1, <1>5, <1>8, <1>10 DEF Grows, b
<1>14. BundlesFit'
 <2> SUFFICES ASSUME NEW k \in 1..Len(injections'), NEW n \in 1..Len(injections'[k].items)
              PROVE  /\ injections'[k].items[n].r \in 1..Len(reflections)
                     /\ injections'[k].items[n].receipt \in 1..Len(receipts)
                     /\ receipts[injections'[k].items[n].receipt].of
                          = injections'[k].items[n].r
                     /\ index[injections'[k].items[n].r] # 0
   BY <1>1, Zenon DEF BundlesFit
 <2>1. CASE k \in 1..b BY <1>8, <2>1 DEF MemoryInv, BooksInv, BundlesFit, b
 <2>2. CASE k = b + 1
  <3>1. n \in 1..Len(BuiltItems(w)) /\ injections'[k].items = BuiltItems(w) BY <1>7, <1>8, <2>2
  <3>2. /\ BuiltItems(w)[n].r \in 1..Len(reflections)
        /\ BuiltItems(w)[n].receipt = index[BuiltItems(w)[n].r]
        /\ BuiltItems(w)[n].receipt \in 1..Len(receipts)
        /\ receipts[BuiltItems(w)[n].receipt].of = BuiltItems(w)[n].r
    BY <3>1, BuiltFacts
  <3> QED BY <3>1, <3>2
 <2> QED BY <1>9, <2>1, <2>2
<1>15. ReceiptsKnown' /\ IndexNamesOwnReceipt' BY <1>1 DEF MemoryInv, BooksInv, ReceiptsKnown, IndexNamesOwnReceipt
<1>16. FitsIn(c, Len(reflections'), receipts', Len(injections'))
  BY <1>8, <1>10, <1>11 DEF FitsIn, Names, Plain, PlainNames
<1>17. WorkInv' BY <1>1, <1>2, <1>4, <1>11, <1>13, <1>16, HeadTurns DEF MemoryInv
<1> QED BY <1>12, <1>14, <1>15, <1>17 DEF MemoryInv, BooksInv

----
\* The links of a bundle and its marks.
ForkBundle(t) == Head(work[t]).bundle
ForkItems(t) == injections[ForkBundle(t)].items
ForkTurn(t) == injections[ForkBundle(t)].turn
ForkOf(t) == {ForkItems(t)[n].r : n \in DOMAIN ForkItems(t)}
ForkMarks(t) ==
  [n \in DOMAIN ForkItems(t) |->
     [do |-> "inject", r |-> ForkItems(t)[n].r, receipt |-> ForkItems(t)[n].receipt]]
ForkPush(t) == Push({<<"injection_built", ForkBundle(t)>>})
ForkSave(t, r) == SaveCall(r, index[r], {<<"receipt_linked", index[r], ForkTurn(t)>>})

LEMMA ForkFacts ==
  ASSUME MemoryInv, NEW t \in Threads, Fork(t)
  PROVE  /\ work[t] # <<>> /\ work[t][1].do = "fork" /\ t[2] = 0 /\ Quiet(t)
         /\ ForkBundle(t) \in 1..Len(injections) /\ ForkTurn(t) \in Turns
         /\ ForkBundle(t) = work[t][1].bundle
         /\ ForkOf(t) \subseteq 1..Len(reflections) /\ ForkOf(t) \subseteq Reflections
         /\ \A r \in ForkOf(t) : index[r] # 0
         /\ LinkTo(ForkOf(t), ForkTurn(t))
         /\ IsList(ForkMarks(t)) /\ Len(ForkMarks(t)) = Len(ForkItems(t))
         /\ Len(ForkItems(t)) \in Nat
         /\ \A n \in 1..Len(ForkMarks(t)) :
              /\ ForkMarks(t)[n].do = "inject" /\ ForkMarks(t)[n].r = ForkItems(t)[n].r
              /\ ForkMarks(t)[n].receipt = ForkItems(t)[n].receipt
              /\ ForkItems(t)[n].r \in ForkOf(t)
         /\ work' = [u \in Threads |-> work'[u]]
         /\ work'[t] = ForkMarks(t) \o (<<ForkPush(t)>> \o Tail(work[t]))
         /\ \A u \in Threads :
              u # t /\ u[1] = t[1] /\ u[2] \in ForkOf(t) => work'[u] = <<ForkSave(t, u[2])>>
         /\ \A u \in Threads :
              u # t /\ ~(u[1] = t[1] /\ u[2] \in ForkOf(t)) => work'[u] = work[u]
         /\ \A r \in ForkOf(t) : \E n \in 1..Len(ForkItems(t)) : ForkItems(t)[n].r = r
<1> DEFINE items == ForkItems(t)
           b == ForkBundle(t)
           rs == ForkOf(t)
           turn == ForkTurn(t)
           marks == ForkMarks(t)
<1>1. /\ work[t] # <<>> /\ Head(work[t]).do = "fork" /\ LinkTo(rs, turn)
  BY DEF Fork, Does, ForkOf, ForkItems, ForkTurn, ForkBundle
<1>2. /\ Head(work[t]) = work[t][1] /\ work[t][1].do = "fork" /\ Fits(work[t][1])
      /\ (t[2] # 0 => Carries(work[t][1]))
  BY <1>1, HeadFacts DEF MemoryInv
<1>3. t[2] = 0 BY <1>2 DEF Carries
<1>4. Quiet(t) BY <1>1, <1>2, <1>3, HeadQuiet DEF MemoryInv
<1>5. b \in 1..Len(injections) /\ b = work[t][1].bundle BY <1>2 DEF Fits, FitsIn, ForkBundle
<1>6. injections[b] \in BundleSet BY <1>5 DEF MemoryInv, BooksInv, MemoryTypes
<1>7. /\ turn \in Turns /\ Len(items) \in Nat /\ DOMAIN items = 1..Len(items)
 <2>1. items \in Seq([r : Reflections, receipt : Nat, verified : BOOLEAN, signed : BOOLEAN])
       /\ turn \in Turns
   BY <1>6 DEF BundleSet, ForkItems, ForkTurn
 <2> HIDE DEF items
 <2> QED BY <2>1
<1>8. \A n \in 1..Len(items) : items[n].r \in 1..Len(reflections) /\ index[items[n].r] # 0
  BY <1>5 DEF MemoryInv, BooksInv, BundlesFit, ForkItems
<1>9. 1..Len(reflections) \subseteq Reflections BY BoundsAssumption DEF MemoryInv, BooksInv, MemoryTypes, Reflections
<1>10. rs = {items[n].r : n \in 1..Len(items)} BY <1>7 DEF ForkOf
<1>11. rs \subseteq 1..Len(reflections) /\ \A r \in rs : index[r] # 0 BY <1>8, <1>10
<1>12. marks = [n \in 1..Len(items) |->
                 [do |-> "inject", r |-> items[n].r, receipt |-> items[n].receipt]]
  BY <1>7 DEF ForkMarks
<1>13. IsList(marks) /\ Len(marks) = Len(items)
 <2>1. marks = [n \in 1..Len(items) |-> marks[n]] BY <1>12
 <2> HIDE DEF marks, items
 <2> QED BY <1>7, <2>1, Mapped
<1>14. \A n \in 1..Len(marks) :
         /\ marks[n].do = "inject" /\ marks[n].r = items[n].r
         /\ marks[n].receipt = items[n].receipt /\ items[n].r \in rs
  BY <1>10, <1>12, <1>13
<1>15. work' = [u \in Threads |->
                 CASE u = t -> marks \o (<<ForkPush(t)>> \o Rest(t))
                   [] u # t /\ u[1] = t[1] /\ u[2] \in rs -> LinkSaves(u[2], turn)
                   [] OTHER -> work[u]]
  BY DEF Fork, ForkMarks, ForkItems, ForkOf, ForkTurn, ForkPush, ForkBundle
<1>16. \A r : LinkSaves(r, turn) = <<ForkSave(t, r)>> BY DEF LinkSaves, ForkSave
<1>17. marks \o (<<ForkPush(t)>> \o Rest(t)) = marks \o (<<ForkPush(t)>> \o Tail(work[t])) BY DEF Rest
<1> HIDE DEF items, b, rs, turn, marks
<1>18. /\ work' = [u \in Threads |-> work'[u]]
       /\ work'[t] = marks \o (<<ForkPush(t)>> \o Rest(t))
       /\ \A u \in Threads : u # t /\ u[1] = t[1] /\ u[2] \in rs => work'[u] = LinkSaves(u[2], turn)
       /\ \A u \in Threads : u # t /\ ~(u[1] = t[1] /\ u[2] \in rs) => work'[u] = work[u]
  BY <1>15
<1>19. \A r \in rs : \E n \in 1..Len(items) : items[n].r = r BY <1>10
<1>20. rs \subseteq Reflections BY <1>9, <1>11
<1> QED
  BY <1>1, <1>2, <1>3, <1>4, <1>5, <1>7, <1>11, <1>13, <1>14, <1>16, <1>17, <1>18, <1>19, <1>20
     DEF items, b, rs, turn, marks

LEMMA ForkKeeps ==
  ASSUME MemoryInv, NEW t \in Threads, Fork(t)
  PROVE  MemoryInv'
<1> DEFINE marks == ForkMarks(t)
           items == ForkItems(t)
           b == ForkBundle(t)
           rs == ForkOf(t)
           turn == ForkTurn(t)
           c == ForkPush(t)
           s == work[t]
           q == Tail(work[t])
           p == <<c>> \o q
           w == marks \o p
<1>1. /\ s # <<>> /\ s[1].do = "fork" /\ t[2] = 0 /\ Quiet(t) /\ b \in 1..Len(injections)
      /\ rs \subseteq 1..Len(reflections) /\ rs \subseteq Reflections /\ turn \in Turns
      /\ \A r \in rs : index[r] # 0
      /\ LinkTo(rs, turn)
      /\ IsList(marks) /\ Len(marks) = Len(items) /\ Len(items) \in Nat
      /\ \A n \in 1..Len(marks) :
              /\ marks[n].do = "inject" /\ marks[n].r = items[n].r
              /\ marks[n].receipt = items[n].receipt
      /\ work' = [u \in Threads |-> work'[u]]
      /\ work'[t] = w
      /\ \A u \in Threads : u # t /\ u[1] = t[1] /\ u[2] \in rs => work'[u] = <<ForkSave(t, u[2])>>
      /\ \A u \in Threads : u # t /\ ~(u[1] = t[1] /\ u[2] \in rs) => work'[u] = work[u]
      /\ \A r \in rs : \E n \in 1..Len(items) : items[n].r = r
  BY ForkFacts
<1>2. UNCHANGED <<reflections, index, injections, patient, writeFailed>> BY DEF Fork
<1>3. \A n \in 1..Len(items) :
         /\ items[n].r \in 1..Len(reflections) /\ items[n].receipt \in 1..Len(receipts)
         /\ receipts[items[n].receipt].of = items[n].r
  BY <1>1 DEF MemoryInv, BooksInv, BundlesFit, ForkItems
<1>4. c.do = "push" BY DEF ForkPush, Push
<1> HIDE DEF marks, items, b, rs, turn, c
<1>5. BooksInv' /\ Grows BY <1>1, <1>2, LinkedBooks
<1>6. IsList(s) /\ Ordered(s) BY <1>1, HeadFacts DEF MemoryInv
<1>7. /\ PlainLast(q) /\ InjectsFirst(q) /\ Owned(q)
      /\ \A i \in 1..Len(q) : q[i].do # "chain" /\ q[i].do # "inject"
  BY <1>1, <1>6, RestOrdered, SMTT(30)
<1>8. /\ IsList(q) /\ Len(q) = Len(s) - 1
      /\ \A i \in 1..Len(q) : q[i] = s[i + 1] /\ i + 1 \in 1..Len(s)
  BY <1>1, <1>6, Behead
<1>9. \A i \in 1..Len(q) : Fits(q[i]) BY <1>8 DEF MemoryInv, WorkInv, CallsFit
<1> HIDE DEF q
<1>10. Ordered(w) BY <1>1, <1>4, <1>7, <1>8, InjectsOrdered
<1>11. /\ IsList(p) /\ Len(p) = Len(q) + 1 /\ p[1] = c
       /\ \A i \in 1..Len(p) : i # 1 => i - 1 \in 1..Len(q) /\ p[i] = q[i - 1]
  BY <1>8, Prefixed
<1> HIDE DEF p
<1>12. /\ IsList(w) /\ Len(w) = Len(marks) + Len(p)
       /\ \A i \in 1..Len(marks) : w[i] = marks[i]
       /\ \A i \in 1..Len(p) : w[Len(marks) + i] = p[i]
 <2>1. /\ IsList(marks \o p) /\ Len(marks \o p) = Len(marks) + Len(p)
       /\ \A i \in 1..Len(marks) : (marks \o p)[i] = marks[i]
       /\ \A i \in 1..Len(p) : (marks \o p)[Len(marks) + i] = p[i]
  <3>1. IsList(marks) /\ IsList(p) BY <1>1, <1>11
  <3> QED BY <3>1, Joined
 <2> QED BY <2>1
<1>13. Len(p) \in Nat /\ Len(marks) \in Nat BY <1>1, <1>11, ListLength
<1> HIDE DEF w
<1>14. ASSUME NEW i \in 1..Len(w)
       PROVE  FitsIn(w[i], Len(reflections'), receipts', Len(injections'))
 <2>1. CASE i <= Len(marks)
  <3>1. i \in 1..Len(marks) /\ i \in 1..Len(items) /\ w[i] = marks[i] BY <1>1, <1>12, <1>13, <2>1
  <3>2. marks[i].do = "inject" /\ marks[i].r = items[i].r /\ marks[i].receipt = items[i].receipt BY <1>1, <3>1
  <3>3. Fits(marks[i]) BY <1>3, <3>1, <3>2 DEF Fits, FitsIn, Names, Plain, PlainNames
  <3> QED BY <1>5, <3>1, <3>3, FitsStays
 <2>2. CASE i > Len(marks)
  <3> DEFINE k == i - Len(marks)
  <3>1. k \in 1..Len(p) /\ Len(marks) + k = i BY <1>12, <1>13, <2>2
  <3> HIDE DEF k
  <3>2. w[i] = p[k] BY <1>12, <3>1
  <3>3. CASE k = 1
   <4>1. w[i].do = "push" BY <1>4, <1>11, <3>2, <3>3
   <4> QED BY <4>1 DEF FitsIn, Names, Plain, PlainNames
  <3>4. CASE k # 1 BY <1>9, <1>11, <3>1, <3>2, <3>4, <1>5, FitsStays
  <3> QED BY <3>3, <3>4
 <2> QED BY <1>12, <1>13, <2>1, <2>2
<1>15. ASSUME NEW r \in rs
       PROVE  /\ IsList(<<ForkSave(t, r)>>) /\ Ordered(<<ForkSave(t, r)>>)
              /\ \A i \in 1..Len(<<ForkSave(t, r)>>) :
                   /\ FitsIn(<<ForkSave(t, r)>>[i], Len(reflections'), receipts', Len(injections'))
                   /\ Carries(<<ForkSave(t, r)>>[i])
 <2> DEFINE e == ForkSave(t, r)
            l == <<ForkSave(t, r)>>
 <2>1. Fits(e) /\ e.do = "save" /\ Carries(e)
  <3>1. r \in 1..Len(reflections) /\ r \in Reflections /\ index[r] # 0 BY <1>1
  <3> QED BY <3>1, SaveFits DEF ForkSave
 <2> HIDE DEF e
 <2>2. IsList(<<e>>) /\ Len(<<e>>) = 1 /\ <<e>>[1] = e BY OneList
 <2>3. \A i \in 1..Len(<<e>>) : i = 1 /\ <<e>>[i] = e BY <2>2
 <2>4. FitsIn(e, Len(reflections'), receipts', Len(injections')) BY <1>5, <2>1, FitsStays
 <2>5. Ordered(<<e>>) BY <2>1, <2>3 DEF Ordered, PlainLast, InjectsFirst, ChainFirst, Owned
 <2>6. /\ IsList(<<e>>) /\ Ordered(<<e>>)
       /\ \A i \in 1..Len(<<e>>) :
                  /\ FitsIn(<<e>>[i], Len(reflections'), receipts', Len(injections'))
                  /\ Carries(<<e>>[i])
   BY <2>1, <2>2, <2>3, <2>4, <2>5
 <2> QED BY <2>6 DEF e
<1>16. \A u \in Threads : \/ u = t
                          \/ u # t /\ u[1] = t[1] /\ u[2] \in rs /\ work'[u] = <<ForkSave(t, u[2])>>
                          \/ u # t /\ work'[u] = work[u]
  BY <1>1
<1>17. WorkTypes' BY <1>1, <1>12, <1>15, <1>16 DEF MemoryInv, WorkInv, WorkTypes
<1>18. CallsFit'
 <2>1. ASSUME NEW u \in Threads, NEW i \in 1..Len(work'[u])
       PROVE  FitsIn(work'[u][i], Len(reflections'), receipts', Len(injections'))
  <3>1. CASE u = t BY <1>1, <1>14, <3>1
  <3>2. CASE u[2] \in rs /\ work'[u] = <<ForkSave(t, u[2])>> BY <1>15, <3>2
  <3>3. CASE work'[u] = work[u] BY <3>3, <1>5, FitsStays DEF MemoryInv, WorkInv, CallsFit
  <3> QED BY <1>16, <3>1, <3>2, <3>3
 <2> QED BY <2>1 DEF CallsFit, Fits
<1>19. CallsOrdered'
 <2>1. \A u \in Threads : Ordered(work[u]) BY DEF MemoryInv, WorkInv, CallsOrdered
 <2>2. \A u \in Threads : Ordered(work'[u]) BY <1>1, <1>10, <1>15, <1>16, <2>1
 <2> QED BY <2>2 DEF CallsOrdered, Ordered, PlainLast, InjectsFirst, ChainFirst, Owned
<1>20. Children'
 <2>1. ASSUME NEW u \in Threads, u[2] # 0, NEW i \in 1..Len(work'[u])
       PROVE  Carries(work'[u][i]) BY <1>1, <2>1, <1>15, <1>16 DEF MemoryInv, WorkInv, Children
 <2>2. ASSUME NEW u \in Threads, u[2] # 0, work'[u] # <<>>, work'[<<u[1], 0>>] # <<>>
       PROVE  work'[<<u[1], 0>>][1].do = "inject"
  <3> DEFINE o == <<u[1], 0>>
  <3>1. o \in Threads /\ o[1] = u[1] /\ o[2] = 0 BY ThreadParts
  <3>2. t = <<t[1], 0>> BY <1>1, ThreadParts
  <3>3. CASE u[1] = t[1]
   <4>1. o = t BY <3>2, <3>3
   <4>2. u # t /\ work[u] = <<>> BY <1>1, <2>2, <3>3 DEF Quiet
   <4>3. u[2] \in rs BY <1>16, <2>2, <4>2
   <4>4. 1 \in 1..Len(items)
    <5>1. PICK n \in 1..Len(items) : items[n].r = u[2] BY <1>1, <4>3
    <5> QED BY <1>1, <5>1
   <4>5. work'[o][1] = marks[1] /\ marks[1].do = "inject" BY <1>1, <1>12, <4>1, <4>4
   <4> QED BY <4>5
  <3>4. CASE u[1] # t[1] BY <1>1, <3>1, <3>4, <2>2 DEF MemoryInv, WorkInv, Children
  <3> QED BY <3>3, <3>4
 <2> QED BY <2>1, <2>2 DEF Children, Carries
<1> QED BY <1>5, <1>17, <1>18, <1>19, <1>20 DEF MemoryInv, WorkInv

\* Lists whose elements are of a set, and that start with an element.
ListOf(s, S) == IsList(s) /\ \A i \in 1..Len(s) : s[i] \in S
ListFrom(s, x, S) == ListOf(s, S) /\ Len(s) > 0 /\ s[1] = x

LEMMA FromJoined ==
  ASSUME NEW S, NEW x, NEW s, ListFrom(s, x, S), NEW q, ListOf(q, S)
  PROVE  ListFrom(s \o q, x, S)
<1> DEFINE w == s \o q
           m == Len(s)
<1>1. /\ IsList(s) /\ \A i \in 1..Len(s) : s[i] \in S
      /\ IsList(q) /\ \A i \in 1..Len(q) : q[i] \in S
      /\ Len(s) > 0 /\ s[1] = x
  BY DEF ListFrom, ListOf
<1>2. /\ IsList(w) /\ Len(w) = m + Len(q)
      /\ \A i \in 1..m : w[i] = s[i]
      /\ \A i \in 1..Len(q) : w[m + i] = q[i]
  BY <1>1, Joined
<1>3. m \in Nat /\ Len(q) \in Nat BY <1>1, ListLength
<1> HIDE DEF w
<1>4. ASSUME NEW i \in 1..Len(w) PROVE w[i] \in S
 <2>1. CASE i <= m BY <1>1, <1>2, <1>3, <2>1
 <2>2. CASE i > m
  <3>1. i - m \in 1..Len(q) /\ m + (i - m) = i BY <1>2, <1>3, <2>2
  <3>2. w[i] = q[i - m] BY <1>2, <3>1
  <3> QED BY <1>1, <3>1, <3>2
 <2> QED BY <1>2, <1>3, <2>1, <2>2
<1>5. Len(w) > 0 /\ w[1] = x BY <1>1, <1>2, <1>3
<1>6. ListFrom(w, x, S) BY <1>2, <1>4, <1>5 DEF ListFrom, ListOf
<1> QED BY <1>6 DEF w

\* What the routes ask.
LEMMA RoutesFit ==
  ASSUME BooksInv, NEW calls \in Routes
  PROVE  /\ IsList(calls) /\ Ordered(calls)
         /\ \A i \in 1..Len(calls) : Fits(calls[i]) /\ Plain(calls[i])
                                      /\ calls[i].do # "chain"
<1> DEFINE create == Call("create", 0)
           anchor == Call("anchor", 0)
           verify == Call("verify", 0)
           Good(s) == /\ IsList(s) /\ Ordered(s)
                      /\ \A i \in 1..Len(s) : Fits(s[i]) /\ Plain(s[i]) /\ s[i].do # "chain"
<1>1. /\ Len(reflections) \in Nat /\ Len(reflections) <= MaxCreated
      /\ DOMAIN reflections = 1..Len(reflections)
  BY DEF BooksInv, MemoryTypes
<1>2. 0 \in 0..Len(reflections) /\ 0 \in 0..MaxCreated
      /\ \A r \in 1..Len(reflections) : r \in 0..Len(reflections) /\ r \in 0..MaxCreated /\ r # 0
  BY <1>1, BoundsAssumption
<1>3. ASSUME NEW name \in {"create", "anchor", "verify"}, NEW r \in 0..Len(reflections),
             r \in 0..MaxCreated
      PROVE  /\ Fits(Call(name, r)) /\ Plain(Call(name, r))
             /\ Call(name, r).do = name /\ Call(name, r).r = r
 <2> DEFINE c == Call(name, r)
 <2>1. c.do = name /\ c.r = r /\ c \in PlainCalls BY <1>3 DEF Call, PlainCalls
 <2> HIDE DEF c
 <2>2. Fits(c) /\ Plain(c) BY <1>3, <2>1 DEF Fits, FitsIn, Names, Plain, PlainNames
 <2> QED BY <2>1, <2>2 DEF c
<1>4. ASSUME NEW r \in 1..Len(reflections), NEW turn \in Turns
      PROVE  /\ Fits(LinkCall(r, turn)) /\ Plain(LinkCall(r, turn)) /\ LinkCall(r, turn).do = "link"
 <2> DEFINE c == LinkCall(r, turn)
 <2>1. c.do = "link" /\ c.r = r /\ c \in PlainCalls BY <1>2 DEF LinkCall, PlainCalls
 <2> HIDE DEF c
 <2>2. Fits(c) /\ Plain(c) BY <2>1 DEF Fits, FitsIn, Names, Plain, PlainNames
 <2> QED BY <2>1, <2>2 DEF c
<1>5. ASSUME NEW turn \in Turns
      PROVE  /\ Fits(BundleCall(turn)) /\ Plain(BundleCall(turn)) /\ BundleCall(turn).do = "bundle"
 <2> DEFINE c == BundleCall(turn)
 <2>1. c.do = "bundle" /\ c \in PlainCalls BY <1>2 DEF BundleCall, PlainCalls
 <2> HIDE DEF c
 <2>2. Fits(c) /\ Plain(c) BY <2>1 DEF Fits, FitsIn, Names, Plain, PlainNames
 <2> QED BY <2>1, <2>2 DEF c
<1>6. ASSUME NEW s, IsList(s), \A i \in 1..Len(s) : Fits(s[i]) /\ Plain(s[i]) /\ s[i].do # "chain",
             Owned(s)
      PROVE  Good(s) BY <1>6 DEF PlainLast, ChainFirst, InjectsFirst, Plain, PlainNames, Ordered
<1>7. /\ Fits(create) /\ Plain(create) /\ create.do = "create"
      /\ Fits(anchor) /\ Plain(anchor) /\ anchor.do = "anchor"
      /\ Fits(verify) /\ Plain(verify) /\ verify.do = "verify"
  BY <1>2, <1>3
<1> HIDE DEF create, anchor, verify
<1>8. ASSUME NEW x, Fits(x), Plain(x), x.do # "chain", x.do \in {"anchor", "verify"} => x.r # 0
      PROVE  Good(<<x>>)
 <2>1. IsList(<<x>>) /\ Len(<<x>>) = 1 /\ <<x>>[1] = x BY OneList
 <2> DEFINE s == <<x>>
 <2> HIDE DEF s
 <2>2. \A i \in 1..Len(s) : s[i] = x BY <2>1 DEF s
 <2>3. Owned(s) BY <1>8, <2>2 DEF Owned
 <2> QED BY <1>6, <1>8, <2>1, <2>2, <2>3 DEF s
<1>9. ASSUME NEW s, IsList(s), Len(s) > 0, s[1] = create,
             \A i \in 1..Len(s) : \/ s[i] \in {create, anchor, verify}
                                  \/ \E turn \in Turns : s[i] = BundleCall(turn)
      PROVE  Good(s)
 <2>1. \A i \in 1..Len(s) : Fits(s[i]) /\ Plain(s[i]) /\ s[i].do # "chain"
  <3> SUFFICES ASSUME NEW i \in 1..Len(s) PROVE Fits(s[i]) /\ Plain(s[i]) /\ s[i].do # "chain" OBVIOUS
  <3>1. CASE s[i] \in {create, anchor, verify} BY <1>7, <3>1
  <3>2. CASE \E turn \in Turns : s[i] = BundleCall(turn)
   <4>1. PICK turn \in Turns : s[i] = BundleCall(turn) BY <3>2
   <4> QED BY <1>5, <4>1
  <3> QED BY <1>9, <3>1, <3>2
 <2>2. \A i \in 1..Len(s) : 1 \in 1..i BY <1>9, ListLength
 <2>3. Owned(s) BY <1>7, <1>9, <2>2 DEF Owned
 <2> QED BY <1>6, <1>9, <2>1, <2>3
<1>10. ASSUME NEW a \in BOOLEAN, NEW v \in BOOLEAN
       PROVE  /\ IsList(Create(a, v)) /\ Len(Create(a, v)) > 0 /\ Create(a, v)[1] = create
              /\ \A i \in 1..Len(Create(a, v)) : Create(a, v)[i] \in {create, anchor, verify}
 <2> DEFINE S == {create, anchor, verify}
            p == IF a THEN <<anchor>> ELSE <<>>
            q == IF v THEN <<verify>> ELSE <<>>
 <2>1. /\ IsList(<<>>) /\ Len(<<>>) = 0
       /\ \A x : IsList(<<x>>) /\ Len(<<x>>) = 1 /\ <<x>>[1] = x
   BY NoList, OneList
 <2>2. IsList(p) /\ \A i \in 1..Len(p) : p[i] \in S BY <2>1
 <2>3. IsList(q) /\ \A i \in 1..Len(q) : q[i] \in S BY <2>1
 <2>4. Create(a, v) = <<create>> \o p \o q BY DEF Create, create, anchor, verify
 <2>5. create \in S OBVIOUS
 <2> HIDE DEF p, q, S
 <2>6. ListFrom(<<create>>, create, S) /\ ListOf(p, S) /\ ListOf(q, S)
  <3> DEFINE o == <<create>>
  <3>1. IsList(o) /\ Len(o) = 1 /\ o[1] = create BY <2>1
  <3> HIDE DEF o
  <3>2. ListFrom(o, create, S) BY <2>5, <3>1 DEF ListFrom, ListOf
  <3> QED BY <2>2, <2>3, <3>2 DEF ListOf, o
 <2>7. ListFrom(<<create>> \o p, create, S) BY <2>6, FromJoined
 <2>8. ListFrom(<<create>> \o p \o q, create, S) BY <2>6, <2>7, FromJoined
 <2>9. ListFrom(Create(a, v), create, S) BY <2>4, <2>8
 <2> QED BY <2>9 DEF S, ListFrom, ListOf
<1>11. ASSUME NEW a \in BOOLEAN, NEW v \in BOOLEAN PROVE Good(Create(a, v))
 <2> DEFINE s == Create(a, v)
 <2>1. /\ IsList(s) /\ Len(s) > 0 /\ s[1] = create
       /\ \A i \in 1..Len(s) : s[i] \in {create, anchor, verify}
   BY <1>10
 <2> HIDE DEF s
 <2>2. Good(s) BY <1>9, <2>1
 <2> QED BY <2>2 DEF s
<1>12. ASSUME NEW turn \in Turns PROVE Good(RunDemoFlow(turn))
 <2> DEFINE p == Create(TRUE, TRUE)
            e == BundleCall(turn)
            S == {create, anchor, verify, e}
            k == p \o <<e>>
            s == k \o p
 <2>1. /\ IsList(p) /\ Len(p) > 0 /\ p[1] = create
       /\ \A i \in 1..Len(p) : p[i] \in {create, anchor, verify}
   BY <1>10
 <2>2. \A i \in 1..Len(p) : p[i] \in S BY <2>1
 <2>3. RunDemoFlow(turn) = s BY DEF RunDemoFlow
 <2>4. \A i \in 1..Len(<<e>>) : <<e>>[i] \in S BY OneList
 <2>5. IsList(<<e>>) BY OneList
 <2>6. \A x \in S : x \in {create, anchor, verify} \/ \E u \in Turns : x = BundleCall(u) OBVIOUS
 <2> HIDE DEF p, e, S
 <2>7. ListFrom(p, create, S) /\ ListOf(p, S) /\ ListOf(<<e>>, S) BY <2>1, <2>2, <2>4, <2>5 DEF ListFrom, ListOf
 <2>8. ListFrom(p \o <<e>>, create, S) BY <2>7, FromJoined
 <2>9. ListFrom(p \o <<e>> \o p, create, S) BY <2>7, <2>8, FromJoined
 <2> HIDE DEF s
 <2>10. IsList(s) /\ Len(s) > 0 /\ s[1] = create /\ \A i \in 1..Len(s) : s[i] \in S BY <2>9 DEF ListFrom, ListOf, s
 <2>11. Good(s) BY <1>9, <2>6, <2>10
 <2> QED BY <2>3, <2>11
<1>13. ASSUME NEW name \in {"anchor", "verify"}, NEW r \in 1..Len(reflections)
       PROVE  Good(<<Call(name, r)>>) BY <1>2, <1>3, <1>8
<1>14. ASSUME NEW r \in 1..Len(reflections), NEW turn \in Turns PROVE Good(<<LinkCall(r, turn)>>) BY <1>4, <1>8
<1>15. ASSUME NEW turn \in Turns PROVE Good(<<BundleCall(turn)>>) BY <1>5, <1>8
<1>16. \/ \E a \in BOOLEAN, v \in BOOLEAN : calls = Create(a, v)
       \/ \E name \in {"anchor", "verify"}, r \in 1..Len(reflections) : calls = <<Call(name, r)>>
       \/ \E r \in 1..Len(reflections), turn \in Turns : calls = <<LinkCall(r, turn)>>
       \/ \E turn \in Turns : calls = <<BundleCall(turn)>>
       \/ \E turn \in Turns : calls = RunDemoFlow(turn)
  BY <1>1 DEF Routes
<1> HIDE DEF Good
<1>17. Good(calls) BY <1>11, <1>12, <1>13, <1>14, <1>15, <1>16
<1> QED BY <1>17 DEF Good

LEMMA RequestKeeps ==
  ASSUME MemoryInv, NEW c \in Callers, NEW calls \in Routes, Request(c, calls)
  PROVE  MemoryInv'
<1> DEFINE t == <<c, 0>>
<1>1. /\ \A r \in 0..MaxCreated : work[<<c, r>>] = <<>>
      /\ Goes(t, calls)
      /\ UNCHANGED <<reflections, receipts, index, links, injections, patient>>
      /\ writeFailed' = writeFailed
  BY DEF Request
<1>2. BooksInv' /\ Grows BY <1>1, BooksSame DEF MemoryInv, BooksInv, MemoryTypes
<1>3. /\ IsList(calls) /\ Ordered(calls)
      /\ \A i \in 1..Len(calls) : Fits(calls[i])
  BY RoutesFit DEF MemoryInv
<1>4. t \in Threads /\ t[1] = c /\ t[2] = 0 BY BoundsAssumption DEF Threads
<1>5. Quiet(t)
 <2> SUFFICES ASSUME NEW u \in Threads, u[1] = c PROVE work[u] = <<>> BY <1>4 DEF Quiet
 <2>1. u[2] \in 0..MaxCreated /\ u = <<c, u[2]>> BY ThreadParts
 <2> QED BY <1>1, <2>1
<1> HIDE DEF t
<1>6. \A i \in 1..Len(calls) : FitsIn(calls[i], Len(reflections'), receipts', Len(injections'))
  BY <1>2, <1>3, FitsStays
<1>7. WorkInv' BY <1>1, <1>2, <1>3, <1>4, <1>5, <1>6, ThreadGoes DEF MemoryInv
<1> QED BY <1>2, <1>7 DEF MemoryInv

----
\* MemoryInv is an invariant.
LEMMA NoWork ==
  ASSUME Init
  PROVE  /\ work = [t \in Threads |-> work[t]]
         /\ \A t \in Threads : work[t] = <<>>
         /\ \A t \in Threads : \A i \in 1..Len(work[t]) : FALSE
<1>1. /\ work = [t \in Threads |-> work[t]]
      /\ \A t \in Threads : work[t] = <<>>
  BY DEF Init
<1> QED BY <1>1, NoList

LEMMA InitKeeps ==
  ASSUME Init
  PROVE  MemoryInv
<1>1. /\ reflections = <<>> /\ receipts = <<>> /\ index = [r \in Reflections |-> 0]
      /\ links = {} /\ injections = <<>> /\ writeFailed = FALSE /\ patient \in BOOLEAN
  BY SettingsAssumption DEF Init
<1>2. /\ Len(reflections) = 0 /\ Len(receipts) = 0 /\ Len(injections) = 0
      /\ reflections \in Seq(ReflectionSet) /\ receipts \in Seq(ReceiptSet)
      /\ injections \in Seq(BundleSet)
  BY <1>1
<1>3. MemoryTypes
 <2>1. index \in [Reflections -> 0..0] /\ Len(reflections) <= MaxCreated BY <1>1, <1>2, BoundsAssumption
 <2>2. links \subseteq ((1..0) \X Turns) /\ writeFailed \in BOOLEAN BY <1>1
 <2> QED BY <1>1, <1>2, <2>1, <2>2 DEF MemoryTypes
<1>4. BooksInv BY <1>1, <1>2, <1>3 DEF BooksInv, BundlesFit, ReceiptsKnown, IndexNamesOwnReceipt
<1>5. /\ work = [t \in Threads |-> work[t]]
      /\ \A t \in Threads : work[t] = <<>>
      /\ \A t \in Threads : \A i \in 1..Len(work[t]) : FALSE
  BY NoWork
<1>6. WorkTypes /\ CallsFit /\ CallsOrdered /\ Children
  BY <1>5, NoList, NoOrder DEF WorkTypes, CallsFit, CallsOrdered, Children
<1> QED BY <1>4, <1>6 DEF MemoryInv, WorkInv

LEMMA StutterKeeps ==
  ASSUME MemoryInv, UNCHANGED vars
  PROVE  MemoryInv'
<1>1. /\ UNCHANGED <<reflections, receipts, index, links, injections, patient>>
      /\ writeFailed' \in BOOLEAN /\ work' = work
  BY DEF vars, MemoryInv, BooksInv, MemoryTypes
<1>2. BooksInv' BY <1>1, BooksSame DEF MemoryInv
<1>3. WorkTypes' /\ CallsOrdered' /\ Children'
  BY <1>1 DEF MemoryInv, WorkInv, WorkTypes, CallsOrdered, Children, Ordered,
     PlainLast, InjectsFirst, ChainFirst, Owned
<1>4. CallsFit' BY <1>1 DEF MemoryInv, WorkInv, CallsFit, Fits
<1> QED BY <1>2, <1>3, <1>4 DEF MemoryInv, WorkInv

LEMMA StepKeeps ==
  ASSUME MemoryInv, [Next]_vars
  PROVE  MemoryInv'
<1>1. CASE \E c \in Callers : \E calls \in Routes : Request(c, calls) BY <1>1, RequestKeeps
<1>2. ASSUME NEW t \in Threads,
             \/ \E a \in Advices, p \in Priorities : Created(t, a, p)
             \/ \E tx \in {"signed", None} : AnchorAnswered(t, tx)
      PROVE  MemoryInv'
  BY <1>2, CreatedKeeps, AnchorAnsweredKeeps
<1>3. ASSUME NEW t \in Threads,
             Anchored(t) \/ Link(t) \/ Saved(t) \/ Verify(t) \/ (\E w : Build(t, w)) \/ Fork(t)
               \/ Inject(t) \/ Pushed(t) \/ Rejects(t)
      PROVE  MemoryInv'
  BY <1>3, AnchoredKeeps, LinkKeeps, SavedKeeps, VerifyKeeps, BuildKeeps, ForkKeeps,
     InjectKeeps, PushedKeeps, RejectsKeeps, Zenon
<1>4. CASE UNCHANGED vars BY <1>4, StutterKeeps
<1> QED BY <1>1, <1>2, <1>3, <1>4 DEF Next

\* The tables of the memory service always name what exists, and so does
\* every call under way, however requests overlap and writes fail.
THEOREM MemoryInvAlways == Spec => []MemoryInv
<1>1. Init => MemoryInv BY InitKeeps
<1>2. MemoryInv /\ [Next]_vars => MemoryInv' BY StepKeeps
<1> QED BY <1>1, <1>2, PTL DEF Spec

\* Callers that wait for one answer before the next request. Then one
\* request is at work, every receipt is found by its reflection, an
\* awaited anchor is of a reflection without a receipt, and what is marked
\* as injected is in a bundle for its turn.
\* Callers that wait.
PatientParts == Alone /\ IndexedAll /\ ChainsFresh /\ InjectsBundled /\ InjectedBundled

LEMMA OthersIdle ==
  ASSUME MemoryInv, Alone, NEW t \in Threads, work[t] # <<>>,
         NEW u \in Threads, u # t, NEW i \in 1..Len(work[u])
  PROVE  /\ work[u][i].do # "chain"
         /\ t[2] = 0 => work[u][i].do # "inject"
<1>1. IsList(work[u]) /\ Len(work[u]) \in Nat /\ work[u] # <<>> /\ Ordered(work[u])
  BY ListLength DEF MemoryInv, WorkInv, WorkTypes, CallsOrdered
<1>2. u[1] = t[1] BY <1>1 DEF Alone
<1>3. CASE u[2] # 0 BY <1>3 DEF MemoryInv, WorkInv, Children, Carries
<1>4. CASE u[2] = 0
 <2>1. u = <<t[1], 0>> BY <1>2, <1>4, ThreadParts
 <2>2. t[2] # 0 BY <2>1, ThreadParts
 <2>3. work[u][1].do = "inject" BY <1>1, <2>1, <2>2 DEF MemoryInv, WorkInv, Children
 <2>4. work[u][i].do # "chain" BY <1>1, <2>3 DEF Ordered, ChainFirst
 <2> QED BY <2>2, <2>4
<1> QED BY <1>3, <1>4

\* What a step leaves to do in the threads of one caller.
Follows(t) ==
  \/ work'[t] = Tail(work[t])
  \/ work'[t] = <<>>
  \/ /\ work'[t] # <<>> /\ work'[t][1].do # "inject"
     /\ work'[t][1].do = "chain" => index'[work'[t][1].r] = 0

LEMMA AloneStays ==
  ASSUME Alone, NEW t \in Threads, work[t] # <<>>,
         \A u \in Threads : work'[u] # <<>> => work[u] # <<>> \/ u[1] = t[1]
  PROVE  Alone'
  BY DEF Alone

LEMMA ChainsStay ==
  ASSUME MemoryInv, MemoryInv', Alone, NEW t \in Threads, work[t] # <<>>, Follows(t),
         \A u \in Threads : u # t => \/ work'[u] = work[u]
                                     \/ \A i \in 1..Len(work'[u]) : work'[u][i].do # "chain"
  PROVE  ChainsFresh'
<1> SUFFICES ASSUME NEW u \in Threads, NEW i \in 1..Len(work'[u]), work'[u][i].do = "chain"
             PROVE  index'[work'[u][i].r] = 0
  BY DEF ChainsFresh
<1>1. u = t BY OthersIdle
<1>2. i = 1 BY DEF MemoryInv, WorkInv, CallsOrdered, Ordered, ChainFirst
<1>3. work'[t] # Tail(work[t]) BY HeadFacts, RestOrdered, <1>1 DEF MemoryInv
<1>4. work'[t] # <<>> BY <1>1, NoList
<1> QED BY <1>1, <1>2, <1>3, <1>4 DEF Follows

\* The marks to come are those that came before, or none.
LEMMA MarksStay ==
  ASSUME MemoryInv, MemoryInv', NEW t \in Threads, work[t] # <<>>, Follows(t),
         NEW i \in 1..Len(work'[t]), work'[t][i].do = "inject"
  PROVE  \E j \in 1..Len(work[t]) : work[t][j] = work'[t][i]
<1>1. work'[t] # <<>> BY NoList
<1>2. IsList(work'[t]) /\ InjectsFirst(work'[t]) BY DEF MemoryInv, WorkInv, WorkTypes, CallsOrdered, Ordered
<1>3. Len(work'[t]) \in Nat BY <1>2, ListLength
<1>4. work'[t][1].do = "inject" BY <1>2, <1>3 DEF InjectsFirst
<1>5. work'[t] = Tail(work[t]) BY <1>1, <1>4 DEF Follows
<1>6. \A j \in 1..Len(Tail(work[t])) : Tail(work[t])[j] = work[t][j + 1] /\ j + 1 \in 1..Len(work[t])
  BY HeadFacts, Behead DEF MemoryInv
<1> QED BY <1>5, <1>6

LEMMA BundledStays ==
  ASSUME Len(injections) \in Nat, Len(injections') \in Nat,
         Len(injections) <= Len(injections'),
         \A b \in 1..Len(injections) : injections'[b] = injections[b],
         NEW i, BundledFor(i), receipts'[i].turn = receipts[i].turn
  PROVE  BundledIn(i, receipts', injections')
<1>1. PICK b \in 1..Len(injections) :
         /\ injections[b].turn = receipts[i].turn
         /\ \E n \in 1..Len(injections[b].items) : injections[b].items[n].receipt = i
  BY DEF BundledFor, BundledIn
<1>2. b \in 1..Len(injections') /\ injections'[b] = injections[b] OBVIOUS
<1> QED BY <1>1, <1>2 DEF BundledIn

\* A step that sets no turn and names no other receipt.
LEMMA PatientSame ==
  ASSUME MemoryInv, MemoryInv', PatientParts, NEW t \in Threads, work[t] # <<>>, Follows(t),
         \A u \in Threads : u # t => work'[u] = work[u] \/ work'[u] = <<>>,
         index' = index, Len(receipts') = Len(receipts),
         \A i \in 1..Len(receipts) :
            /\ receipts'[i].of = receipts[i].of /\ receipts'[i].turn = receipts[i].turn
            /\ receipts'[i].status = "injected" => receipts[i].status = "injected" \/ BundledFor(i),
         Len(injections) <= Len(injections'),
         \A b \in 1..Len(injections) : injections'[b] = injections[b]
  PROVE  PatientParts'
<1>1. Alone /\ IndexedAll /\ ChainsFresh /\ InjectsBundled /\ InjectedBundled BY DEF PatientParts
<1>2. Alone' BY <1>1, AloneStays
<1>3. ChainsFresh' BY <1>1, NoList, ChainsStay
<1>4. IndexedAll' BY <1>1 DEF IndexedAll
<1>5. Len(injections) \in Nat /\ Len(injections') \in Nat BY DEF MemoryInv, BooksInv, MemoryTypes
<1>6. \A i \in 1..Len(receipts) : BundledFor(i) => BundledIn(i, receipts', injections') BY <1>5, BundledStays
<1>7. InjectedBundled' BY <1>1, <1>6 DEF InjectedBundled, BundledFor
<1>8. InjectsBundled'
 <2>1. ASSUME NEW u \in Threads, NEW i \in 1..Len(work'[u]), work'[u][i].do = "inject"
       PROVE  BundledIn(work'[u][i].receipt, receipts', injections')
  <3>1. PICK j \in 1..Len(work[u]) : work[u][j] = work'[u][i]
   <4>1. CASE u = t BY <2>1, <4>1, MarksStay
   <4>2. CASE u # t
    <5>1. work'[u] # <<>> BY NoList
    <5>2. work'[u] = work[u] BY <4>2, <5>1
    <5>3. work[u][i] = work'[u][i] /\ i \in 1..Len(work[u]) BY <5>2
    <5> QED BY <5>3
   <4> QED BY <4>1, <4>2
  <3>2. Fits(work[u][j]) /\ BundledFor(work[u][j].receipt)
    BY <1>1, <2>1, <3>1 DEF MemoryInv, WorkInv, CallsFit, InjectsBundled
  <3>3. work[u][j].receipt \in 1..Len(receipts) BY <2>1, <3>1, <3>2 DEF Fits, FitsIn
  <3> QED BY <1>6, <3>1, <3>2, <3>3
 <2> QED BY <2>1 DEF InjectsBundled, BundledFor
<1> QED BY <1>2, <1>3, <1>4, <1>7, <1>8 DEF PatientParts

\* A receipt is filed again where it is.
LEMMA FiledAgain ==
  ASSUME MemoryInv, IndexedAll, NEW r \in Reflections, NEW i \in 1..Len(receipts),
         receipts[i].of = r
  PROVE  [index EXCEPT ![r] = i] = index
<1>1. index \in [Reflections -> 0..Len(receipts)] BY DEF MemoryInv, BooksInv, MemoryTypes
<1>2. index[r] = i BY DEF IndexedAll
<1> QED BY <1>1, <1>2

----
LEMMA GoesOn ==
  ASSUME MemoryInv, NEW t \in Threads, work[t] # <<>>, Goes(t, Rest(t))
  PROVE  Follows(t) /\ \A u \in Threads : u # t => work'[u] = work[u]
  BY GoesWhere DEF MemoryInv, WorkInv, Follows, Rest

LEMMA GoesOff ==
  ASSUME MemoryInv, NEW t \in Threads, work[t] # <<>>, Goes(t, <<>>)
  PROVE  Follows(t) /\ \A u \in Threads : u # t => work'[u] = work[u]
  BY GoesWhere DEF MemoryInv, WorkInv, Follows

LEMMA GoesTo ==
  ASSUME MemoryInv, NEW t \in Threads, work[t] # <<>>, NEW c, c.do # "inject",
         c.do = "chain" => index'[c.r] = 0,
         NEW q, IsList(q), Goes(t, <<c>> \o q)
  PROVE  Follows(t) /\ \A u \in Threads : u # t => work'[u] = work[u]
<1> DEFINE p == <<c>> \o q
<1>1. p # <<>> /\ p[1] = c BY Prefixed
<1> HIDE DEF p
<1>2. work'[t] = p /\ \A u \in Threads : u # t => work'[u] = work[u] BY GoesWhere DEF MemoryInv, WorkInv, p
<1> QED BY <1>1, <1>2 DEF Follows

LEMMA NamingList ==
  ASSUME NEW s, IsList(s), NEW new
  PROVE  IsList(Naming(s, new))
<1> DEFINE f == Naming(s, new)
<1>1. Len(s) \in Nat /\ DOMAIN s = 1..Len(s) BY ListLength
<1>2. f = [i \in 1..Len(s) |-> f[i]] BY <1>1 DEF Naming
<1> HIDE DEF f
<1>3. IsList(f) BY <1>1, <1>2, Mapped
<1> QED BY <1>3 DEF f

\* What each step of callers that wait keeps.
LEMMA PushedPatient ==
  ASSUME MemoryInv, MemoryInv', PatientParts, NEW t \in Threads, Pushed(t)
  PROVE  PatientParts'
<1>1. work[t] # <<>> /\ Goes(t, Rest(t)) /\ UNCHANGED <<receipts, index, injections>> BY DEF Pushed, Does
<1>2. Len(injections) \in Nat BY DEF MemoryInv, BooksInv, MemoryTypes
<1> QED BY <1>1, <1>2, GoesOn, PatientSame

LEMMA RejectsPatient ==
  ASSUME MemoryInv, MemoryInv', PatientParts, NEW t \in Threads, Rejects(t)
  PROVE  PatientParts'
<1>1. work[t] # <<>> /\ UNCHANGED <<receipts, index, injections>>
      /\ work' = [work EXCEPT ![t] = <<>>, ![<<t[1], 0>>] = <<>>]
  BY DEF Rejects
<1>2. work = [u \in Threads |-> work[u]] BY DEF MemoryInv, WorkInv, WorkTypes
<1>3. Len(injections) \in Nat BY DEF MemoryInv, BooksInv, MemoryTypes
<1>4. work'[t] = <<>> /\ \A u \in Threads : u # t => work'[u] = work[u] \/ work'[u] = <<>> BY <1>1, <1>2
<1>5. Follows(t) BY <1>4 DEF Follows
<1>6. receipts' = receipts /\ index' = index /\ injections' = injections /\ work[t] # <<>> BY <1>1
<1> QED BY <1>3, <1>4, <1>5, <1>6, PatientSame

LEMMA CreatedPatient ==
  ASSUME MemoryInv, MemoryInv', PatientParts, NEW t \in Threads, NEW a \in Advices,
         NEW p \in Priorities, Created(t, a, p)
  PROVE  PatientParts'
<1> DEFINE c == Push({<<"reflection_stored", Len(reflections) + 1>>})
           q == Naming(Rest(t), Len(reflections) + 1)
<1>1. work[t] # <<>> /\ Goes(t, <<c>> \o q) /\ UNCHANGED <<receipts, index, injections>> BY DEF Created, Does
<1>2. Len(injections) \in Nat BY DEF MemoryInv, BooksInv, MemoryTypes
<1>3. IsList(q) BY <1>1, HeadFacts, Behead, NamingList DEF MemoryInv, Rest
<1>4. c.do = "push" BY DEF Push
<1> HIDE DEF c, q
<1> QED BY <1>1, <1>2, <1>3, <1>4, GoesTo, PatientSame

LEMMA SavedPatient ==
  ASSUME MemoryInv, MemoryInv', PatientParts, NEW t \in Threads, Saved(t)
  PROVE  PatientParts'
<1> DEFINE c == Push(Head(work[t]).events)
           q == Rest(t)
<1>1. work[t] # <<>> /\ Head(work[t]).do = "save" /\ Goes(t, <<c>> \o q)
      /\ UNCHANGED <<receipts, injections>>
      /\ index' = [index EXCEPT ![Head(work[t]).r] = Head(work[t]).receipt]
  BY DEF Saved, Does
<1>2. Len(injections) \in Nat BY DEF MemoryInv, BooksInv, MemoryTypes
<1>3. IsList(q) /\ Head(work[t]) = work[t][1] /\ Fits(work[t][1]) BY <1>1, HeadFacts, Behead DEF MemoryInv, Rest
<1>4. c.do = "push" BY DEF Push
<1>5. /\ work[t][1].r \in Reflections /\ work[t][1].receipt \in 1..Len(receipts)
      /\ receipts[work[t][1].receipt].of = work[t][1].r
  BY <1>1, <1>3, HeadNamed DEF Fits, FitsIn
<1>6. index' = index BY <1>1, <1>3, <1>5, FiledAgain DEF PatientParts
<1> HIDE DEF c, q
<1> QED BY <1>1, <1>2, <1>3, <1>4, <1>6, GoesTo, PatientSame

LEMMA BuildPatient ==
  ASSUME MemoryInv, MemoryInv', PatientParts, NEW t \in Threads, NEW w, Build(t, w)
  PROVE  PatientParts'
<1> DEFINE c == [do |-> "fork", r |-> 0, bundle |-> Len(injections) + 1]
           q == Rest(t)
           row == [turn |-> Head(work[t]).turn, items |-> BuiltItems(w)]
<1>1. work[t] # <<>> /\ Goes(t, <<c>> \o q) /\ UNCHANGED <<receipts, index>>
      /\ injections' = Append(injections, row)
  BY DEF Build, Does, BuiltItems
<1>2. injections \in Seq(BundleSet) /\ Len(injections) \in Nat BY DEF MemoryInv, BooksInv, MemoryTypes
<1>3. IsList(q) BY <1>1, HeadFacts, Behead DEF MemoryInv, Rest
<1>4. c.do = "fork" OBVIOUS
<1> HIDE DEF c, q, row
<1>5. /\ Len(injections) <= Len(injections')
      /\ \A b \in 1..Len(injections) : injections'[b] = injections[b]
  BY <1>1, <1>2
<1> QED BY <1>1, <1>2, <1>3, <1>4, <1>5, GoesTo, PatientSame

LEMMA VerifyPatient ==
  ASSUME MemoryInv, MemoryInv', PatientParts, NEW t \in Threads, Verify(t)
  PROVE  PatientParts'
<1> DEFINE i == index[Head(work[t]).r]
           c == Push({<<"receipt_verified", i>>})
           q == Rest(t)
<1>1. work[t] # <<>> /\ UNCHANGED <<index, injections>>
      /\ IF i # 0
         THEN receipts' = [receipts EXCEPT ![i] = VerifiedReceipt(@)] /\ Goes(t, <<c>> \o q)
         ELSE Goes(t, <<>>) /\ UNCHANGED receipts
  BY DEF Verify, Does
<1>2. /\ injections \in Seq(BundleSet) /\ Len(injections) \in Nat
      /\ receipts \in Seq(ReceiptSet) /\ Len(receipts) \in Nat
      /\ \A k \in 1..Len(receipts) : receipts[k] \in ReceiptSet
  BY DEF MemoryInv, BooksInv, MemoryTypes
<1>3. IsList(q) BY <1>1, HeadFacts, Behead DEF MemoryInv, Rest
<1>4. c.do = "push" BY DEF Push
<1>5. Follows(t) /\ \A u \in Threads : u # t => work'[u] = work[u]
 <2> HIDE DEF c, q, i
 <2>1. CASE i # 0 BY <1>1, <1>3, <1>4, <2>1, GoesTo
 <2>2. CASE i = 0 BY <1>1, <2>2, GoesOff
 <2> QED BY <2>1, <2>2
<1>6. \A row \in ReceiptSet : VerifiedReceipt(row).of = row.of /\ VerifiedReceipt(row).turn = row.turn
                               /\ VerifiedReceipt(row).status = "verified"
  BY DEF VerifiedReceipt, ReceiptSet
<1> HIDE DEF i, c, q
<1>7. Len(receipts') = Len(receipts)
      /\ \A k \in 1..Len(receipts) :
           receipts'[k] = receipts[k] \/ receipts'[k] = VerifiedReceipt(receipts[k])
 <2>1. CASE i # 0 BY <1>1, <2>1, <1>2 DEF MemoryInv, BooksInv, MemoryTypes
 <2>2. CASE i = 0 BY <1>1, <2>2
 <2> QED BY <2>1, <2>2
<1>8. \A k \in 1..Len(receipts) :
        /\ receipts'[k].of = receipts[k].of /\ receipts'[k].turn = receipts[k].turn
        /\ receipts'[k].status = "injected" => receipts[k].status = "injected"
  BY <1>2, <1>6, <1>7
<1> QED BY <1>1, <1>2, <1>5, <1>7, <1>8, PatientSame

LEMMA InjectPatient ==
  ASSUME MemoryInv, MemoryInv', PatientParts, NEW t \in Threads, Inject(t)
  PROVE  PatientParts'
<1> DEFINE call == Head(work[t])
           i == call.receipt
<1>1. work[t] # <<>> /\ Head(work[t]).do = "inject" /\ Goes(t, Rest(t))
      /\ receipts' = [receipts EXCEPT ![i].status = "injected"]
      /\ index' = [index EXCEPT ![call.r] = i] /\ UNCHANGED injections
  BY DEF Inject, Does
<1>2. /\ Len(injections) \in Nat /\ receipts \in Seq(ReceiptSet) /\ Len(receipts) \in Nat
      /\ \A k \in 1..Len(receipts) : receipts[k] \in ReceiptSet
  BY DEF MemoryInv, BooksInv, MemoryTypes
<1>3. call = work[t][1] /\ Fits(work[t][1]) /\ 1 \in 1..Len(work[t]) BY <1>1, HeadFacts DEF MemoryInv
<1>4. call.r \in Reflections /\ i \in 1..Len(receipts) /\ receipts[i].of = call.r
  BY <1>1, <1>3, HeadNamed DEF Fits, FitsIn
<1>5. index' = index BY <1>1, <1>4, FiledAgain DEF PatientParts
<1>6. BundledFor(i) BY <1>1, <1>3 DEF PatientParts, InjectsBundled
<1> HIDE DEF i, call
<1>7. /\ Len(receipts') = Len(receipts)
      /\ \A k \in 1..Len(receipts) :
           k # i => receipts'[k] = receipts[k]
      /\ receipts'[i].of = receipts[i].of /\ receipts'[i].turn = receipts[i].turn
 <2>1. receipts[i] \in ReceiptSet BY <1>2, <1>4
 <2>2. receipts' = [receipts EXCEPT ![i] = [receipts[i] EXCEPT !.status = "injected"]] BY <1>1
 <2>3. receipts'[i] = [receipts[i] EXCEPT !.status = "injected"] BY <1>2, <1>4, <2>2
 <2>4. receipts'[i].of = receipts[i].of /\ receipts'[i].turn = receipts[i].turn BY <2>1, <2>3 DEF ReceiptSet
 <2>5. Len(receipts') = Len(receipts) BY <1>2, <1>4, <2>2
 <2> QED BY <1>2, <2>2, <2>4, <2>5
<1>8. \A k \in 1..Len(receipts) :
        /\ receipts'[k].of = receipts[k].of /\ receipts'[k].turn = receipts[k].turn
        /\ receipts'[k].status = "injected" => receipts[k].status = "injected" \/ BundledFor(k)
  BY <1>6, <1>7
<1> QED BY <1>1, <1>2, <1>5, <1>7, <1>8, GoesOn, PatientSame

----
LEMMA SaveAnchorPatient ==
  ASSUME MemoryInv, MemoryInv', PatientParts, NEW t \in Threads, work[t] # <<>>,
         NEW r \in Reflections, index[r] = 0, NEW tx, SaveAnchor(t, r, tx),
         injections' = injections
  PROVE  PatientParts'
<1> DEFINE m == Len(receipts)
           row == [of |-> r, tx |-> tx, status |-> AnchorStatus(tx),
                   verified |-> FALSE, turn |-> None]
           c == Push({<<"receipt_" \o AnchorStatus(tx), m + 1>>})
           q == Rest(t)
<1>1. /\ receipts' = Append(receipts, row) /\ index' = [index EXCEPT ![r] = m + 1]
      /\ Goes(t, <<c>> \o q)
  BY DEF SaveAnchor
<1>2. /\ receipts \in Seq(ReceiptSet) /\ m \in Nat /\ Len(injections) \in Nat
      /\ index \in [Reflections -> 0..m]
      /\ \A i \in 1..m : receipts[i].of \in Reflections
 <2>1. /\ receipts \in Seq(ReceiptSet) /\ m \in Nat /\ Len(injections) \in Nat
       /\ index \in [Reflections -> 0..m]
   BY DEF MemoryInv, BooksInv, MemoryTypes
 <2>2. \A i \in 1..m : receipts[i] \in ReceiptSet BY <2>1
 <2> QED BY <2>1, <2>2 DEF ReceiptSet
<1>3. IsList(q) BY HeadFacts, Behead DEF MemoryInv, Rest
<1>4. c.do = "push" BY DEF Push
<1>5. row.of = r /\ row.status # "injected" BY DEF AnchorStatus
<1> HIDE DEF c, q, row, m
<1>6. Follows(t) /\ \A u \in Threads : u # t => work'[u] = work[u] BY <1>1, <1>3, <1>4, GoesTo
<1>7. Alone /\ IndexedAll /\ ChainsFresh /\ InjectsBundled /\ InjectedBundled BY DEF PatientParts
<1>8. Alone' /\ ChainsFresh' BY <1>6, <1>7, AloneStays, ChainsStay
<1>9. /\ Len(receipts') = m + 1 /\ receipts'[m + 1] = row
      /\ \A i \in 1..m : receipts'[i] = receipts[i]
  BY <1>1, <1>2 DEF m
<1>10. IndexedAll'
 <2>1. \A i \in 1..m : index[receipts[i].of] = i BY <1>7 DEF IndexedAll, m
 <2>2. ASSUME NEW i \in 1..(m + 1) PROVE index'[receipts'[i].of] = i
  <3>1. CASE i = m + 1 BY <1>1, <1>2, <1>5, <1>9, <3>1
  <3>2. CASE i \in 1..m BY <1>2, <2>1, <3>2, <1>1, <1>9
  <3> QED BY <1>2, <3>1, <3>2
 <2> QED BY <1>9, <2>2 DEF IndexedAll
<1>11. \A i \in 1..m : BundledFor(i) => BundledIn(i, receipts', injections') BY <1>2, <1>9, BundledStays
<1>12. InjectedBundled'
 <2>1. \A i \in 1..(m + 1) : receipts'[i].status = "injected" => i \in 1..m BY <1>2, <1>5, <1>9
 <2>2. \A i \in 1..(m + 1) :
          receipts'[i].status = "injected" => BundledIn(i, receipts', injections')
   BY <1>7, <1>9, <1>11, <2>1 DEF InjectedBundled, m
 <2> QED BY <1>9, <2>2 DEF InjectedBundled, BundledFor
<1>13. InjectsBundled'
 <2>1. ASSUME NEW u \in Threads, NEW i \in 1..Len(work'[u]), work'[u][i].do = "inject"
       PROVE  BundledIn(work'[u][i].receipt, receipts', injections')
  <3>1. PICK j \in 1..Len(work[u]) : work[u][j] = work'[u][i] BY <1>6, <2>1, MarksStay
  <3>2. Fits(work[u][j]) /\ BundledFor(work[u][j].receipt)
    BY <1>7, <2>1, <3>1 DEF MemoryInv, WorkInv, CallsFit, InjectsBundled
  <3>3. work[u][j].receipt \in 1..m BY <2>1, <3>1, <3>2 DEF Fits, FitsIn, m
  <3> QED BY <1>11, <3>1, <3>2, <3>3
 <2> QED BY <2>1 DEF InjectsBundled, BundledFor
<1> QED BY <1>8, <1>10, <1>12, <1>13 DEF PatientParts

LEMMA AnchoredPatient ==
  ASSUME MemoryInv, MemoryInv', PatientParts, NEW t \in Threads, Anchored(t)
  PROVE  PatientParts'
<1> DEFINE r == Head(work[t]).r
           c == Call("chain", r)
           q == Rest(t)
<1>1. /\ work[t] # <<>> /\ Head(work[t]).do = "anchor" /\ injections' = injections
      /\ \/ Goes(t, q) /\ UNCHANGED <<receipts, index>>
         \/ index[r] = 0 /\ Goes(t, <<c>> \o q) /\ UNCHANGED <<receipts, index>>
         \/ index[r] = 0 /\ SaveAnchor(t, r, "simulated")
  BY DEF Anchored, Does, HasReceipt
<1>2. Len(injections) \in Nat BY DEF MemoryInv, BooksInv, MemoryTypes
<1>3. IsList(q) /\ Head(work[t]) = work[t][1] BY <1>1, HeadFacts, Behead DEF MemoryInv, Rest
<1>4. r \in Reflections BY <1>1, <1>3, HeadNamed
<1>5. c.do = "chain" /\ c.r = r BY DEF Call
<1> HIDE DEF c, r
<1>6. CASE Goes(t, q) /\ UNCHANGED <<receipts, index>> BY <1>1, <1>2, <1>6, GoesOn, PatientSame
<1> HIDE DEF q
<1>7. CASE index[r] = 0 /\ Goes(t, <<c>> \o q) /\ UNCHANGED <<receipts, index>>
  BY <1>1, <1>2, <1>3, <1>5, <1>7, GoesTo, PatientSame
<1>8. CASE index[r] = 0 /\ SaveAnchor(t, r, "simulated") BY <1>1, <1>4, <1>8, SaveAnchorPatient
<1> QED BY <1>1, <1>6, <1>7, <1>8

LEMMA AnchorAnsweredPatient ==
  ASSUME MemoryInv, MemoryInv', PatientParts, NEW t \in Threads, NEW tx, AnchorAnswered(t, tx)
  PROVE  PatientParts'
<1>1. /\ work[t] # <<>> /\ Head(work[t]).do = "chain" /\ injections' = injections
      /\ SaveAnchor(t, Head(work[t]).r, tx)
  BY DEF AnchorAnswered, Does
<1>2. Head(work[t]) = work[t][1] /\ 1 \in 1..Len(work[t]) BY <1>1, HeadFacts DEF MemoryInv
<1>3. work[t][1].r \in Reflections /\ index[work[t][1].r] = 0 BY <1>1, <1>2, HeadNamed DEF PatientParts, ChainsFresh
<1> QED BY <1>1, <1>2, <1>3, SaveAnchorPatient

\* Receipts that are linked, to the turn of the link.
LEMMA LinkedPatient ==
  ASSUME MemoryInv, MemoryInv', PatientParts, NEW rs, rs \subseteq Reflections,
         NEW turn \in Turns, LinkTo(rs, turn), index' = index, injections' = injections
  PROVE  /\ IndexedAll' /\ InjectedBundled'
         /\ \A r \in rs : index[r] # 0 => receipts'[index[r]].turn = turn
<1> DEFINE f == [i \in 1..Len(receipts) |->
                   IF \E r \in rs : index[r] = i
                   THEN [receipts[i] EXCEPT !.turn = turn, !.status = "linked"]
                   ELSE receipts[i]]
<1>1. /\ receipts \in Seq(ReceiptSet) /\ Len(receipts) \in Nat /\ Len(injections) \in Nat
      /\ DOMAIN receipts = 1..Len(receipts)
      /\ \A i \in 1..Len(receipts) : receipts[i] \in ReceiptSet
      /\ index \in [Reflections -> 0..Len(receipts)]
  BY DEF MemoryInv, BooksInv, MemoryTypes
<1>2. receipts' = f BY <1>1 DEF LinkTo
<1>3. Len(receipts') = Len(receipts)
 <2>1. receipts' \in Seq(ReceiptSet) /\ DOMAIN receipts' = 1..Len(receipts)
   BY <1>2 DEF MemoryInv, BooksInv, MemoryTypes
 <2> QED BY <1>1, <2>1
<1>4. ASSUME NEW i \in 1..Len(receipts)
      PROVE  /\ \/ receipts'[i] = receipts[i]
                \/ receipts'[i].status = "linked"
             /\ receipts'[i].of = receipts[i].of BY <1>1, <1>2 DEF ReceiptSet
<1>5. ASSUME NEW r \in rs, index[r] # 0
      PROVE  receipts'[index[r]].turn = turn
 <2>1. index[r] \in 1..Len(receipts) BY <1>1, <1>5
 <2>2. receipts'[index[r]] = [receipts[index[r]] EXCEPT !.turn = turn, !.status = "linked"] BY <1>2, <2>1
 <2>3. receipts[index[r]] \in ReceiptSet BY <1>1, <2>1
 <2> QED BY <2>2, <2>3 DEF ReceiptSet
<1> HIDE DEF f
<1>6. IndexedAll' BY <1>3, <1>4 DEF PatientParts, IndexedAll
<1>7. InjectedBundled'
 <2>1. ASSUME NEW i \in 1..Len(receipts), receipts'[i].status = "injected"
       PROVE  BundledIn(i, receipts', injections')
   BY <1>4, <2>1, <1>1, BundledStays DEF PatientParts, InjectedBundled
 <2> QED BY <1>3, <2>1 DEF InjectedBundled, BundledFor
<1> QED BY <1>5, <1>6, <1>7

LEMMA LinkPatient ==
  ASSUME MemoryInv, MemoryInv', PatientParts, NEW t \in Threads, Link(t)
  PROVE  PatientParts'
<1> DEFINE r == Head(work[t]).r
           turn == Head(work[t]).turn
           c == SaveCall(r, index[r], {<<"receipt_linked", index[r], turn>>})
           q == Rest(t)
<1>1. /\ work[t] # <<>> /\ Head(work[t]).do = "link" /\ UNCHANGED <<index, injections>>
      /\ \/ LinkTo({r}, turn) /\ Goes(t, <<c>> \o q)
         \/ Goes(t, <<>>) /\ UNCHANGED receipts
  BY DEF Link, Does, LinkSaves
<1>2. Len(injections) \in Nat BY DEF MemoryInv, BooksInv, MemoryTypes
<1>3. IsList(q) /\ Head(work[t]) = work[t][1] /\ Fits(work[t][1]) BY <1>1, HeadFacts, Behead DEF MemoryInv, Rest
<1>4. r \in Reflections /\ {r} \subseteq Reflections BY <1>1, <1>3, HeadNamed
<1>5. turn \in Turns BY <1>1, <1>3 DEF Fits, FitsIn, Plain, PlainNames, PlainCalls
<1>6. t[2] = 0 BY <1>1, <1>3, PlainHead DEF Plain, PlainNames
<1>7. c.do = "save" BY DEF SaveCall
<1> HIDE DEF r, turn, c, q
<1>8. CASE Goes(t, <<>>) /\ UNCHANGED receipts BY <1>1, <1>2, <1>8, GoesOff, PatientSame
<1>9. CASE LinkTo({r}, turn) /\ Goes(t, <<c>> \o q)
 <2>1. Follows(t) /\ \A u \in Threads : u # t => work'[u] = work[u] BY <1>1, <1>3, <1>7, <1>9, GoesTo
 <2>2. IndexedAll' /\ InjectedBundled' BY <1>1, <1>4, <1>5, <1>9, LinkedPatient
 <2>3. Alone' /\ ChainsFresh' BY <1>1, <2>1, AloneStays, ChainsStay DEF PatientParts
 <2>4. ASSUME NEW u \in Threads, NEW i \in 1..Len(work'[u]), work'[u][i].do = "inject"
       PROVE  FALSE
  <3>1. u = t BY <1>1, <1>6, <2>1, <2>4, OthersIdle DEF PatientParts
  <3>2. PICK j \in 1..Len(work[t]) : work[t][j] = work'[t][i] BY <1>1, <2>1, <2>4, <3>1, MarksStay
  <3>3. InjectsFirst(work[t]) /\ IsList(work[t]) BY DEF MemoryInv, WorkInv, WorkTypes, CallsOrdered, Ordered
  <3>4. Len(work[t]) \in Nat BY <3>3, ListLength
  <3> QED BY <1>1, <1>3, <2>4, <3>1, <3>2, <3>3, <3>4 DEF InjectsFirst
 <2>5. InjectsBundled' BY <2>4 DEF InjectsBundled
 <2> QED BY <2>2, <2>3, <2>5 DEF PatientParts
<1> QED BY <1>1, <1>8, <1>9

----
\* What a request does once its bundle is kept.
LEMMA ForkElements ==
  ASSUME MemoryInv, NEW t \in Threads, Fork(t)
  PROVE  /\ \A i \in 1..Len(work'[t]) :
              \/ \E n \in 1..Len(ForkItems(t)) : work'[t][i] = ForkMarks(t)[n]
              \/ work'[t][i] = ForkPush(t)
              \/ \E j \in 1..Len(Tail(work[t])) : work'[t][i] = Tail(work[t])[j]
         /\ \E i \in 1..Len(work'[t]) : work'[t][i] = ForkPush(t)
         /\ \A j \in 1..Len(Tail(work[t])) :
              \E i \in 1..Len(work'[t]) : work'[t][i] = Tail(work[t])[j]
<1> DEFINE marks == ForkMarks(t)
           items == ForkItems(t)
           c == ForkPush(t)
           q == Tail(work[t])
           p == <<c>> \o q
           w == work'[t]
<1>1. /\ work[t] # <<>> /\ IsList(marks) /\ Len(marks) = Len(items)
      /\ w = marks \o p
  BY ForkFacts
<1>2. IsList(q) BY <1>1, HeadFacts, Behead DEF MemoryInv
<1> HIDE DEF q, c, marks, items
<1>3. /\ IsList(p) /\ Len(p) = Len(q) + 1 /\ p[1] = c
      /\ \A i \in 1..Len(q) : p[i + 1] = q[i]
      /\ \A i \in 1..Len(p) : i # 1 => i - 1 \in 1..Len(q) /\ p[i] = q[i - 1]
  BY <1>2, Prefixed
<1> HIDE DEF p
<1>4. /\ Len(w) = Len(marks) + Len(p)
      /\ \A i \in 1..Len(marks) : w[i] = marks[i]
      /\ \A i \in 1..Len(p) : w[Len(marks) + i] = p[i]
 <2>1. /\ Len(marks \o p) = Len(marks) + Len(p)
       /\ \A i \in 1..Len(marks) : (marks \o p)[i] = marks[i]
       /\ \A i \in 1..Len(p) : (marks \o p)[Len(marks) + i] = p[i]
  <3>1. IsList(marks) /\ IsList(p) BY <1>1, <1>3
  <3> QED BY <3>1, Joined
 <2> QED BY <1>1, <2>1
<1>5. Len(marks) \in Nat /\ Len(p) \in Nat /\ Len(q) \in Nat BY <1>1, <1>2, <1>3, ListLength
<1> HIDE DEF w
<1>6. ASSUME NEW i \in 1..Len(w)
      PROVE  \/ \E n \in 1..Len(items) : w[i] = marks[n]
             \/ w[i] = c
             \/ \E j \in 1..Len(q) : w[i] = q[j]
 <2>1. CASE i <= Len(marks) BY <1>1, <1>4, <1>5, <2>1
 <2>2. CASE i > Len(marks)
  <3> DEFINE k == i - Len(marks)
  <3>1. k \in 1..Len(p) /\ Len(marks) + k = i BY <1>4, <1>5, <2>2
  <3> HIDE DEF k
  <3>2. w[i] = p[k] BY <1>4, <3>1
  <3> QED BY <1>3, <3>1, <3>2
 <2> QED BY <1>4, <1>5, <2>1, <2>2
<1>7. ASSUME NEW k \in 1..Len(p) PROVE \E i \in 1..Len(w) : w[i] = p[k] BY <1>4, <1>5
<1>8. \E i \in 1..Len(w) : w[i] = c BY <1>3, <1>5, <1>7
<1>9. ASSUME NEW j \in 1..Len(q) PROVE \E i \in 1..Len(w) : w[i] = q[j]
 <2>1. j + 1 \in 1..Len(p) /\ p[j + 1] = q[j] BY <1>3, <1>5
 <2> QED BY <1>7, <2>1
<1> QED BY <1>6, <1>8, <1>9 DEF w, c, q, marks, items

LEMMA ForkPatient ==
  ASSUME MemoryInv, MemoryInv', PatientParts, NEW t \in Threads, Fork(t)
  PROVE  PatientParts'
<1> DEFINE marks == ForkMarks(t)
           items == ForkItems(t)
           b == ForkBundle(t)
           rs == ForkOf(t)
           turn == ForkTurn(t)
           c == ForkPush(t)
           q == Tail(work[t])
<1>1. /\ work[t] # <<>> /\ work[t][1].do = "fork" /\ t[2] = 0 /\ b \in 1..Len(injections)
      /\ rs \subseteq Reflections /\ turn \in Turns /\ LinkTo(rs, turn)
      /\ \A r \in rs : index[r] # 0
      /\ Len(marks) = Len(items)
      /\ \A n \in 1..Len(marks) :
              /\ marks[n].do = "inject" /\ marks[n].r = items[n].r
              /\ marks[n].receipt = items[n].receipt
              /\ items[n].r \in rs
      /\ \A u \in Threads : u # t /\ u[1] = t[1] /\ u[2] \in rs => work'[u] = <<ForkSave(t, u[2])>>
      /\ \A u \in Threads : u # t /\ ~(u[1] = t[1] /\ u[2] \in rs) => work'[u] = work[u]
  BY ForkFacts
<1>2. index' = index /\ injections' = injections BY DEF Fork
<1>3. IndexedAll' /\ InjectedBundled' /\ \A r \in rs : receipts'[index[r]].turn = turn BY <1>1, <1>2, LinkedPatient
<1>4. Alone /\ IndexedAll BY DEF PatientParts
<1>5. Alone' BY <1>1, <1>4, AloneStays
<1>6. \A i \in 1..Len(work'[t]) :
         \/ \E n \in 1..Len(items) : work'[t][i] = marks[n]
         \/ work'[t][i] = c
         \/ \E j \in 1..Len(q) : work'[t][i] = q[j]
  BY ForkElements
<1>7. \A j \in 1..Len(q) : q[j].do # "chain" /\ q[j].do # "inject" BY <1>1, HeadFacts, RestOrdered DEF MemoryInv
<1>8. c.do = "push" BY DEF ForkPush, Push
<1>9. ASSUME NEW u \in Threads, NEW i \in 1..Len(work'[u]),
             u # t, u[1] = t[1], u[2] \in rs
      PROVE  work'[u][i].do = "save"
 <2> DEFINE e == ForkSave(t, u[2])
 <2>1. e.do = "save" BY DEF ForkSave, SaveCall
 <2>2. work'[u] = <<e>> BY <1>1, <1>9
 <2> HIDE DEF e
 <2>3. Len(<<e>>) = 1 /\ <<e>>[1] = e BY OneList
 <2>4. i \in 1..1 /\ work'[u][1] = e BY <2>2, <2>3
 <2> QED BY <2>1, <2>4
<1>10. /\ injections[b].turn = turn /\ injections[b].items = items
       /\ \A n \in 1..Len(items) :
            /\ items[n].receipt \in 1..Len(receipts)
            /\ receipts[items[n].receipt].of = items[n].r
  BY <1>1 DEF MemoryInv, BooksInv, BundlesFit, ForkItems, ForkTurn
<1> HIDE DEF marks, items, b, rs, turn, c, q
<1>11. ASSUME NEW u \in Threads, NEW i \in 1..Len(work'[u]), u # t
       PROVE  work'[u][i].do # "chain" /\ work'[u][i].do # "inject"
  BY <1>1, <1>9, <1>11, <1>4, OthersIdle
<1>12. ChainsFresh'
 <2>1. \A i \in 1..Len(work'[t]) : work'[t][i].do # "chain" BY <1>1, <1>6, <1>7, <1>8
 <2> QED BY <1>11, <2>1 DEF ChainsFresh
<1>13. ASSUME NEW n \in 1..Len(items)
       PROVE  BundledIn(items[n].receipt, receipts', injections)
 <2>1. index[items[n].r] = items[n].receipt BY <1>4, <1>10 DEF IndexedAll
 <2>2. receipts'[items[n].receipt].turn = turn BY <1>1, <1>3, <2>1
 <2> QED BY <1>1, <1>10, <2>2 DEF BundledIn
<1>14. InjectsBundled'
 <2>1. ASSUME NEW u \in Threads, NEW i \in 1..Len(work'[u]), work'[u][i].do = "inject"
       PROVE  BundledIn(work'[u][i].receipt, receipts', injections')
  <3>1. u = t BY <1>11, <2>1
  <3>2. PICK n \in 1..Len(items) : work'[t][i] = marks[n] BY <1>6, <1>7, <1>8, <2>1, <3>1
  <3>3. work'[u][i].receipt = items[n].receipt BY <1>1, <3>1, <3>2
  <3> QED BY <1>2, <1>13, <3>3
 <2> QED BY <2>1 DEF InjectsBundled, BundledFor
<1> QED BY <1>3, <1>5, <1>12, <1>14 DEF PatientParts

LEMMA RequestPatient ==
  ASSUME MemoryInv, MemoryInv', PatientParts, patient,
         NEW c \in Callers, NEW calls \in Routes, Request(c, calls)
  PROVE  PatientParts'
<1> DEFINE t == <<c, 0>>
<1>1. /\ \A u \in Threads : work[u] = <<>>
      /\ Goes(t, calls) /\ UNCHANGED <<receipts, index, injections>>
  BY DEF Request
<1>2. t \in Threads BY BoundsAssumption DEF Threads
<1> HIDE DEF t
<1>3. work'[t] = calls /\ \A u \in Threads : u # t => work'[u] = <<>> BY <1>1, <1>2, GoesWhere DEF MemoryInv, WorkInv
<1>4. \A i \in 1..Len(calls) : calls[i].do # "chain" /\ calls[i].do # "inject"
  BY RoutesFit DEF MemoryInv, Plain, PlainNames
<1>5. ASSUME NEW u \in Threads, NEW i \in 1..Len(work'[u])
      PROVE  work'[u][i].do # "chain" /\ work'[u][i].do # "inject" BY <1>3, NoList, <1>4
<1>6. Alone' BY <1>3 DEF Alone
<1>7. ChainsFresh' /\ InjectsBundled' BY <1>5 DEF ChainsFresh, InjectsBundled
<1>8. IndexedAll' BY <1>1 DEF PatientParts, IndexedAll
<1>9. InjectedBundled' BY <1>1 DEF PatientParts, InjectedBundled, BundledFor, BundledIn
<1> QED BY <1>6, <1>7, <1>8, <1>9 DEF PatientParts

LEMMA StepPatient ==
  ASSUME MemoryInv, MemoryInv', PatientInv, [Next]_vars
  PROVE  PatientInv'
<1>1. patient' = patient
  BY DEF Next, vars, Request, Created, Anchored, AnchorAnswered, Link, Saved, Verify, Build,
     Fork, Inject, Pushed, Rejects
<1> SUFFICES ASSUME patient PROVE PatientParts' BY <1>1 DEF PatientInv, PatientParts
<1>2. PatientParts BY DEF PatientInv, PatientParts
<1>3. CASE \E c \in Callers : \E calls \in Routes : Request(c, calls) BY <1>2, <1>3, RequestPatient
<1>4. ASSUME NEW t \in Threads,
             \/ \E a \in Advices, p \in Priorities : Created(t, a, p)
             \/ \E tx \in {"signed", None} : AnchorAnswered(t, tx)
      PROVE  PatientParts'
  BY <1>2, <1>4, CreatedPatient, AnchorAnsweredPatient
<1>5. ASSUME NEW t \in Threads,
             Anchored(t) \/ Link(t) \/ Saved(t) \/ Verify(t) \/ (\E w : Build(t, w)) \/ Fork(t)
               \/ Inject(t) \/ Pushed(t) \/ Rejects(t)
      PROVE  PatientParts'
  BY <1>2, <1>5, AnchoredPatient, LinkPatient, SavedPatient, VerifyPatient, BuildPatient,
     ForkPatient, InjectPatient, PushedPatient, RejectsPatient, Zenon
<1>6. CASE UNCHANGED vars
 <2>1. /\ work' = work /\ receipts' = receipts /\ index' = index /\ injections' = injections BY <1>6 DEF vars
 <2> QED
   BY <1>2, <2>1 DEF PatientParts, Alone, IndexedAll, ChainsFresh, InjectsBundled,
      InjectedBundled, BundledFor, BundledIn
<1> QED BY <1>3, <1>4, <1>5, <1>6 DEF Next

\* The timeline. As long as no write has failed, whatever has happened is
\* in it or will be pushed by a thread that is at work.
\* What the timeline tells.
KeepsCalls(t) ==
  \/ work[t] = <<>>
  \/ Plain(work[t][1])
  \/ /\ \A j \in 1..Len(Tail(work[t])) :
          \E i \in 1..Len(work'[t]) : work'[t][i] = Tail(work[t])[j]
     /\ Carries(work[t][1]) =>
          \A e \in work[t][1].events :
             \/ e \in events'
             \/ \E i \in 1..Len(work'[t]) : Carries(work'[t][i]) /\ e \in work'[t][i].events

LEMMA PlainAll ==
  ASSUME MemoryInv, NEW t \in Threads, NEW i \in 1..Len(work[t]), Plain(work[t][1])
  PROVE  Plain(work[t][i])
<1>1. IsList(work[t]) /\ PlainLast(work[t]) BY DEF MemoryInv, WorkInv, WorkTypes, CallsOrdered, Ordered
<1>2. Len(work[t]) \in Nat BY <1>1, ListLength
<1> QED BY <1>1, <1>2 DEF PlainLast

LEMMA HeadOrTail ==
  ASSUME MemoryInv, NEW t \in Threads, NEW i \in 1..Len(work[t])
  PROVE  \/ i = 1
         \/ \E j \in 1..Len(Tail(work[t])) : Tail(work[t])[j] = work[t][i]
<1>1. IsList(work[t]) BY DEF MemoryInv, WorkInv, WorkTypes
<1>2. work[t] # <<>> BY NoList
<1>3. /\ Len(work[t]) \in Nat \ {0} /\ Len(Tail(work[t])) = Len(work[t]) - 1
      /\ \A j \in 1..(Len(work[t]) - 1) : Tail(work[t])[j] = work[t][j + 1]
  BY <1>1, <1>2, Behead
<1>4. CASE i # 1
 <2>1. i - 1 \in 1..(Len(work[t]) - 1) /\ (i - 1) + 1 = i BY <1>3, <1>4
 <2> QED BY <1>3, <2>1
<1> QED BY <1>4

LEMMA TellsOn ==
  ASSUME MemoryInv, NEW t \in Threads, KeepsCalls(t), events \subseteq events',
         \A u \in Threads : u # t => work'[u] = work[u] \/ work[u] = <<>>,
         NEW e, ToldIn(e, events, work)
  PROVE  ToldIn(e, events', work')
<1>1. CASE e \in events BY <1>1 DEF ToldIn
<1>2. CASE CarriedIn(e, work)
 <2>1. PICK u \in Threads : \E i \in 1..Len(work[u]) : Carries(work[u][i]) /\ e \in work[u][i].events
   BY <1>2 DEF CarriedIn
 <2>2. PICK i \in 1..Len(work[u]) : Carries(work[u][i]) /\ e \in work[u][i].events BY <2>1
 <2>3. work[u] # <<>> BY NoList
 <2>4. CASE u # t BY <2>3, <2>4, <2>2 DEF ToldIn, CarriedIn
 <2>5. CASE u = t
  <3>1. ~Plain(work[t][1]) BY <2>2, <2>5, PlainAll DEF Plain, PlainNames, Carries
  <3>2. CASE i = 1
   <4>1. e \in events' \/ \E k \in 1..Len(work'[t]) : Carries(work'[t][k]) /\ e \in work'[t][k].events
     BY <2>2, <2>3, <2>5, <3>1, <3>2 DEF KeepsCalls
   <4> QED BY <4>1 DEF ToldIn, CarriedIn
  <3>3. CASE i # 1
   <4>1. PICK j \in 1..Len(Tail(work[t])) : Tail(work[t])[j] = work[t][i] BY <2>5, <3>3, HeadOrTail
   <4>2. PICK k \in 1..Len(work'[t]) : work'[t][k] = work[t][i] BY <2>3, <2>5, <3>1, <4>1 DEF KeepsCalls
   <4> QED BY <2>2, <2>5, <4>2 DEF ToldIn, CarriedIn
  <3> QED BY <3>2, <3>3
 <2> QED BY <2>4, <2>5
<1> QED BY <1>1, <1>2 DEF ToldIn

LEMMA ForksOn ==
  ASSUME MemoryInv, NEW t \in Threads, KeepsCalls(t),
         \A u \in Threads : u # t => work'[u] = work[u] \/ work[u] = <<>>,
         NEW b, ForkingIn(b, work)
  PROVE  \/ ForkingIn(b, work')
         \/ work[t] # <<>> /\ work[t][1].do = "fork" /\ work[t][1].bundle = b
<1>1. PICK u \in Threads : \E i \in 1..Len(work[u]) : work[u][i].do = "fork" /\ work[u][i].bundle = b BY DEF ForkingIn
<1>2. PICK i \in 1..Len(work[u]) : work[u][i].do = "fork" /\ work[u][i].bundle = b BY <1>1
<1>3. work[u] # <<>> BY NoList
<1>4. CASE u # t BY <1>3, <1>4, <1>2 DEF ForkingIn
<1>5. CASE u = t
 <2>1. ~Plain(work[t][1]) BY <1>2, <1>5, PlainAll DEF Plain, PlainNames
 <2>2. CASE i = 1 BY <1>2, <1>3, <1>5, <2>2
 <2>3. CASE i # 1
  <3>1. PICK j \in 1..Len(Tail(work[t])) : Tail(work[t])[j] = work[t][i] BY <1>5, <2>3, HeadOrTail
  <3>2. PICK k \in 1..Len(work'[t]) : work'[t][k] = work[t][i] BY <1>3, <1>5, <2>1, <3>1 DEF KeepsCalls
  <3> QED BY <1>2, <1>5, <3>2 DEF ForkingIn
 <2> QED BY <2>2, <2>3
<1> QED BY <1>4, <1>5

\* What is new is told of.
LEMMA TellGrows ==
  ASSUME TellParts,
         \A e : ToldIn(e, events, work) => ToldIn(e, events', work'),
         \A b : ForkingIn(b, work) =>
            ForkingIn(b, work') \/ ToldIn(<<"injection_built", b>>, events', work'),
         \A i \in 1..Len(receipts') : i \in 1..Len(receipts) \/
            \E st \in {"anchored", "degraded"} : ToldIn(<<"receipt_" \o st, i>>, events', work'),
         \A i \in 1..Len(receipts') : receipts'[i].verified =>
            \/ i \in 1..Len(receipts) /\ receipts[i].verified
            \/ ToldIn(<<"receipt_verified", i>>, events', work'),
         \A l \in links' : l \in links
            \/ ToldIn(<<"receipt_linked", l[1], l[2]>>, events', work'),
         \A b \in 1..Len(injections') : b \in 1..Len(injections) \/ ForkingIn(b, work')
  PROVE  TellParts'
<1>1. ASSUME NEW i \in 1..Len(receipts')
      PROVE  \E st \in {"anchored", "degraded"} : ToldIn(<<"receipt_" \o st, i>>, events', work')
 <2>1. CASE i \in 1..Len(receipts)
  <3>1. PICK st \in {"anchored", "degraded"} : ToldIn(<<"receipt_" \o st, i>>, events, work)
    BY <2>1 DEF TellParts, Told
  <3>2. ToldIn(<<"receipt_" \o st, i>>, events', work') BY <3>1
  <3> QED BY <3>2
 <2> QED BY <2>1
<1>2. ASSUME NEW i \in 1..Len(receipts'), receipts'[i].verified
      PROVE  ToldIn(<<"receipt_verified", i>>, events', work')
  BY <1>2 DEF TellParts, Told
<1>3. ASSUME NEW l \in links' PROVE ToldIn(<<"receipt_linked", l[1], l[2]>>, events', work') BY DEF TellParts, Told
<1>4. ASSUME NEW b \in 1..Len(injections')
      PROVE  ToldIn(<<"injection_built", b>>, events', work') \/ ForkingIn(b, work')
  BY DEF TellParts, Told, Forking
<1> QED BY <1>1, <1>2, <1>3, <1>4 DEF TellParts, Told, Forking

\* Calls that are about to be made tell.
LEMMA Telling ==
  ASSUME NEW t \in Threads, NEW i \in 1..Len(work'[t]), Carries(work'[t][i]),
         NEW e \in work'[t][i].events
  PROVE  ToldIn(e, events', work')
  BY DEF ToldIn, CarriedIn

----
LEMMA TellStep ==
  ASSUME MemoryInv, TellParts, NEW t \in Threads, KeepsCalls(t), events \subseteq events',
         \A u \in Threads : u # t => work'[u] = work[u] \/ work[u] = <<>>,
         work[t] = <<>> \/ work[t][1].do # "fork",
         \A i \in 1..Len(receipts') : i \in 1..Len(receipts) \/
            \E st \in {"anchored", "degraded"} : ToldIn(<<"receipt_" \o st, i>>, events', work'),
         \A i \in 1..Len(receipts') : receipts'[i].verified =>
            \/ i \in 1..Len(receipts) /\ receipts[i].verified
            \/ ToldIn(<<"receipt_verified", i>>, events', work'),
         \A l \in links' : l \in links
            \/ ToldIn(<<"receipt_linked", l[1], l[2]>>, events', work'),
         \A b \in 1..Len(injections') : b \in 1..Len(injections) \/ ForkingIn(b, work')
  PROVE  TellParts'
<1>1. \A e : ToldIn(e, events, work) => ToldIn(e, events', work') BY TellsOn
<1>2. \A b : ForkingIn(b, work) => ForkingIn(b, work') BY ForksOn
<1> QED BY <1>1, <1>2, TellGrows

LEMMA TellSame ==
  ASSUME MemoryInv, TellParts, NEW t \in Threads, KeepsCalls(t), events \subseteq events',
         \A u \in Threads : u # t => work'[u] = work[u] \/ work[u] = <<>>,
         work[t] = <<>> \/ work[t][1].do # "fork",
         Len(receipts') = Len(receipts),
         \A i \in 1..Len(receipts) : receipts'[i].verified = receipts[i].verified,
         links' = links, Len(injections') = Len(injections)
  PROVE  TellParts'
<1>1. /\ \A i \in 1..Len(receipts') : i \in 1..Len(receipts)
      /\ \A i \in 1..Len(receipts') : receipts'[i].verified => i \in 1..Len(receipts) /\ receipts[i].verified
      /\ \A l \in links' : l \in links
      /\ \A b \in 1..Len(injections') : b \in 1..Len(injections)
  OBVIOUS
<1> QED BY <1>1, TellStep

LEMMA CallsTo ==
  ASSUME MemoryInv, NEW t \in Threads, NEW c, NEW q, IsList(q), Goes(t, <<c>> \o q)
  PROVE  /\ 1 \in 1..Len(work'[t]) /\ work'[t][1] = c
         /\ \A j \in 1..Len(q) : \E i \in 1..Len(work'[t]) : work'[t][i] = q[j]
         /\ \A u \in Threads : u # t => work'[u] = work[u]
<1> DEFINE p == <<c>> \o q
<1>1. /\ Len(p) = Len(q) + 1 /\ p[1] = c
      /\ \A j \in 1..Len(q) : p[j + 1] = q[j]
  BY Prefixed
<1>2. Len(q) \in Nat BY ListLength
<1> HIDE DEF p
<1>3. work'[t] = p /\ \A u \in Threads : u # t => work'[u] = work[u] BY GoesWhere DEF MemoryInv, WorkInv, p
<1>4. \A j \in 1..Len(q) : j + 1 \in 1..Len(p) BY <1>1, <1>2
<1> QED BY <1>1, <1>2, <1>3, <1>4

LEMMA RestCalls ==
  ASSUME MemoryInv, NEW t \in Threads, Goes(t, Rest(t))
  PROVE  /\ \A j \in 1..Len(Tail(work[t])) :
              \E i \in 1..Len(work'[t]) : work'[t][i] = Tail(work[t])[j]
         /\ \A u \in Threads : u # t => work'[u] = work[u]
<1>1. work'[t] = Tail(work[t]) /\ \A u \in Threads : u # t => work'[u] = work[u]
  BY GoesWhere DEF MemoryInv, WorkInv, Rest
<1> QED BY <1>1

\* What each step tells.
LEMMA PushedTells ==
  ASSUME MemoryInv, TellParts, NEW t \in Threads, Pushed(t)
  PROVE  TellParts'
<1>1. /\ work[t] # <<>> /\ Head(work[t]).do = "push" /\ Goes(t, Rest(t))
      /\ events' = events \cup Head(work[t]).events
      /\ receipts' = receipts /\ links' = links /\ injections' = injections
  BY DEF Pushed, Does
<1>2. Head(work[t]) = work[t][1] BY <1>1, HeadFacts DEF MemoryInv
<1>3. KeepsCalls(t) BY <1>1, <1>2, RestCalls DEF KeepsCalls
<1>4. /\ \A u \in Threads : u # t => work'[u] = work[u]
      /\ events \subseteq events' /\ work[t][1].do # "fork"
  BY <1>1, <1>2, RestCalls
<1> QED BY <1>1, <1>3, <1>4, TellSame

LEMMA InjectTells ==
  ASSUME MemoryInv, TellParts, NEW t \in Threads, Inject(t)
  PROVE  TellParts'
<1> DEFINE k == Head(work[t]).receipt
<1>1. /\ work[t] # <<>> /\ Head(work[t]).do = "inject" /\ Goes(t, Rest(t))
      /\ receipts' = [receipts EXCEPT ![k].status = "injected"]
      /\ links' = links /\ injections' = injections /\ events' = events
  BY DEF Inject, Does
<1>2. Head(work[t]) = work[t][1] BY <1>1, HeadFacts DEF MemoryInv
<1>3. KeepsCalls(t) BY <1>1, <1>2, RestCalls DEF KeepsCalls, Carries
<1>4. /\ \A u \in Threads : u # t => work'[u] = work[u]
      /\ work[t][1].do # "fork"
  BY <1>1, <1>2, RestCalls
<1>5. receipts \in Seq(ReceiptSet) /\ \A i \in 1..Len(receipts) : receipts[i] \in ReceiptSet
  BY DEF MemoryInv, BooksInv, MemoryTypes
<1> HIDE DEF k
<1>6. Len(receipts') = Len(receipts)
      /\ \A i \in 1..Len(receipts) : receipts'[i].verified = receipts[i].verified
 <2>1. Len(receipts') = Len(receipts) BY <1>1, <1>5
 <2>2. ASSUME NEW i \in 1..Len(receipts) PROVE receipts'[i].verified = receipts[i].verified
   BY <1>5, <1>1 DEF ReceiptSet
 <2> QED BY <2>1, <2>2
<1>7. Len(injections') = Len(injections) /\ events \subseteq events' /\ links' = links BY <1>1
<1> QED BY <1>3, <1>4, <1>6, <1>7, TellSame

LEMMA SavedTells ==
  ASSUME MemoryInv, TellParts, NEW t \in Threads, Saved(t)
  PROVE  TellParts'
<1> DEFINE c == Push(Head(work[t]).events)
           q == Rest(t)
<1>1. /\ work[t] # <<>> /\ Head(work[t]).do = "save" /\ Goes(t, <<c>> \o q)
      /\ receipts' = receipts /\ links' = links /\ injections' = injections /\ events' = events
  BY DEF Saved, Does
<1>2. Head(work[t]) = work[t][1] /\ IsList(q) BY <1>1, HeadFacts, Behead DEF MemoryInv, Rest
<1>3. Carries(c) /\ c.events = work[t][1].events BY <1>2 DEF Push, Carries
<1>4. q = Tail(work[t]) BY DEF Rest
<1> HIDE DEF c, q
<1>5. /\ 1 \in 1..Len(work'[t]) /\ work'[t][1] = c
      /\ \A j \in 1..Len(q) : \E i \in 1..Len(work'[t]) : work'[t][i] = q[j]
      /\ \A u \in Threads : u # t => work'[u] = work[u]
  BY <1>1, <1>2, CallsTo
<1>6. KeepsCalls(t) BY <1>3, <1>4, <1>5 DEF KeepsCalls
<1> QED BY <1>1, <1>2, <1>5, <1>6, TellSame

LEMMA CreatedTells ==
  ASSUME MemoryInv, TellParts, NEW t \in Threads, NEW a \in Advices,
         NEW p \in Priorities, Created(t, a, p)
  PROVE  TellParts'
<1>1. /\ work[t] # <<>> /\ Head(work[t]).do = "create"
      /\ receipts' = receipts /\ links' = links /\ injections' = injections /\ events' = events
      /\ \E items : Goes(t, items)
  BY DEF Created, Does
<1>2. Head(work[t]) = work[t][1] BY <1>1, HeadFacts DEF MemoryInv
<1>3. KeepsCalls(t) /\ work[t][1].do # "fork" BY <1>1, <1>2 DEF KeepsCalls, Plain, PlainNames
<1>4. \A u \in Threads : u # t => work'[u] = work[u] BY <1>1, GoesWhere DEF MemoryInv, WorkInv
<1> QED BY <1>1, <1>3, <1>4, TellSame

LEMMA BuildTells ==
  ASSUME MemoryInv, TellParts, NEW t \in Threads, NEW w, Build(t, w)
  PROVE  TellParts'
<1> DEFINE c == [do |-> "fork", r |-> 0, bundle |-> Len(injections) + 1]
           q == Rest(t)
           row == [turn |-> Head(work[t]).turn, items |-> BuiltItems(w)]
<1>1. /\ work[t] # <<>> /\ Head(work[t]).do = "bundle" /\ Goes(t, <<c>> \o q)
      /\ receipts' = receipts /\ links' = links /\ events' = events
      /\ injections' = Append(injections, row)
  BY DEF Build, Does, BuiltItems
<1>2. injections \in Seq(BundleSet) /\ Len(injections) \in Nat BY DEF MemoryInv, BooksInv, MemoryTypes
<1>3. Head(work[t]) = work[t][1] /\ IsList(q) BY <1>1, HeadFacts, Behead DEF MemoryInv, Rest
<1>4. c.do = "fork" /\ c.bundle = Len(injections) + 1 OBVIOUS
<1> HIDE DEF c, q, row
<1>5. /\ 1 \in 1..Len(work'[t]) /\ work'[t][1] = c
      /\ \A u \in Threads : u # t => work'[u] = work[u]
  BY <1>1, <1>3, CallsTo
<1>6. KeepsCalls(t) /\ work[t][1].do # "fork" BY <1>1, <1>3 DEF KeepsCalls, Plain, PlainNames
<1>7. \A b \in 1..Len(injections') : b \in 1..Len(injections) \/ b = Len(injections) + 1 BY <1>1, <1>2
<1>8. ForkingIn(Len(injections) + 1, work') BY <1>4, <1>5 DEF ForkingIn
<1>9. \A b \in 1..Len(injections') : b \in 1..Len(injections) \/ ForkingIn(b, work') BY <1>7, <1>8
<1> QED BY <1>1, <1>5, <1>6, <1>9, TellStep

LEMMA RequestTells ==
  ASSUME MemoryInv, TellParts, NEW c \in Callers, NEW calls \in Routes, Request(c, calls)
  PROVE  TellParts'
<1> DEFINE t == <<c, 0>>
<1>1. /\ \A r \in 0..MaxCreated : work[<<c, r>>] = <<>>
      /\ Goes(t, calls) /\ events' = events
      /\ receipts' = receipts /\ links' = links /\ injections' = injections
  BY DEF Request
<1>2. t \in Threads /\ work[t] = <<>> BY BoundsAssumption, <1>1 DEF Threads
<1> HIDE DEF t
<1>3. KeepsCalls(t) /\ \A u \in Threads : u # t => work'[u] = work[u]
  BY <1>1, <1>2, GoesWhere DEF MemoryInv, WorkInv, KeepsCalls
<1> QED BY <1>1, <1>2, <1>3, TellSame

----
LEMMA SaveAnchorTells ==
  ASSUME MemoryInv, TellParts, NEW t \in Threads, work[t] # <<>>, Plain(work[t][1]),
         NEW r, NEW tx, SaveAnchor(t, r, tx), events' = events, links' = links,
         injections' = injections
  PROVE  TellParts'
<1> DEFINE m == Len(receipts)
           st == AnchorStatus(tx)
           row == [of |-> r, tx |-> tx, status |-> st, verified |-> FALSE, turn |-> None]
           e == <<"receipt_" \o st, m + 1>>
           c == Push({e})
           q == Rest(t)
<1>1. /\ receipts' = Append(receipts, row) /\ Goes(t, <<c>> \o q) BY DEF SaveAnchor
<1>2. receipts \in Seq(ReceiptSet) /\ m \in Nat BY DEF MemoryInv, BooksInv, MemoryTypes
<1>3. IsList(q) BY HeadFacts, Behead DEF MemoryInv, Rest
<1>4. Carries(c) /\ e \in c.events BY DEF Push, Carries
<1>5. row.verified = FALSE /\ st \in {"anchored", "degraded"} BY DEF AnchorStatus
<1> HIDE DEF c, q, row, m
<1>6. /\ 1 \in 1..Len(work'[t]) /\ work'[t][1] = c
      /\ \A u \in Threads : u # t => work'[u] = work[u]
  BY <1>1, <1>3, CallsTo
<1>7. KeepsCalls(t) /\ work[t][1].do # "fork" BY DEF KeepsCalls, Plain, PlainNames
<1>8. ToldIn(e, events', work') BY <1>4, <1>6, Telling
<1>9. /\ Len(receipts') = m + 1 /\ receipts'[m + 1] = row
      /\ \A i \in 1..m : receipts'[i] = receipts[i]
      /\ \A i \in 1..(m + 1) : i \in 1..m \/ i = m + 1
  BY <1>1, <1>2 DEF m
<1>10. \A i \in 1..Len(receipts') : i \in 1..Len(receipts) \/
          \E s \in {"anchored", "degraded"} : ToldIn(<<"receipt_" \o s, i>>, events', work')
  BY <1>5, <1>8, <1>9 DEF m
<1>11. \A i \in 1..Len(receipts') :
          receipts'[i].verified => i \in 1..Len(receipts) /\ receipts[i].verified
  BY <1>5, <1>9 DEF m
<1>12. \A b \in 1..Len(injections') : b \in 1..Len(injections) OBVIOUS
<1> QED BY <1>6, <1>7, <1>10, <1>11, <1>12, TellStep

LEMMA AnchoredTells ==
  ASSUME MemoryInv, TellParts, NEW t \in Threads, Anchored(t)
  PROVE  TellParts'
<1> DEFINE r == Head(work[t]).r
<1>1. /\ work[t] # <<>> /\ Head(work[t]).do = "anchor"
      /\ events' = events /\ links' = links /\ injections' = injections
      /\ \/ \E items : Goes(t, items) /\ receipts' = receipts
         \/ SaveAnchor(t, r, "simulated")
  BY DEF Anchored, Does
<1>2. Head(work[t]) = work[t][1] BY <1>1, HeadFacts DEF MemoryInv
<1>3. Plain(work[t][1]) /\ work[t][1].do # "fork" BY <1>1, <1>2 DEF Plain, PlainNames
<1> HIDE DEF r
<1>4. ASSUME NEW items, Goes(t, items), receipts' = receipts PROVE TellParts'
 <2>1. KeepsCalls(t) /\ \A u \in Threads : u # t => work'[u] = work[u]
   BY <1>3, <1>4, GoesWhere DEF MemoryInv, WorkInv, KeepsCalls
 <2> QED BY <1>1, <1>3, <1>4, <2>1, TellSame
<1>5. CASE SaveAnchor(t, r, "simulated") BY <1>1, <1>3, <1>5, SaveAnchorTells
<1> QED BY <1>1, <1>4, <1>5

LEMMA AnchorAnsweredTells ==
  ASSUME MemoryInv, TellParts, NEW t \in Threads, NEW tx, AnchorAnswered(t, tx)
  PROVE  TellParts'
<1>1. /\ work[t] # <<>> /\ Head(work[t]).do = "chain"
      /\ events' = events /\ links' = links /\ injections' = injections
      /\ SaveAnchor(t, Head(work[t]).r, tx)
  BY DEF AnchorAnswered, Does
<1>2. Plain(work[t][1]) BY <1>1, HeadFacts DEF MemoryInv, Plain, PlainNames
<1> QED BY <1>1, <1>2, SaveAnchorTells

\* A link changes no verification.
LEMMA LinkedVerified ==
  ASSUME MemoryInv, NEW rs, NEW turn, LinkTo(rs, turn)
  PROVE  /\ Len(receipts') = Len(receipts)
         /\ \A i \in 1..Len(receipts) : receipts'[i].verified = receipts[i].verified
<1>1. /\ receipts \in Seq(ReceiptSet) /\ Len(receipts) \in Nat
      /\ DOMAIN receipts = 1..Len(receipts)
  BY DEF MemoryInv, BooksInv, MemoryTypes
<1> DEFINE f == [i \in 1..Len(receipts) |->
                   IF \E r \in rs : index[r] = i
                   THEN [receipts[i] EXCEPT !.turn = turn, !.status = "linked"]
                   ELSE receipts[i]]
<1>2. receipts' = f BY <1>1 DEF LinkTo
<1>3. f = [i \in 1..Len(receipts) |-> f[i]] OBVIOUS
<1>4. ASSUME NEW i \in 1..Len(receipts) PROVE f[i].verified = receipts[i].verified
 <2>1. receipts[i] \in ReceiptSet BY <1>1
 <2>2. f[i] = receipts[i] \/ f[i] = [receipts[i] EXCEPT !.turn = turn, !.status = "linked"] OBVIOUS
 <2> HIDE DEF f
 <2> QED BY <2>1, <2>2 DEF ReceiptSet
<1> HIDE DEF f
<1>5. Len(f) = Len(receipts) BY <1>1, <1>3, Mapped
<1> QED BY <1>2, <1>4, <1>5

LEMMA LinkTells ==
  ASSUME MemoryInv, TellParts, NEW t \in Threads, Link(t)
  PROVE  TellParts'
<1> DEFINE r == Head(work[t]).r
           turn == Head(work[t]).turn
           l == <<index[r], turn>>
           e == <<"receipt_linked", index[r], turn>>
           c == SaveCall(r, index[r], {e})
           q == Rest(t)
<1>1. /\ work[t] # <<>> /\ Head(work[t]).do = "link"
      /\ events' = events /\ injections' = injections
      /\ \/ LinkTo({r}, turn) /\ Goes(t, <<c>> \o q)
         \/ Goes(t, <<>>) /\ receipts' = receipts /\ links' = links
  BY DEF Link, Does, LinkSaves
<1>2. IsList(q) /\ Head(work[t]) = work[t][1] BY <1>1, HeadFacts, Behead DEF MemoryInv, Rest
<1>3. KeepsCalls(t) /\ work[t][1].do # "fork" BY <1>1, <1>2 DEF KeepsCalls, Plain, PlainNames
<1>4. Carries(c) /\ e \in c.events BY DEF SaveCall, Carries
<1>5. <<"receipt_linked", l[1], l[2]>> = e OBVIOUS
<1>6. LinkTo({r}, turn) => links' = links \cup {l} BY DEF LinkTo
<1> HIDE DEF c, q, r, turn, e, l
<1>7. CASE Goes(t, <<>>) /\ receipts' = receipts /\ links' = links
  BY <1>7, GoesWhere, <1>1, <1>3, TellSame DEF MemoryInv, WorkInv
<1>8. CASE LinkTo({r}, turn) /\ Goes(t, <<c>> \o q)
 <2>1. /\ 1 \in 1..Len(work'[t]) /\ work'[t][1] = c
       /\ \A u \in Threads : u # t => work'[u] = work[u]
   BY <1>2, <1>8, CallsTo
 <2>2. ToldIn(e, events', work') BY <1>4, <2>1, Telling
 <2>3. \A k \in links' : k \in links \/ ToldIn(<<"receipt_linked", k[1], k[2]>>, events', work')
   BY <1>5, <1>6, <1>8, <2>2
 <2>4. /\ Len(receipts') = Len(receipts)
       /\ \A i \in 1..Len(receipts) : receipts'[i].verified = receipts[i].verified
   BY <1>8, LinkedVerified
 <2>5. /\ \A i \in 1..Len(receipts') : i \in 1..Len(receipts)
       /\ \A i \in 1..Len(receipts') : receipts'[i].verified => i \in 1..Len(receipts) /\ receipts[i].verified
       /\ \A b \in 1..Len(injections') : b \in 1..Len(injections)
   BY <1>1, <2>4
 <2> QED BY <1>1, <1>3, <2>1, <2>3, <2>5, TellStep
<1> QED BY <1>1, <1>7, <1>8

LEMMA VerifyTells ==
  ASSUME MemoryInv, TellParts, NEW t \in Threads, Verify(t)
  PROVE  TellParts'
<1> DEFINE i == index[Head(work[t]).r]
           e == <<"receipt_verified", i>>
           c == Push({e})
           q == Rest(t)
<1>1. /\ work[t] # <<>> /\ Head(work[t]).do = "verify"
      /\ events' = events /\ links' = links /\ injections' = injections
      /\ \/ receipts' = [receipts EXCEPT ![i] = VerifiedReceipt(@)] /\ Goes(t, <<c>> \o q)
         \/ Goes(t, <<>>) /\ receipts' = receipts
  BY DEF Verify, Does
<1>2. IsList(q) /\ Head(work[t]) = work[t][1] BY <1>1, HeadFacts, Behead DEF MemoryInv, Rest
<1>3. KeepsCalls(t) /\ work[t][1].do # "fork" BY <1>1, <1>2 DEF KeepsCalls, Plain, PlainNames
<1>4. Carries(c) /\ e \in c.events BY DEF Push, Carries
<1>5. receipts \in Seq(ReceiptSet) BY DEF MemoryInv, BooksInv, MemoryTypes
<1> HIDE DEF c, q, i
<1>6. CASE Goes(t, <<>>) /\ receipts' = receipts BY <1>6, GoesWhere, <1>1, <1>3, TellSame DEF MemoryInv, WorkInv
<1>7. CASE receipts' = [receipts EXCEPT ![i] = VerifiedReceipt(@)] /\ Goes(t, <<c>> \o q)
 <2>1. /\ 1 \in 1..Len(work'[t]) /\ work'[t][1] = c
       /\ \A u \in Threads : u # t => work'[u] = work[u]
   BY <1>2, <1>7, CallsTo
 <2>2. ToldIn(<<"receipt_verified", i>>, events', work') BY <1>4, <2>1, Telling
 <2>3. Len(receipts') = Len(receipts) BY <1>7, <1>5, Mapped DEF IsList
 <2>4. \A k \in 1..Len(receipts) : k # i => receipts'[k] = receipts[k] BY <1>5, <1>7
 <2>5. \A k \in 1..Len(receipts') : k \in 1..Len(receipts) BY <2>3
 <2>6. \A k \in 1..Len(receipts') : receipts'[k].verified =>
           \/ k \in 1..Len(receipts) /\ receipts[k].verified
           \/ ToldIn(<<"receipt_verified", k>>, events', work')
   BY <2>2, <2>4, <2>5
 <2>7. /\ \A l \in links' : l \in links
       /\ \A b \in 1..Len(injections') : b \in 1..Len(injections)
   BY <1>1
 <2> QED BY <1>1, <1>3, <2>1, <2>5, <2>6, <2>7, TellStep
<1> QED BY <1>1, <1>6, <1>7

LEMMA ForkTells ==
  ASSUME MemoryInv, TellParts, NEW t \in Threads, Fork(t)
  PROVE  TellParts'
<1> DEFINE b == ForkBundle(t)
           rs == ForkOf(t)
           turn == ForkTurn(t)
           c == ForkPush(t)
           q == Tail(work[t])
<1>1. /\ work[t] # <<>> /\ work[t][1].do = "fork" /\ t[2] = 0 /\ Quiet(t)
      /\ rs \subseteq Reflections /\ LinkTo(rs, turn) /\ b = work[t][1].bundle
      /\ \A u \in Threads : u # t /\ u[1] = t[1] /\ u[2] \in rs => work'[u] = <<ForkSave(t, u[2])>>
      /\ \A u \in Threads : u # t /\ ~(u[1] = t[1] /\ u[2] \in rs) => work'[u] = work[u]
  BY ForkFacts
<1>2. events' = events /\ injections' = injections BY DEF Fork
<1>3. links' = links \cup {<<index[r], turn>> : r \in rs} BY <1>1 DEF LinkTo
<1>4. \A r \in Reflections : r \in 0..MaxCreated /\ r # 0 BY BoundsAssumption DEF Reflections
<1>5. /\ \E i \in 1..Len(work'[t]) : work'[t][i] = c
      /\ \A j \in 1..Len(q) : \E i \in 1..Len(work'[t]) : work'[t][i] = q[j]
  BY ForkElements
<1>6. KeepsCalls(t) BY <1>1, <1>5 DEF KeepsCalls, Carries
<1>7. ASSUME NEW u \in Threads, u # t PROVE work'[u] = work[u] \/ work[u] = <<>> BY <1>1, <1>4, <1>7 DEF Quiet
<1>8. Carries(c) /\ <<"injection_built", b>> \in c.events BY DEF ForkPush, Push, Carries
<1>9. ToldIn(<<"injection_built", b>>, events', work') BY <1>5, <1>8, Telling
<1>10. ASSUME NEW r \in rs
       PROVE  ToldIn(<<"receipt_linked", index[r], turn>>, events', work')
 <2> DEFINE u == <<t[1], r>>
            e == ForkSave(t, r)
            what == <<"receipt_linked", index[r], turn>>
 <2>1. u \in Threads /\ u[1] = t[1] /\ u[2] = r /\ r # 0 BY <1>1, <1>4, ThreadParts DEF Threads
 <2>2. Carries(e) /\ what \in e.events BY DEF ForkSave, SaveCall, Carries
 <2>3. u # t BY <1>1, <2>1
 <2>4. work'[u] = <<e>> BY <1>1, <2>1, <2>3
 <2> HIDE DEF u, e, what
 <2>5. 1 \in 1..Len(work'[u]) /\ work'[u][1] = e BY <2>4, OneList
 <2>6. ToldIn(what, events', work') BY <2>1, <2>2, <2>5, Telling
 <2> QED BY <2>6 DEF what
<1> HIDE DEF b, rs, turn, c, q
<1>11. ASSUME NEW l \in links'
       PROVE  l \in links \/ ToldIn(<<"receipt_linked", l[1], l[2]>>, events', work')
 <2>1. l \in links \/ \E r \in rs : l = <<index[r], turn>> BY <1>3
 <2>2. ASSUME NEW r \in rs, l = <<index[r], turn>>
       PROVE  ToldIn(<<"receipt_linked", l[1], l[2]>>, events', work') BY <2>2, <1>10
 <2> QED BY <2>1, <2>2
<1>12. /\ Len(receipts') = Len(receipts)
       /\ \A i \in 1..Len(receipts) : receipts'[i].verified = receipts[i].verified
  BY <1>1, LinkedVerified
<1>13. /\ \A i \in 1..Len(receipts') : i \in 1..Len(receipts)
       /\ \A i \in 1..Len(receipts') : receipts'[i].verified => i \in 1..Len(receipts) /\ receipts[i].verified
       /\ \A k \in 1..Len(injections') : k \in 1..Len(injections)
  BY <1>2, <1>12
<1>14. \A e : ToldIn(e, events, work) => ToldIn(e, events', work') BY <1>2, <1>6, <1>7, TellsOn
<1>15. \A k : ForkingIn(k, work) =>
          ForkingIn(k, work') \/ ToldIn(<<"injection_built", k>>, events', work')
  BY <1>1, <1>6, <1>7, <1>9, ForksOn
<1> QED BY <1>11, <1>13, <1>14, <1>15, TellGrows

LEMMA StepTells ==
  ASSUME MemoryInv, TellInv, [Next]_vars
  PROVE  TellInv'
<1>1. CASE \E t \in Threads : Rejects(t) BY <1>1 DEF Rejects, TellInv
<1>2. CASE UNCHANGED vars BY <1>2 DEF vars, TellInv, TellParts, Told, Forking
<1>3. ASSUME NEW t \in Threads,
             \/ \E a \in Advices, p \in Priorities : Created(t, a, p)
             \/ \E tx \in {"signed", None} : AnchorAnswered(t, tx)
      PROVE  TellInv' BY <1>3, CreatedTells, AnchorAnsweredTells DEF Created, AnchorAnswered, TellInv
<1>4. ASSUME NEW t \in Threads,
             Anchored(t) \/ Link(t) \/ Saved(t) \/ Verify(t) \/ (\E w : Build(t, w)) \/ Fork(t)
               \/ Inject(t) \/ Pushed(t)
      PROVE  TellInv'
 <2>1. writeFailed' = writeFailed BY <1>4 DEF Anchored, Link, Saved, Verify, Build, Fork, Inject, Pushed
 <2>2. TellParts => TellParts'
   BY <1>4, AnchoredTells, LinkTells, SavedTells, VerifyTells, BuildTells, ForkTells,
      InjectTells, PushedTells, Zenon
 <2> QED BY <2>1, <2>2 DEF TellInv
<1>5. CASE \E c \in Callers : \E calls \in Routes : Request(c, calls) BY <1>5, RequestTells DEF Request, TellInv
<1> QED BY <1>1, <1>2, <1>3, <1>4, <1>5 DEF Next

\* The properties. What a step may never take back, and what the three
\* invariants together say.
\* What a receipt proves stays.
ProofsKept ==
  \A i \in DOMAIN receipts :
     /\ i \in DOMAIN receipts'
     /\ receipts'[i].tx = receipts[i].tx
     /\ receipts[i].verified => receipts'[i].verified
     /\ receipts[i].turn # None => receipts'[i].turn # None

ReceiptKept(old, new) ==
  /\ new.tx = old.tx
  /\ old.verified => new.verified
  /\ old.turn # None => new.turn # None

LEMMA KeptOneByOne ==
  ASSUME BooksInv, NEW f, receipts' = [i \in 1..Len(receipts) |-> f[i]],
         \A i \in 1..Len(receipts) : f[i] = receipts[i] \/ ReceiptKept(receipts[i], f[i])
  PROVE  ProofsKept
<1>1. DOMAIN receipts = 1..Len(receipts) BY DEF BooksInv, MemoryTypes
<1>2. DOMAIN receipts' = 1..Len(receipts) /\ \A i \in 1..Len(receipts) : receipts'[i] = f[i] OBVIOUS
<1> QED BY <1>1, <1>2 DEF ProofsKept, ReceiptKept

LEMMA SaveAnchorKept ==
  ASSUME BooksInv, NEW t \in Threads, NEW r, NEW tx, SaveAnchor(t, r, tx)
  PROVE  ProofsKept
<1> DEFINE row == [of |-> r, tx |-> tx, status |-> AnchorStatus(tx),
                   verified |-> FALSE, turn |-> None]
<1>1. receipts' = Append(receipts, row) BY DEF SaveAnchor
<1> HIDE DEF row
<1>2. receipts \in Seq(ReceiptSet) /\ DOMAIN receipts = 1..Len(receipts) /\ Len(receipts) \in Nat
  BY DEF BooksInv, MemoryTypes
<1>3. \A i \in 1..Len(receipts) : i \in DOMAIN receipts' /\ receipts'[i] = receipts[i] BY <1>1, <1>2
<1> QED BY <1>2, <1>3 DEF ProofsKept

LEMMA LinkedKept ==
  ASSUME BooksInv, NEW rs, NEW turn \in Turns, LinkTo(rs, turn)
  PROVE  ProofsKept
<1>1. /\ DOMAIN receipts = 1..Len(receipts)
      /\ \A i \in 1..Len(receipts) : receipts[i] \in ReceiptSet
  BY DEF BooksInv, MemoryTypes
<1> DEFINE f == [i \in 1..Len(receipts) |->
                   IF \E r \in rs : index[r] = i
                   THEN [receipts[i] EXCEPT !.turn = turn, !.status = "linked"]
                   ELSE receipts[i]]
<1>2. receipts' = f /\ f = [i \in 1..Len(receipts) |-> f[i]] BY <1>1 DEF LinkTo
<1>3. turn # None BY BoundsAssumption
<1>4. ASSUME NEW i \in 1..Len(receipts)
      PROVE  f[i] = receipts[i] \/ ReceiptKept(receipts[i], f[i])
 <2>1. receipts[i] \in ReceiptSet BY <1>1
 <2>2. f[i] = receipts[i] \/ f[i] = [receipts[i] EXCEPT !.turn = turn, !.status = "linked"] OBVIOUS
 <2> HIDE DEF f
 <2> QED BY <1>3, <2>1, <2>2 DEF ReceiptSet, ReceiptKept
<1> HIDE DEF f
<1> QED BY <1>2, <1>4, KeptOneByOne

LEMMA VerifiedKept ==
  ASSUME BooksInv, NEW k, receipts' = [receipts EXCEPT ![k] = VerifiedReceipt(@)]
  PROVE  ProofsKept
<1>1. /\ DOMAIN receipts = 1..Len(receipts)
      /\ \A i \in 1..Len(receipts) : receipts[i] \in ReceiptSet
  BY DEF BooksInv, MemoryTypes
<1> DEFINE f == [i \in 1..Len(receipts) |->
                   IF i = k THEN VerifiedReceipt(receipts[i]) ELSE receipts[i]]
<1>2. receipts' = [i \in 1..Len(receipts) |-> f[i]] BY <1>1 DEF BooksInv, MemoryTypes
<1>3. ASSUME NEW i \in 1..Len(receipts)
      PROVE  f[i] = receipts[i] \/ ReceiptKept(receipts[i], f[i])
 <2>1. receipts[i] \in ReceiptSet BY <1>1
 <2>2. f[i] = receipts[i] \/ f[i] = [receipts[i] EXCEPT !.verified = TRUE, !.status = "verified"]
   BY DEF VerifiedReceipt
 <2> HIDE DEF f
 <2> QED BY <2>1, <2>2 DEF ReceiptSet, ReceiptKept
<1> HIDE DEF f
<1> QED BY <1>2, <1>3, KeptOneByOne

LEMMA InjectedKept ==
  ASSUME BooksInv, NEW k, receipts' = [receipts EXCEPT ![k].status = "injected"]
  PROVE  ProofsKept
<1>1. /\ DOMAIN receipts = 1..Len(receipts)
      /\ \A i \in 1..Len(receipts) : receipts[i] \in ReceiptSet
  BY DEF BooksInv, MemoryTypes
<1> DEFINE f == [i \in 1..Len(receipts) |->
                   IF i = k THEN [receipts[i] EXCEPT !.status = "injected"] ELSE receipts[i]]
<1>2. receipts' = [i \in 1..Len(receipts) |-> f[i]] BY <1>1
<1>3. ASSUME NEW i \in 1..Len(receipts)
      PROVE  f[i] = receipts[i] \/ ReceiptKept(receipts[i], f[i])
 <2>1. receipts[i] \in ReceiptSet BY <1>1
 <2>2. f[i] = receipts[i] \/ f[i] = [receipts[i] EXCEPT !.status = "injected"] OBVIOUS
 <2> HIDE DEF f
 <2> QED BY <2>1, <2>2 DEF ReceiptSet, ReceiptKept
<1> HIDE DEF f
<1> QED BY <1>2, <1>3, KeptOneByOne

LEMMA StepProofs ==
  ASSUME MemoryInv, [Next]_vars
  PROVE  ProofsKept
<1>1. BooksInv BY DEF MemoryInv
<1>2. ASSUME receipts' = receipts PROVE ProofsKept BY <1>2 DEF ProofsKept
<1>3. CASE UNCHANGED vars BY <1>2, <1>3 DEF vars
<1>4. CASE \E c \in Callers : \E calls \in Routes : Request(c, calls) BY <1>2, <1>4 DEF Request
<1>5. ASSUME NEW t \in Threads,
             \/ \E a \in Advices, p \in Priorities : Created(t, a, p)
             \/ Saved(t) \/ (\E w : Build(t, w)) \/ Pushed(t) \/ Rejects(t)
      PROVE  ProofsKept
  BY <1>2, <1>5 DEF Created, Saved, Build, Pushed, Rejects
<1>6. ASSUME NEW t \in Threads,
             \/ Anchored(t)
             \/ \E tx \in {"signed", None} : AnchorAnswered(t, tx)
      PROVE  ProofsKept BY <1>6, <1>1, <1>2, SaveAnchorKept DEF Anchored, AnchorAnswered
<1>7. ASSUME NEW t \in Threads, Link(t) PROVE ProofsKept
 <2> DEFINE r == Head(work[t]).r
            turn == Head(work[t]).turn
 <2>1. /\ work[t] # <<>> /\ Head(work[t]).do = "link"
       /\ receipts' = receipts \/ LinkTo({r}, turn)
   BY <1>7 DEF Link, Does
 <2>2. Head(work[t]) = work[t][1] /\ Fits(work[t][1]) BY <2>1, HeadFacts DEF MemoryInv
 <2>3. work[t][1] \in PlainCalls BY <2>1, <2>2 DEF Fits, FitsIn, Plain, PlainNames
 <2>4. \A call \in PlainCalls : call.do = "link" => call.turn \in Turns BY DEF PlainCalls
 <2>5. turn \in Turns BY <2>1, <2>2, <2>3, <2>4
 <2> HIDE DEF r, turn
 <2> QED BY <1>1, <1>2, <2>1, <2>5, LinkedKept
<1>8. ASSUME NEW t \in Threads, Fork(t) PROVE ProofsKept BY <1>8, ForkFacts, <1>1, LinkedKept
<1>9. ASSUME NEW t \in Threads, Verify(t) PROVE ProofsKept BY <1>1, <1>2, <1>9, VerifiedKept DEF Verify
<1>10. ASSUME NEW t \in Threads, Inject(t) PROVE ProofsKept
 <2> DEFINE k == Head(work[t]).receipt
 <2>1. receipts' = [receipts EXCEPT ![k].status = "injected"] BY <1>10 DEF Inject
 <2> HIDE DEF k
 <2> QED BY <1>1, <2>1, InjectedKept
<1> QED BY <1>3, <1>4, <1>5, <1>6, <1>7, <1>8, <1>9, <1>10 DEF Next

----
\* What a bundle takes.
LEMMA BestMany ==
  ASSUME BooksInv, NEW w, Best(w) # Firsts(w)
  PROVE  Cardinality(Best(w)) = MaxItems
<1> DEFINE n == Cardinality(Firsts(w))
           T == 0..(MaxItems - 1)
           f == [r \in Best(w) |-> Rank(r, Firsts(w))]
<1>1. Best(w) \subseteq Firsts(w) /\ Firsts(w) \subseteq Candidates(w) /\ IsFiniteSet(Best(w)) BY SelectedFacts
<1>2. IsFiniteSet(Firsts(w)) /\ n \in Nat /\ MaxItems \in Nat \ {0}
  BY <1>1, CandidatesFinite, FS_Subset, FS_CardinalityType, ScoresAssumption
<1>3. /\ \A r \in Firsts(w) : Rank(r, Firsts(w)) \in 0..(n - 1)
      /\ \A r, s \in Firsts(w) : Rank(r, Firsts(w)) = Rank(s, Firsts(w)) => r = s
      /\ \A k \in 0..(n - 1) : \E r \in Firsts(w) : Rank(r, Firsts(w)) = k
 <2>1. Orders(CandidateOrder(w), Firsts(w))
       /\ \A r \in Firsts(w) : Rank(r, Firsts(w)) = Cardinality(Lower(r, Firsts(w), CandidateOrder(w)))
   BY <1>1, CandidatesOrdered
 <2> QED BY <1>2, <2>1, Ranked
<1>4. \A r \in Firsts(w) : r \in Best(w) <=> Rank(r, Firsts(w)) < MaxItems BY DEF Best
<1>5. PICK s \in Firsts(w) : s \notin Best(w) BY <1>1
<1> HIDE DEF n
<1>6. MaxItems <= n - 1
 <2> DEFINE k == Rank(s, Firsts(w))
 <2>1. k \in 0..(n - 1) /\ ~(k < MaxItems) BY <1>3, <1>4, <1>5
 <2> HIDE DEF k
 <2> QED BY <1>2, <2>1
<1>7. f \in Bijection(Best(w), T)
 <2>1. \A r \in Best(w) : Rank(r, Firsts(w)) \in T
  <3> SUFFICES ASSUME NEW r \in Best(w) PROVE Rank(r, Firsts(w)) \in T OBVIOUS
  <3> DEFINE k == Rank(r, Firsts(w))
  <3>1. k \in 0..(n - 1) /\ k < MaxItems BY <1>1, <1>3, <1>4
  <3> HIDE DEF k
  <3>2. k \in T BY <1>2, <3>1
  <3> QED BY <3>2 DEF k
 <2>2. \A k \in T : \E r \in Best(w) : Rank(r, Firsts(w)) = k
  <3> SUFFICES ASSUME NEW k \in T PROVE \E r \in Best(w) : Rank(r, Firsts(w)) = k OBVIOUS
  <3>1. k \in 0..(n - 1) /\ k < MaxItems BY <1>2, <1>6
  <3>2. PICK r \in Firsts(w) : Rank(r, Firsts(w)) = k BY <1>3, <3>1
  <3> QED BY <1>4, <3>1, <3>2
 <2>3. f \in [Best(w) -> T] /\ \A r \in Best(w) : f[r] = Rank(r, Firsts(w)) BY <2>1
 <2>4. \A x, y \in Best(w) : f[x] = f[y] => x = y BY <1>1, <1>3, <2>3
 <2>5. \A k \in T : \E r \in Best(w) : f[r] = k BY <2>2, <2>3
 <2> HIDE DEF f, T
 <2>6. f \in Injection(Best(w), T) BY <2>3, <2>4 DEF Injection, IsInjective
 <2>7. f \in Surjection(Best(w), T) BY <2>3, <2>5 DEF Surjection
 <2> QED BY <2>6, <2>7 DEF Bijection
<1>8. Cardinality(T) = Cardinality(Best(w))
 <2> HIDE DEF f, T
 <2>1. ExistsBijection(Best(w), T) BY <1>7 DEF ExistsBijection
 <2> QED BY <1>1, <2>1, FS_Bijection
<1>9. Cardinality(T) = MaxItems BY <1>2, FS_Interval
<1> QED BY <1>8, <1>9

LEMMA FirstOfAdvice ==
  ASSUME BooksInv, NEW w, NEW r \in Candidates(w)
  PROVE  \E x \in Firsts(w) : reflections[x].advice = reflections[r].advice
<1> DEFINE S == {s \in Candidates(w) : reflections[s].advice = reflections[r].advice}
<1>1. S \in SUBSET Candidates(w) /\ S # {} OBVIOUS
<1>2. \A s \in S : s \in Candidates(w) /\ reflections[s].advice = reflections[r].advice OBVIOUS
<1>3. \A s \in Candidates(w) : reflections[s].advice = reflections[r].advice => s \in S OBVIOUS
<1> HIDE DEF S
<1>4. IsFiniteSet(S) /\ Cardinality(S) \in Nat \ {0}
  BY <1>1, CandidatesFinite, FS_Subset, FS_CardinalityType, FS_EmptySet
<1>5. Orders(CandidateOrder(w), S) BY <1>1, CandidatesOrdered
<1>6. PICK x \in S : Cardinality(Lower(x, S, CandidateOrder(w))) = 0 BY <1>4, <1>5, Ranked
<1>7. Lower(x, S, CandidateOrder(w)) = {} BY <1>4, FS_Subset, <1>6, FS_EmptySet DEF Lower
<1>8. \A s \in S : ~Before(s, x) BY <1>2, <1>7 DEF Lower, CandidateOrder
<1>9. x \in Firsts(w) BY <1>2, <1>3, <1>8 DEF Firsts
<1> QED BY <1>2, <1>9

LEMMA AdviceOnce ==
  ASSUME BooksInv, NEW w, NEW r \in Firsts(w), NEW s \in Firsts(w),
         reflections[r].advice = reflections[s].advice
  PROVE  r = s
<1>1. r \in Candidates(w) /\ s \in Candidates(w) /\ ~Before(r, s) /\ ~Before(s, r) BY DEF Firsts
<1>2. Orders(CandidateOrder(w), Candidates(w)) BY CandidatesOrdered
<1> QED BY <1>1, <1>2 DEF Orders, CandidateOrder

AdviceTaken ==
  Len(injections') > Len(injections) =>
    LET items == injections'[Len(injections')].items
        advices == {reflections[items[n].r].advice : n \in DOMAIN items}
    IN  /\ Cardinality(advices) = Len(items)
        /\ \/ Len(items) = MaxItems
           \/ \A r \in DOMAIN reflections :
                 HasReceipt(r) /\ Eligible(r) =>
                    \/ reflections[r].advice \in advices
                    \/ \E limit \in ListLimits : Cardinality(Newer(r, DOMAIN reflections)) >= limit

\* What is not looked at has as many newer ones.
LEMMA LookedAt ==
  ASSUME BooksInv, NEW w, NEW r \in DOMAIN reflections, HasReceipt(r), Eligible(r),
         w.limit \in ListLimits, ~(Cardinality(Newer(r, DOMAIN reflections)) >= w.limit)
  PROVE  r \in Candidates(w)
<1>1. PICK S, T : S = Newer(r, Listed(w.wallet)) /\ T = Newer(r, DOMAIN reflections) OBVIOUS
<1>2. DOMAIN reflections = 1..Len(reflections) /\ Len(reflections) \in Nat BY DEF BooksInv, MemoryTypes
<1>3. S \in SUBSET T /\ T \in SUBSET (1..Len(reflections)) BY <1>1, <1>2 DEF Newer, Listed
<1>4. IsFiniteSet(1..Len(reflections)) BY <1>2, FS_Interval
<1>5. IsFiniteSet(T) BY <1>3, <1>4, FS_Subset
<1>6. Cardinality(S) \in Nat /\ Cardinality(T) \in Nat /\ Cardinality(S) <= Cardinality(T)
  BY <1>3, <1>5, FS_Subset, FS_CardinalityType
<1>7. Cardinality(S) < w.limit
 <2>1. PICK limit \in Nat : limit = w.limit BY ScoresAssumption
 <2> QED BY <1>1, <1>6, <2>1
<1> QED BY <1>1, <1>7 DEF Candidates, Listed

LEMMA BuildTakes ==
  ASSUME MemoryInv, NEW t \in Threads, NEW w, w.limit \in ListLimits, Build(t, w)
  PROVE  AdviceTaken
<1> DEFINE row == [turn |-> Head(work[t]).turn, items |-> BuiltItems(w)]
           items == injections'[Len(injections')].items
           advices == {reflections[items[n].r].advice : n \in DOMAIN items}
           m == Cardinality(Best(w))
           f == [n \in 1..m |-> reflections[Selected(w)[n]].advice]
<1>1. injections' = Append(injections, row) BY DEF Build, BuiltItems
<1>2. injections \in Seq(BundleSet) /\ BooksInv BY DEF MemoryInv, BooksInv, MemoryTypes
<1>3. row.items = BuiltItems(w) OBVIOUS
<1>4. items = BuiltItems(w)
 <2> HIDE DEF row
 <2>1. injections'[Len(injections')] = row BY <1>1, <1>2
 <2> QED BY <1>3, <2>1
<1>5. /\ m \in Nat /\ Len(BuiltItems(w)) = m /\ DOMAIN BuiltItems(w) = 1..m
      /\ \A n \in 1..m : BuiltItems(w)[n].r = Selected(w)[n]
 <2>1. BuiltItems(w) \in Seq([r : Reflections, receipt : Nat, verified : BOOLEAN, signed : BOOLEAN])
       /\ Len(BuiltItems(w)) = m /\ \A n \in 1..Len(BuiltItems(w)) : BuiltItems(w)[n].r = Selected(w)[n]
   BY BuiltFacts
 <2> HIDE DEF m
 <2> QED BY <2>1
<1>6. /\ Best(w) \subseteq Firsts(w) /\ \A n \in 1..m : Selected(w)[n] \in Best(w)
      /\ \A n, k \in 1..m : Selected(w)[n] = Selected(w)[k] => n = k
      /\ \A r \in Best(w) : \E n \in 1..m : Selected(w)[n] = r
  BY <1>2, SelectedFacts
<1>7. advices = {reflections[Selected(w)[n]].advice : n \in 1..m} BY <1>4, <1>5
<1> HIDE DEF items, advices, m
<1>8. Cardinality(advices) = m
 <2>1. f \in [1..m -> advices] /\ \A n \in 1..m : f[n] = reflections[Selected(w)[n]].advice BY <1>7
 <2>2. \A n, k \in 1..m : f[n] = f[k] => n = k
  <3> SUFFICES ASSUME NEW n \in 1..m, NEW k \in 1..m, f[n] = f[k] PROVE n = k OBVIOUS
  <3>1. reflections[Selected(w)[n]].advice = reflections[Selected(w)[k]].advice BY <2>1
  <3>2. Selected(w)[n] \in Firsts(w) /\ Selected(w)[k] \in Firsts(w) BY <1>6
  <3>3. Selected(w)[n] = Selected(w)[k] BY <1>2, <3>1, <3>2, AdviceOnce
  <3> QED BY <1>6, <3>3
 <2>3. \A a \in advices : \E n \in 1..m : f[n] = a BY <1>7, <2>1
 <2> HIDE DEF f
 <2>4. f \in Injection(1..m, advices) /\ f \in Surjection(1..m, advices)
   BY <2>1, <2>2, <2>3 DEF Injection, IsInjective, Surjection
 <2>5. ExistsBijection(1..m, advices) BY <2>4 DEF ExistsBijection, Bijection
 <2>6. IsFiniteSet(1..m) /\ Cardinality(1..m) = m BY <1>5, FS_Interval
 <2> QED BY <2>5, <2>6, FS_Bijection
<1>9. ASSUME m # MaxItems, NEW r \in DOMAIN reflections, HasReceipt(r), Eligible(r),
             ~(Cardinality(Newer(r, DOMAIN reflections)) >= w.limit)
      PROVE  reflections[r].advice \in advices
 <2>1. Best(w) = Firsts(w) BY <1>2, <1>9, BestMany DEF m
 <2>2. PICK x \in Firsts(w) : reflections[x].advice = reflections[r].advice BY <1>2, <1>9, LookedAt, FirstOfAdvice
 <2>3. PICK n \in 1..m : Selected(w)[n] = x BY <1>6, <2>1
 <2> QED BY <1>7, <2>2, <2>3
<1>10. Len(items) = m BY <1>4, <1>5
<1> QED BY <1>8, <1>9, <1>10 DEF AdviceTaken, items, advices

LEMMA StepTakes ==
  ASSUME MemoryInv, [Next]_vars
  PROVE  AdviceTaken
<1>1. ASSUME injections' = injections PROVE AdviceTaken BY <1>1 DEF MemoryInv, BooksInv, MemoryTypes, AdviceTaken
<1>2. injections' = injections \/ \E t \in Threads : \E w : w.limit \in ListLimits /\ Build(t, w)
  BY DEF Next, vars, Request, Created, Anchored, AnchorAnswered, Link, Saved, Verify,
     Fork, Inject, Pushed, Rejects
<1> QED BY <1>1, <1>2, BuildTakes

\* The collections agree.
LEMMA InvAgrees ==
  ASSUME MemoryInv, PatientInv, TellInv
  PROVE  MemoryRecordsAgree
<1>1. /\ reflections \in Seq(ReflectionSet) /\ receipts \in Seq(ReceiptSet)
      /\ index \in [Reflections -> 0..Len(receipts)]
      /\ links \subseteq ((1..Len(receipts)) \X Turns)
      /\ injections \in Seq(BundleSet)
      /\ DOMAIN receipts = 1..Len(receipts) /\ DOMAIN injections = 1..Len(injections)
  BY DEF MemoryInv, BooksInv, MemoryTypes
<1>2. TypeOK BY <1>1 DEF MemoryInv, WorkInv, WorkTypes, TypeOK
<1>3. IndexNamesOwnReceipt BY DEF MemoryInv, BooksInv
<1>4. OneReceiptEach BY <1>1 DEF OneReceiptEach, PatientInv, IndexedAll
<1>5. InjectedTurnIsBundles
 <2> SUFFICES ASSUME patient, NEW i \in DOMAIN receipts, receipts[i].status = "injected"
              PROVE  \E b \in DOMAIN injections :
                       /\ injections[b].turn = receipts[i].turn
                       /\ \E n \in DOMAIN injections[b].items : injections[b].items[n].receipt = i
   BY DEF InjectedTurnIsBundles
 <2>1. PICK b \in 1..Len(injections) :
          /\ injections[b].turn = receipts[i].turn
          /\ \E n \in 1..Len(injections[b].items) : injections[b].items[n].receipt = i
   BY <1>1 DEF PatientInv, InjectedBundled, BundledFor, BundledIn
 <2>2. injections[b] \in BundleSet BY <1>1
 <2>3. DOMAIN injections[b].items = 1..Len(injections[b].items)
  <3> DEFINE items == injections[b].items
  <3>1. items \in Seq([r : Reflections, receipt : Nat, verified : BOOLEAN, signed : BOOLEAN]) BY <2>2 DEF BundleSet
  <3> HIDE DEF items
  <3>2. DOMAIN items = 1..Len(items) BY <3>1
  <3> QED BY <3>2 DEF items
 <2> QED BY <1>1, <2>1, <2>3
<1>6. TimelineTellsAll
 <2> SUFFICES ASSUME ~writeFailed, \A t \in Threads : work[t] = <<>>
              PROVE  /\ \A i \in DOMAIN receipts :
                         /\ \E st \in {"anchored", "degraded"} : <<"receipt_" \o st, i>> \in events
                         /\ receipts[i].verified => <<"receipt_verified", i>> \in events
                     /\ \A l \in links : <<"receipt_linked", l[1], l[2]>> \in events
                     /\ \A b \in DOMAIN injections : <<"injection_built", b>> \in events
   BY DEF TimelineTellsAll
 <2>1. \A t \in Threads : \A i \in 1..Len(work[t]) : FALSE BY NoList
 <2>2. \A e : ToldIn(e, events, work) => e \in events BY <2>1 DEF ToldIn, CarriedIn
 <2>3. \A b : ~ForkingIn(b, work) BY <2>1 DEF ForkingIn
 <2>4. TellParts BY DEF TellInv
 <2>5. ASSUME NEW i \in DOMAIN receipts
       PROVE  \E st \in {"anchored", "degraded"} : <<"receipt_" \o st, i>> \in events
  <3>1. PICK st \in {"anchored", "degraded"} : ToldIn(<<"receipt_" \o st, i>>, events, work)
    BY <1>1, <2>4 DEF TellParts, Told
  <3>2. <<"receipt_" \o st, i>> \in events BY <2>2, <3>1
  <3> QED BY <3>2
 <2>6. \A i \in DOMAIN receipts : receipts[i].verified => <<"receipt_verified", i>> \in events
   BY <1>1, <2>2, <2>4 DEF TellParts, Told
 <2>7. \A l \in links : <<"receipt_linked", l[1], l[2]>> \in events BY <2>2, <2>4 DEF TellParts, Told
 <2>8. \A b \in DOMAIN injections : <<"injection_built", b>> \in events
   BY <1>1, <2>2, <2>3, <2>4 DEF TellParts, Told, Forking
 <2> QED BY <2>5, <2>6, <2>7, <2>8
<1> QED BY <1>2, <1>3, <1>4, <1>5, <1>6 DEF MemoryRecordsAgree

LEMMA InitPatientTells ==
  ASSUME Init
  PROVE  PatientInv /\ TellInv
<1>1. receipts = <<>> /\ links = {} /\ injections = <<>> BY DEF Init
<1>2. Len(receipts) = 0 /\ Len(injections) = 0 BY <1>1
<1>3. \A t \in Threads : work[t] = <<>> /\ \A i \in 1..Len(work[t]) : FALSE BY NoWork
<1>4. PatientInv BY <1>2, <1>3 DEF PatientInv, Alone, IndexedAll, ChainsFresh, InjectsBundled, InjectedBundled
<1>5. TellInv BY <1>1, <1>2 DEF TellInv, TellParts
<1> QED BY <1>4, <1>5

\* What the run checks of the memory's records, for any number of requests
\* and reflections: types; the index of a reflection names a receipt of
\* its own; callers that wait get one receipt for each reflection and mark
\* only what a bundle for the turn holds; at rest the timeline tells of
\* all that has happened, unless a write has failed.
THEOREM MemoryRecordsAlwaysAgree == Spec => []MemoryRecordsAgree
<1> DEFINE Inv == MemoryInv /\ PatientInv /\ TellInv
<1>1. Init => Inv BY InitKeeps, InitPatientTells
<1>2. Inv /\ [Next]_vars => Inv'
 <2> SUFFICES ASSUME MemoryInv, PatientInv, TellInv, [Next]_vars
              PROVE  MemoryInv' /\ PatientInv' /\ TellInv'
   OBVIOUS
 <2>1. MemoryInv' BY StepKeeps
 <2>2. PatientInv' BY <2>1, StepPatient
 <2>3. TellInv' BY StepTells
 <2> QED BY <2>1, <2>2, <2>3
<1>3. Inv => MemoryRecordsAgree BY InvAgrees
<1> QED BY <1>1, <1>2, <1>3, PTL DEF Spec

\* No step takes a transaction, a verification or a receipt back, and a new
\* bundle takes each advice once and as many items as there are or fit.
THEOREM AdviceAndProofsAlwaysStay == Spec => AdviceAndProofsStay
<1>1. MemoryInv /\ [Next]_vars => [AdviceTaken]_vars /\ [ProofsKept]_vars BY StepTakes, StepProofs
<1>2. Spec => []MemoryInv BY MemoryInvAlways
<1> QED
  BY <1>1, <1>2, PTL DEF Spec, AdviceAndProofsStay, BundlesTakeEachAdvice, ProofsOnlyGrow,
     AdviceTaken, ProofsKept

----
\* The wallet pages (WalletClient, WalletPanels).  The inductive invariant
\* is about every task under way: what its phase says of it; that a token
\* is shown, stored or left only once the sign-in that minted it is past
\* its signature; that, unless a task was overtaken, all tasks are for the
\* account of the extension, a task that reads a session is alone, and
\* what is shown is stored and is the account's own but while a hydration
\* asks; and that a signature is the stored session's or still pending.

SignPhases == {"popup", "nonce", "signature", "verify", "verified"}
SignedPhases == {"verify", "verified"}
Holders == Accounts \cup {NoWallet}
Bearers == ClientTokens \cup {NoToken}

TaskSet ==
    [kind : {"sign", "balance", "hydrate", "refresh", "clear", "disconnect"},
     phase : SignPhases \cup {"balance", "asked", "answered", "logout", "left", "leaving"},
     addr : Holders, token : Bearers, got : Holders]

PhaseFits(t) ==
    /\ t.phase \in SignPhases => t.kind = "sign"
    /\ t.phase \in {"nonce", "signature", "verify", "verified"} => t.addr \in Accounts
    /\ t.phase \in {"asked", "answered"} => t.kind \in {"hydrate", "refresh"} /\ t.token \in ClientTokens
    /\ t.phase = "answered" => t.got = t.token[1]
    /\ t.phase \in {"logout", "left"} => t.token \in ClientTokens

SessionOf(t) == [wallet : {t[1]}, nonceId : Nat, expiresAt : Nat]

TaskTypes ==
    /\ adapter \in Holders
    /\ tasks \in Seq(TaskSet \cup {Ended}) /\ Len(tasks) <= MaxTasks
    /\ shown \in [token : Bearers, profile : Holders]
    /\ stored \in Bearers /\ overtaken \in BOOLEAN /\ dropped \subseteq ClientTokens
    /\ signatures \in [Accounts -> SUBSET Nat]
    /\ \A t \in DOMAIN sessions : t \in ClientTokens /\ sessions[t] \in SessionOf(t)

TasksFit ==
    \A i \in InFlight : /\ PhaseFits(tasks[i])
                        /\ tasks[i].phase = "verified" => i \in signatures[tasks[i].addr]

SignsYet(i) == i \in InFlight /\ tasks[i].phase \in SignPhases

Out(t) == t = NoToken \/ (t[2] \in DOMAIN tasks /\ ~SignsYet(t[2]))

TokensAreOut ==
    /\ Out(stored) /\ Out(shown.token)
    /\ \A t \in dropped : Out(t)
    /\ \A i \in InFlight : Out(tasks[i].token)
    /\ stored \notin dropped

Hydrating == \E i \in InFlight : tasks[i].kind = "hydrate" /\ tasks[i].phase \in {"asked", "answered"}
Balancing == \E i \in InFlight : tasks[i].phase = "balance"

SessionInOrder ==
    ~overtaken =>
        /\ \A i \in InFlight : tasks[i].addr = adapter
        /\ \A i \in Reading, j \in InFlight : i = j
        /\ shown # Nothing => stored = shown.token /\ shown.token \in ClientTokens
        /\ \A i \in InFlight : tasks[i].phase \in {"asked", "answered"} =>
              stored = tasks[i].token /\ (tasks[i].kind = "refresh" => shown.token = tasks[i].token)
        /\ Hydrating \/ shown = Nothing \/ (shown.token[1] = adapter /\ shown.profile = adapter)

BalanceInOrder ==
    ~overtaken =>
        /\ Hydrating \/ Balancing \/ shown = Nothing \/ panel.balance \in {adapter, NoWallet}
        /\ adapter = NoWallet => panel.balance = NoWallet

ProofInOrder ==
    ~unproven /\ panel.signature # NoSignature =>
        /\ \A i \in InFlight : tasks[i].phase \in SignedPhases => i = panel.signature
        /\ \/ overtaken \/ stored = NoToken \/ stored[2] = panel.signature
           \/ panel.signature \in InFlight /\ tasks[panel.signature].phase \in SignedPhases

PanelFits ==
    /\ panel \in [signature : Nat, error : BOOLEAN, rows : Seq([wallet : Accounts, signature : Nat]),
                  balance : Holders, loading : BOOLEAN]
    /\ unproven \in BOOLEAN
    /\ \A n \in 1..Len(panel.rows) : panel.rows[n].signature \in signatures[panel.rows[n].wallet]
    /\ machine = "balance_loading" => panel.loading

WalletSound ==
    TaskTypes /\ TasksFit /\ TokensAreOut /\ SessionInOrder /\ BalanceInOrder /\ ProofInOrder /\ PanelFits

LEMMA NoTokenIsNone ==
  /\ NoToken \notin ClientTokens /\ NoWallet \notin Accounts /\ MaxTasks \in Nat
  /\ \A t \in ClientTokens : t[1] \in Accounts /\ t[2] \in 1..MaxTasks /\ t # NoToken /\ t = <<t[1], t[2]>>
  /\ Nothing.token = NoToken /\ Nothing.profile = NoWallet
  BY WalletClientAssumption DEF ClientTokens, NoToken, NoWallet, Nothing

LEMMA TasksAre ==
  ASSUME TaskTypes
  PROVE  /\ DOMAIN tasks = 1..Len(tasks) /\ Len(tasks) \in Nat
         /\ \A i \in InFlight : i \in DOMAIN tasks /\ tasks[i] \in TaskSet
         /\ \A t \in TaskSet : t # Ended
         /\ \A i \in DOMAIN tasks : i \notin InFlight => tasks[i] = Ended
<1>1. DOMAIN tasks = 1..Len(tasks) /\ Len(tasks) \in Nat /\ \A i \in DOMAIN tasks : tasks[i] \in TaskSet \cup {Ended}
  BY DEF TaskTypes
<1>2. \A t \in TaskSet : t # Ended
 <2> SUFFICES ASSUME NEW t \in TaskSet, t = Ended
              PROVE  FALSE
   OBVIOUS
 <2>1. t.phase # "ended" /\ Ended.phase = "ended" BY DEF TaskSet, SignPhases, Ended
 <2> QED BY <2>1
<1> QED BY <1>1, <1>2 DEF InFlight

\* A task begins.
LEMMA TaskAppended ==
  ASSUME TaskTypes, NEW t \in TaskSet, Len(tasks) < MaxTasks, tasks' = Append(tasks, t)
  PROVE  LET n == Len(tasks) + 1 IN
         /\ tasks' \in Seq(TaskSet \cup {Ended}) /\ Len(tasks') <= MaxTasks /\ n \in 1..MaxTasks
         /\ n \notin DOMAIN tasks /\ DOMAIN tasks' = DOMAIN tasks \cup {n} /\ tasks'[n] = t
         /\ \A j \in DOMAIN tasks : tasks'[j] = tasks[j]
         /\ InFlight' = InFlight \cup {n}
<1> DEFINE n == Len(tasks) + 1
           new == Append(tasks, t)
<1>1. tasks \in Seq(TaskSet \cup {Ended}) /\ MaxTasks \in Nat BY NoTokenIsNone DEF TaskTypes
<1>2. /\ new \in Seq(TaskSet \cup {Ended}) /\ Len(new) = n /\ DOMAIN new = 1..n /\ new[n] = t
      /\ \A j \in 1..Len(tasks) : new[j] = tasks[j]
  BY <1>1
<1>3. DOMAIN tasks = 1..Len(tasks) /\ Len(tasks) \in Nat /\ t # Ended BY TasksAre
<1>4. n \in 1..MaxTasks /\ n \notin DOMAIN tasks /\ 1..n = DOMAIN tasks \cup {n} BY <1>1, <1>3
<1> HIDE DEF n, new
<1>5. InFlight' = InFlight \cup {n} BY <1>2, <1>3, <1>4 DEF InFlight, new
<1> QED BY <1>2, <1>3, <1>4, <1>5 DEF n, new

\* A task goes on, or ends.
LEMMA TaskChanged ==
  ASSUME TaskTypes, NEW i \in InFlight, NEW t \in TaskSet \cup {Ended}, tasks' = [tasks EXCEPT ![i] = t]
  PROVE  /\ tasks' \in Seq(TaskSet \cup {Ended}) /\ Len(tasks') = Len(tasks) /\ DOMAIN tasks' = DOMAIN tasks
         /\ tasks'[i] = t /\ \A j \in DOMAIN tasks \ {i} : tasks'[j] = tasks[j]
         /\ InFlight' = IF t = Ended THEN InFlight \ {i} ELSE InFlight
<1>1. tasks \in Seq(TaskSet \cup {Ended}) /\ i \in DOMAIN tasks BY TasksAre DEF TaskTypes
<1>2. /\ tasks' \in Seq(TaskSet \cup {Ended}) /\ Len(tasks') = Len(tasks) /\ DOMAIN tasks' = DOMAIN tasks
      /\ tasks'[i] = t /\ \A j \in DOMAIN tasks \ {i} : tasks'[j] = tasks[j]
  BY <1>1
<1>3. InFlight' = {j \in DOMAIN tasks : tasks'[j] # Ended} BY <1>2 DEF InFlight
<1> QED BY <1>1, <1>2, <1>3 DEF InFlight

LEMMA TaskMoved ==
  ASSUME TaskTypes, NEW i \in InFlight, NEW phase \in SignPhases \cup {"balance", "asked", "answered", "logout", "left", "leaving"},
         Moves(i, phase)
  PROVE  /\ tasks' \in Seq(TaskSet \cup {Ended}) /\ Len(tasks') = Len(tasks) /\ DOMAIN tasks' = DOMAIN tasks
         /\ tasks'[i] \in TaskSet /\ tasks'[i].phase = phase /\ tasks'[i].kind = tasks[i].kind
         /\ tasks'[i].addr = tasks[i].addr /\ tasks'[i].token = tasks[i].token /\ tasks'[i].got = tasks[i].got
         /\ \A j \in DOMAIN tasks \ {i} : tasks'[j] = tasks[j]
         /\ InFlight' = InFlight
<1> DEFINE t == [tasks[i] EXCEPT !.phase = phase]
<1>1. tasks[i] \in TaskSet BY TasksAre
<1>2. t \in TaskSet /\ t.phase = phase /\ t.kind = tasks[i].kind /\ t.addr = tasks[i].addr
      /\ t.token = tasks[i].token /\ t.got = tasks[i].got
  BY <1>1 DEF TaskSet
<1>3. tasks' = [tasks EXCEPT ![i] = t] BY DEF Moves
<1>4. t # Ended BY <1>2, TasksAre
<1> HIDE DEF t
<1>5. /\ tasks' \in Seq(TaskSet \cup {Ended}) /\ Len(tasks') = Len(tasks) /\ DOMAIN tasks' = DOMAIN tasks
      /\ tasks'[i] = t /\ \A j \in DOMAIN tasks \ {i} : tasks'[j] = tasks[j]
      /\ InFlight' = IF t = Ended THEN InFlight \ {i} ELSE InFlight
  BY <1>2, <1>3, TaskChanged
<1> QED BY <1>2, <1>4, <1>5

LEMMA TaskEnded ==
  ASSUME TaskTypes, NEW i \in InFlight, tasks' = Ends(i)
  PROVE  /\ tasks' \in Seq(TaskSet \cup {Ended}) /\ Len(tasks') = Len(tasks) /\ DOMAIN tasks' = DOMAIN tasks
         /\ \A j \in DOMAIN tasks \ {i} : tasks'[j] = tasks[j]
         /\ InFlight' = InFlight \ {i}
  BY TaskChanged DEF Ends

\* What a step leaves of the tasks under way: all but k are as they were.
Others(k) == \A j \in InFlight' \ {k} : j \in InFlight /\ tasks'[j] = tasks[j]

Asking(t) == t.phase \in {"asked", "answered"}

LEMMA TasksStayFit ==
  ASSUME TasksFit, NEW k, Others(k), \A a \in Accounts : signatures[a] \subseteq signatures'[a],
         k \in InFlight' => PhaseFits(tasks'[k]) /\ (tasks'[k].phase = "verified" => k \in signatures'[tasks'[k].addr])
  PROVE  TasksFit'
<1> SUFFICES ASSUME NEW j \in InFlight'
             PROVE  PhaseFits(tasks'[j]) /\ (tasks'[j].phase = "verified" => j \in signatures'[tasks'[j].addr])
  BY DEF TasksFit, PhaseFits
<1>1. CASE j = k BY <1>1
<1>2. CASE j # k BY <1>2 DEF Others, TasksFit, PhaseFits
<1> QED BY <1>1, <1>2

\* A token that is out stays out: no task signs again.
LEMMA OutStays ==
  ASSUME NEW k, Others(k), DOMAIN tasks \subseteq DOMAIN tasks',
         k \in InFlight' /\ k \in DOMAIN tasks /\ tasks'[k].phase \in SignPhases => SignsYet(k)
  PROVE  \A t : Out(t) => t = NoToken
                           \/ (t[2] \in DOMAIN tasks' /\ ~(t[2] \in InFlight' /\ tasks'[t[2]].phase \in SignPhases))
<1> SUFFICES ASSUME NEW j \in DOMAIN tasks, ~SignsYet(j)
             PROVE  j \in DOMAIN tasks' /\ ~(j \in InFlight' /\ tasks'[j].phase \in SignPhases)
  BY DEF Out
<1>1. CASE j = k BY <1>1
<1>2. CASE j # k BY <1>2 DEF Others, SignsYet
<1> QED BY <1>1, <1>2

LEMMA TokensStayOut ==
  ASSUME TaskTypes, TokensAreOut, NEW k, Others(k), DOMAIN tasks \subseteq DOMAIN tasks',
         k \in InFlight' /\ k \in DOMAIN tasks /\ tasks'[k].phase \in SignPhases => SignsYet(k),
         k \in InFlight' => tasks'[k].token \in {stored, shown.token} \/ (k \in InFlight /\ tasks'[k].token = tasks[k].token),
         stored' \in {stored, NoToken}, shown'.token \in {shown.token, NoToken} \/ \E j \in InFlight : shown'.token = tasks[j].token,
         \/ dropped' = dropped
         \/ stored' = NoToken /\ dropped' \subseteq ClientTokens
            /\ \A t \in dropped' : t \in dropped \/ \E j \in InFlight : t = tasks[j].token
  PROVE  TokensAreOut'
<1> DEFINE OutNow(t) == t = NoToken
                           \/ (t[2] \in DOMAIN tasks' /\ ~(t[2] \in InFlight' /\ tasks'[t[2]].phase \in SignPhases))
<1>1. \A t : Out(t) => OutNow(t) BY OutStays
<1>2. OutNow(NoToken) OBVIOUS
<1> HIDE DEF OutNow
<1>3. /\ Out(stored) /\ Out(shown.token) /\ stored \notin dropped
      /\ \A t \in dropped : Out(t)
      /\ \A j \in InFlight : Out(tasks[j].token)
  BY DEF TokensAreOut
<1>4. OutNow(stored') BY <1>1, <1>2, <1>3
<1>5. OutNow(shown'.token) BY <1>1, <1>2, <1>3
<1>6. \A t \in dropped' : OutNow(t) BY <1>1, <1>3
<1>7. ASSUME NEW j \in InFlight'
      PROVE  OutNow(tasks'[j].token) BY <1>1, <1>3, <1>7 DEF Others
<1>8. stored' \notin dropped' BY NoTokenIsNone, <1>3 DEF TaskTypes
<1> QED BY <1>4, <1>5, <1>6, <1>7, <1>8 DEF TokensAreOut, Out, SignsYet, OutNow

\* The session is left alone.
LEMMA SessionStays ==
  ASSUME SessionInOrder, NEW k, Others(k), overtaken' = overtaken, adapter' = adapter, shown' = shown, stored' = stored,
         k \in InFlight' => /\ k \in InFlight /\ tasks'[k].addr = tasks[k].addr /\ tasks'[k].kind = tasks[k].kind
                            /\ tasks'[k].token = tasks[k].token /\ (Asking(tasks'[k]) <=> Asking(tasks[k])),
         \A j \in InFlight : j \in InFlight' \/ ~Asking(tasks[j]) \/ tasks[j].kind = "refresh"
  PROVE  SessionInOrder' /\ (Hydrating => Hydrating')
<1>1. ASSUME NEW j \in InFlight'
      PROVE  /\ j \in InFlight /\ tasks'[j].addr = tasks[j].addr /\ tasks'[j].kind = tasks[j].kind
             /\ tasks'[j].token = tasks[j].token /\ (Asking(tasks'[j]) <=> Asking(tasks[j]))
  BY <1>1 DEF Others
<1>2. Hydrating => Hydrating'
 <2> SUFFICES ASSUME NEW j \in InFlight, tasks[j].kind = "hydrate", Asking(tasks[j])
              PROVE  Hydrating'
   BY DEF Hydrating, Asking
 <2>1. j \in InFlight' /\ tasks[j].kind # "refresh" OBVIOUS
 <2>2. tasks'[j].kind = "hydrate" /\ Asking(tasks'[j]) BY <1>1, <2>1
 <2> QED BY <2>1, <2>2 DEF Hydrating, Asking
<1> SUFFICES ASSUME ~overtaken
             PROVE  SessionInOrder'
  BY <1>2 DEF SessionInOrder
<1>3. /\ \A j \in InFlight : tasks[j].addr = adapter
      /\ \A i \in Reading, j \in InFlight : i = j
      /\ shown # Nothing => stored = shown.token /\ shown.token \in ClientTokens
      /\ \A j \in InFlight : Asking(tasks[j]) =>
            stored = tasks[j].token /\ (tasks[j].kind = "refresh" => shown.token = tasks[j].token)
      /\ Hydrating \/ shown = Nothing \/ (shown.token[1] = adapter /\ shown.profile = adapter)
  BY DEF SessionInOrder, Asking
<1>4. \A j \in InFlight' : tasks'[j].addr = adapter BY <1>1, <1>3
<1>5. \A i \in Reading', j \in InFlight' : i = j BY <1>1, <1>3 DEF Reading
<1>6. \A j \in InFlight' : Asking(tasks'[j]) =>
            stored = tasks'[j].token /\ (tasks'[j].kind = "refresh" => shown.token = tasks'[j].token)
  BY <1>1, <1>3
<1> QED BY <1>2, <1>3, <1>4, <1>5, <1>6 DEF SessionInOrder, Asking

\* The session is forgotten, or another is shown: no other task reads.
LEMMA SessionChanges ==
  ASSUME NEW k, Others(k), adapter' = adapter,
         ~overtaken' => /\ ~overtaken /\ SessionInOrder /\ \A j \in InFlight' \ {k} : j \notin Reading
                        /\ k \in InFlight' => tasks'[k].addr = adapter /\ ~Asking(tasks'[k])
                        /\ k \in InFlight' /\ tasks'[k].kind \in {"hydrate", "refresh"} => InFlight' = {k}
                        /\ \/ shown' = Nothing
                           \/ /\ shown'.token = stored' /\ shown'.token \in ClientTokens
                              /\ shown'.token[1] = adapter /\ shown'.profile = adapter,
         TasksFit'
  PROVE  SessionInOrder'
<1> SUFFICES ASSUME ~overtaken'
             PROVE  /\ \A j \in InFlight' : tasks'[j].addr = adapter
                    /\ \A i \in Reading', j \in InFlight' : i = j
                    /\ shown' # Nothing => stored' = shown'.token /\ shown'.token \in ClientTokens
                    /\ \A j \in InFlight' : ~Asking(tasks'[j])
                    /\ shown' = Nothing \/ (shown'.token[1] = adapter /\ shown'.profile = adapter)
  BY DEF SessionInOrder, Asking
<1>1. /\ SessionInOrder /\ ~overtaken /\ \A j \in InFlight' \ {k} : j \notin Reading OBVIOUS
<1>2. ASSUME NEW j \in InFlight' \ {k}
      PROVE  /\ tasks'[j].addr = adapter /\ ~Asking(tasks'[j]) /\ j \notin Reading'
 <2>1. j \in InFlight /\ tasks'[j] = tasks[j] BY DEF Others
 <2>2. tasks[j].addr = adapter BY <1>1, <2>1 DEF SessionInOrder
 <2>3. tasks[j].kind \notin {"hydrate", "refresh"} BY <1>1, <2>1 DEF Reading
 <2>4. Asking(tasks'[j]) => tasks'[j].kind \in {"hydrate", "refresh"} BY DEF TasksFit, PhaseFits, Asking
 <2> QED BY <2>1, <2>2, <2>3, <2>4 DEF Reading
<1>3. \A i \in Reading', j \in InFlight' : i = j
 <2> SUFFICES ASSUME NEW i \in Reading', NEW j \in InFlight'
              PROVE  i = j
   OBVIOUS
 <2>1. i \in InFlight' /\ i = k /\ tasks'[k].kind \in {"hydrate", "refresh"} BY <1>2 DEF Reading
 <2> QED BY <2>1
<1> QED BY <1>2, <1>3

\* A task begins with what is shown; or the extension's account changes.
LEMMA SessionBegins ==
  ASSUME SessionInOrder, TasksFit', NEW n, n \notin InFlight, Others(n), InFlight' = InFlight \cup {n},
         adapter' = adapter, shown' = shown, stored' = stored,
         tasks'[n].addr = adapter, tasks'[n].token = shown.token, Asking(tasks'[n]) => tasks'[n].kind = "refresh",
         ~overtaken' => ~overtaken /\ Reading = {} /\ (tasks'[n].kind = "refresh" => InFlight = {} /\ shown.token # NoToken),
         tasks'[n].kind # "hydrate"
  PROVE  SessionInOrder'
<1> SUFFICES ASSUME ~overtaken'
             PROVE  SessionInOrder'
  BY DEF SessionInOrder
<1>1. /\ \A j \in InFlight : tasks[j].addr = adapter
      /\ shown # Nothing => stored = shown.token /\ shown.token \in ClientTokens
      /\ Hydrating \/ shown = Nothing \/ (shown.token[1] = adapter /\ shown.profile = adapter)
      /\ Reading = {} /\ (tasks'[n].kind = "refresh" => InFlight = {} /\ shown.token # NoToken)
  BY DEF SessionInOrder
<1>2. ~Hydrating BY <1>1 DEF Hydrating, Reading
<1>3. ASSUME NEW j \in InFlight' \ {n}
      PROVE  tasks'[j].addr = adapter /\ ~Asking(tasks'[j]) /\ j \notin Reading'
  BY <1>1 DEF Others, Reading, TasksFit, PhaseFits, Asking
<1>4. \A j \in InFlight' : tasks'[j].addr = adapter BY <1>3
<1>5. \A i \in Reading', j \in InFlight' : i = j
 <2> SUFFICES ASSUME NEW i \in Reading', NEW j \in InFlight'
              PROVE  i = j
   OBVIOUS
 <2>1. i \in InFlight' /\ i = n /\ tasks'[n].kind \in {"hydrate", "refresh"} BY <1>3 DEF Reading
 <2>2. InFlight' = {n} BY <1>1, <2>1
 <2> QED BY <2>1, <2>2
<1>6. \A j \in InFlight' : Asking(tasks'[j]) =>
            stored = tasks'[j].token /\ (tasks'[j].kind = "refresh" => shown.token = tasks'[j].token)
 <2> SUFFICES ASSUME Asking(tasks'[n])
              PROVE  stored = tasks'[n].token /\ shown.token = tasks'[n].token
   BY <1>3
 <2>1. shown.token # NoToken BY <1>1
 <2>2. shown # Nothing BY <2>1, NoTokenIsNone
 <2> QED BY <1>1, <2>2
<1> QED BY <1>1, <1>2, <1>4, <1>5, <1>6 DEF SessionInOrder, Asking

LEMMA SessionAdapts ==
  ASSUME TaskTypes, SessionInOrder, NEW n, NEW w \in Holders, InFlight' \ {n} = {}, adapter' = w, stored' = stored,
         shown' = (IF w = NoWallet THEN Nothing ELSE shown),
         n \in InFlight' => /\ tasks'[n].addr = w /\ tasks'[n].kind = "hydrate" /\ tasks'[n].phase = "asked"
                            /\ tasks'[n].token = stored,
         n \notin InFlight' => w = NoWallet \/ stored = NoToken,
         ~overtaken' => ~overtaken
  PROVE  SessionInOrder'
<1> SUFFICES ASSUME ~overtaken'
             PROVE  SessionInOrder'
  BY DEF SessionInOrder
<1>1. shown # Nothing => stored = shown.token /\ shown.token \in ClientTokens BY DEF SessionInOrder
<1>2. \A j \in InFlight' : j = n OBVIOUS
<1>3. n \in InFlight' => Hydrating' BY DEF Hydrating
<1>4. n \notin InFlight' => shown' = Nothing BY <1>1, NoTokenIsNone
<1>5. shown' # Nothing => stored' = shown'.token /\ shown'.token \in ClientTokens BY <1>1
<1>6. /\ \A j \in InFlight' : tasks'[j].addr = adapter'
      /\ \A j \in InFlight' : Asking(tasks'[j]) =>
           stored' = tasks'[j].token /\ (tasks'[j].kind = "refresh" => shown'.token = tasks'[j].token)
  BY <1>2 DEF Asking
<1>7. \A i \in Reading', j \in InFlight' : i = j BY <1>2 DEF Reading
<1> QED BY <1>3, <1>4, <1>5, <1>6, <1>7 DEF SessionInOrder, Asking

\* The balance.
LEMMA BalanceStays ==
  ASSUME BalanceInOrder, adapter' = adapter, ~overtaken' => ~overtaken,
         ~overtaken' =>
           \/ panel'.balance \in {NoWallet, adapter}
           \/ /\ panel'.balance = panel.balance
              /\ shown' = Nothing \/ Balancing' \/ Hydrating' \/ (shown' = shown /\ ~Balancing /\ ~Hydrating)
  PROVE  BalanceInOrder'
  BY DEF BalanceInOrder

\* The proof: a signature that is pending stays so, is disowned or is left.
LEMMA ProofStays ==
  ASSUME ProofInOrder, NEW k, Others(k), unproven => unproven', overtaken => overtaken',
         panel'.signature \in {panel.signature, NoSignature}, stored' \in {stored, NoToken},
         k \in InFlight' /\ tasks'[k].phase \in SignedPhases => k \in InFlight /\ tasks[k].phase \in SignedPhases,
         \A j \in InFlight : tasks[j].phase \in SignedPhases =>
            (j \in InFlight' /\ tasks'[j].phase \in SignedPhases) \/ unproven' \/ j # panel.signature
  PROVE  ProofInOrder'
<1> SUFFICES ASSUME ~unproven', panel'.signature # NoSignature
             PROVE  /\ \A j \in InFlight' : tasks'[j].phase \in SignedPhases => j = panel'.signature
                    /\ \/ overtaken' \/ stored' = NoToken \/ stored'[2] = panel'.signature
                       \/ panel'.signature \in InFlight' /\ tasks'[panel'.signature].phase \in SignedPhases
  BY DEF ProofInOrder
<1>1. panel'.signature = panel.signature /\ ~unproven OBVIOUS
<1>2. /\ \A j \in InFlight : tasks[j].phase \in SignedPhases => j = panel.signature
      /\ \/ overtaken \/ stored = NoToken \/ stored[2] = panel.signature
         \/ panel.signature \in InFlight /\ tasks[panel.signature].phase \in SignedPhases
  BY <1>1 DEF ProofInOrder
<1>3. \A j \in InFlight' : tasks'[j].phase \in SignedPhases => j \in InFlight /\ tasks[j].phase \in SignedPhases
  BY DEF Others
<1> QED BY <1>1, <1>2, <1>3

SignaturesGrow == \A a \in Accounts : signatures[a] \subseteq signatures'[a]

PanelSet == [signature : Nat, error : BOOLEAN, rows : Seq([wallet : Accounts, signature : Nat]),
             balance : Holders, loading : BOOLEAN]

LEMMA OneOfList ==
  ASSUME NEW S, NEW s \in Seq(S), NEW i \in 1..Len(s)
  PROVE  s[i] \in S
  OBVIOUS

LEMMA PanelStays ==
  ASSUME PanelFits, SignaturesGrow, panel' \in PanelSet, unproven' \in BOOLEAN, panel'.rows \in {panel.rows, <<>>},
         machine' = "balance_loading" => panel'.loading
  PROVE  PanelFits'
<1>1. ASSUME NEW n \in 1..Len(panel'.rows)
      PROVE  panel'.rows[n].signature \in signatures'[panel'.rows[n].wallet]
 <2>1. panel'.rows = panel.rows BY <1>1
 <2>2. panel.rows \in Seq([wallet : Accounts, signature : Nat]) BY DEF PanelFits
 <2>3. n \in 1..Len(panel.rows) /\ panel.rows[n].wallet \in Accounts
  <3>1. n \in 1..Len(panel.rows) BY <1>1, <2>1
  <3>2. panel.rows[n] \in [wallet : Accounts, signature : Nat] BY <2>2, <3>1, OneOfList
  <3> QED BY <3>1, <3>2
 <2>4. panel.rows[n].signature \in signatures[panel.rows[n].wallet] BY <2>3 DEF PanelFits
 <2> QED BY <2>1, <2>3, <2>4 DEF SignaturesGrow
<1> QED BY <1>1 DEF PanelFits, PanelSet

\* One task goes on, or ends.
TaskGoesOn(i) ==
    /\ tasks' \in Seq(TaskSet \cup {Ended}) /\ Len(tasks') = Len(tasks) /\ DOMAIN tasks' = DOMAIN tasks
    /\ \A j \in DOMAIN tasks \ {i} : tasks'[j] = tasks[j]
    /\ InFlight' \subseteq InFlight /\ InFlight \ {i} \subseteq InFlight'

ServerFits ==
    /\ signatures \in [Accounts -> SUBSET Nat]
    /\ \A t \in DOMAIN sessions : t \in ClientTokens /\ sessions[t] \in SessionOf(t)

LEMMA OthersStay ==
  ASSUME TaskTypes, NEW i, TaskGoesOn(i)
  PROVE  Others(i) /\ \A j \in InFlight \ {i} : j \in InFlight' /\ tasks'[j] = tasks[j]
<1>1. \A j \in InFlight : j \in DOMAIN tasks BY TasksAre
<1> QED BY <1>1 DEF TaskGoesOn, Others

LEMMA TypesStay ==
  ASSUME TaskTypes, NEW i, TaskGoesOn(i), ServerFits', overtaken' = overtaken, adapter' = adapter,
         shown' \in [token : Bearers, profile : Holders], stored' \in Bearers, dropped' \subseteq ClientTokens
  PROVE  TaskTypes'
  BY DEF TaskTypes, TaskGoesOn, ServerFits

\* It tells the server, is answered or fails, and leaves the session alone.
LEMMA QuietStep ==
  ASSUME WalletSound, NEW i \in InFlight, TaskGoesOn(i), ServerFits', SignaturesGrow,
         UNCHANGED <<adapter, shown, stored, overtaken, dropped>>,
         i \in InFlight' => /\ tasks'[i].addr = tasks[i].addr /\ tasks'[i].kind = tasks[i].kind
                            /\ tasks'[i].token = tasks[i].token /\ (Asking(tasks'[i]) <=> Asking(tasks[i]))
                            /\ PhaseFits(tasks'[i])
                            /\ tasks'[i].phase = "verified" => i \in signatures'[tasks'[i].addr]
                            /\ tasks'[i].phase \in SignPhases => tasks[i].phase \in SignPhases,
         i \in InFlight' \/ ~Asking(tasks[i]) \/ tasks[i].kind = "refresh",
         \/ panel'.balance \in {tasks[i].addr, NoWallet}
         \/ /\ panel'.balance = panel.balance /\ tasks[i].phase # "balance"
            /\ i \in InFlight' => tasks'[i].phase # "balance"
  PROVE  TaskTypes' /\ TasksFit' /\ TokensAreOut' /\ SessionInOrder' /\ BalanceInOrder'
<1>1. TaskTypes /\ TasksFit /\ TokensAreOut /\ SessionInOrder /\ BalanceInOrder BY DEF WalletSound
<1>2. Others(i) /\ \A j \in InFlight \ {i} : j \in InFlight' /\ tasks'[j] = tasks[j] BY <1>1, OthersStay
<1>3. TaskTypes' BY <1>1, TypesStay DEF TaskTypes
<1>4. TasksFit' BY <1>1, <1>2, TasksStayFit DEF SignaturesGrow
<1>5. TokensAreOut'
 <2>1. DOMAIN tasks \subseteq DOMAIN tasks' BY DEF TaskGoesOn
 <2>2. i \in InFlight' /\ i \in DOMAIN tasks /\ tasks'[i].phase \in SignPhases => SignsYet(i) BY DEF SignsYet
 <2>3. i \in InFlight' => tasks'[i].token \in {stored, shown.token} \/ (i \in InFlight /\ tasks'[i].token = tasks[i].token)
   OBVIOUS
 <2>4. stored' \in {stored, NoToken} /\ shown'.token \in {shown.token, NoToken} /\ dropped' = dropped OBVIOUS
 <2> QED BY <1>1, <1>2, <2>1, <2>2, <2>3, <2>4, TokensStayOut
<1>6. SessionInOrder' /\ (Hydrating => Hydrating') BY <1>2, <1>1, SessionStays
<1>7. BalanceInOrder'
 <2>1. CASE panel'.balance \in {tasks[i].addr, NoWallet} BY <1>1, <2>1, BalanceStays DEF SessionInOrder
 <2>2. CASE panel'.balance = panel.balance /\ tasks[i].phase # "balance"
  <3>1. Balancing => Balancing'
   <4> SUFFICES ASSUME NEW j \in InFlight, tasks[j].phase = "balance"
                PROVE  Balancing'
     BY DEF Balancing
   <4>1. j \in InFlight' /\ tasks'[j] = tasks[j] BY <1>2, <2>2
   <4> QED BY <4>1 DEF Balancing
  <3> QED BY <1>1, <1>6, <2>2, <3>1, BalanceStays
 <2> QED BY <2>1, <2>2
<1> QED BY <1>3, <1>4, <1>5, <1>6, <1>7

\* The tasks' own steps that leave the session alone.
LEMMA MovesOn ==
  ASSUME TaskTypes, NEW i \in InFlight, NEW phase \in SignPhases \cup {"balance", "asked", "answered", "logout", "left", "leaving"},
         Moves(i, phase)
  PROVE  /\ TaskGoesOn(i) /\ i \in InFlight' /\ tasks'[i] \in TaskSet /\ tasks'[i].phase = phase
         /\ tasks'[i].kind = tasks[i].kind /\ tasks'[i].addr = tasks[i].addr
         /\ tasks'[i].token = tasks[i].token /\ tasks'[i].got = tasks[i].got
  BY TaskMoved DEF TaskGoesOn

LEMMA EndsNow ==
  ASSUME TaskTypes, NEW i \in InFlight, tasks' = Ends(i)
  PROVE  TaskGoesOn(i) /\ i \notin InFlight'
  BY TaskEnded DEF TaskGoesOn

LEMMA UnderWay ==
  ASSUME NEW i \in DOMAIN tasks, tasks[i].phase # "ended"
  PROVE  i \in InFlight
  BY DEF InFlight, Ended

LEMMA ServerStays ==
  ASSUME TaskTypes, sessions' = sessions, signatures' = signatures
  PROVE  ServerFits' /\ SignaturesGrow
  BY DEF TaskTypes, ServerFits, SignaturesGrow

LEMMA PanelsStay ==
  ASSUME WalletSound, NEW i, Others(i), SignaturesGrow, UNCHANGED panelVars, UNCHANGED machine,
         overtaken' = overtaken, stored' \in {stored, NoToken},
         i \in InFlight' /\ tasks'[i].phase \in SignedPhases => i \in InFlight /\ tasks[i].phase \in SignedPhases,
         \A j \in InFlight : tasks[j].phase \in SignedPhases => j \in InFlight' /\ tasks'[j].phase \in SignedPhases
  PROVE  ProofInOrder' /\ PanelFits'
<1>1. ProofInOrder /\ PanelFits BY DEF WalletSound
<1>2. panel' = panel /\ unproven' = unproven BY DEF panelVars
<1>3. ProofInOrder' BY <1>1, <1>2, ProofStays
<1>4. panel \in PanelSet /\ unproven \in BOOLEAN /\ (machine = "balance_loading" => panel.loading)
  BY <1>1 DEF PanelFits, PanelSet
<1>5. PanelFits' BY <1>1, <1>2, <1>4, PanelStays
<1> QED BY <1>3, <1>5

LEMMA NonceKeeps ==
  ASSUME WalletSound, NEW i \in DOMAIN tasks, NonceAnswers(i), UNCHANGED panelVars
  PROVE  WalletSound'
<1>1. /\ tasks[i].phase = "nonce" /\ Moves(i, "signature") /\ UNCHANGED <<adapter, machine, shown, stored, overtaken, dropped>>
      /\ sessions' = sessions /\ signatures' = signatures
  BY DEF NonceAnswers, Server!IssueNonce
<1>2. TaskTypes /\ i \in InFlight BY <1>1, UnderWay DEF WalletSound
<1>3. /\ TaskGoesOn(i) /\ i \in InFlight' /\ tasks'[i].phase = "signature" /\ tasks'[i].kind = tasks[i].kind
      /\ tasks'[i].addr = tasks[i].addr /\ tasks'[i].token = tasks[i].token
  BY <1>1, <1>2, MovesOn DEF SignPhases
<1>4. PhaseFits(tasks[i]) BY <1>2 DEF WalletSound, TasksFit
<1>5. PhaseFits(tasks'[i]) BY <1>1, <1>3, <1>4 DEF PhaseFits, SignPhases
<1>6. ServerFits' /\ SignaturesGrow BY <1>1, <1>2, ServerStays
<1>7. panel' = panel BY DEF panelVars
<1>8. TaskTypes' /\ TasksFit' /\ TokensAreOut' /\ SessionInOrder' /\ BalanceInOrder'
  BY <1>1, <1>2, <1>3, <1>5, <1>6, <1>7, QuietStep DEF Asking, SignPhases
<1>9. Others(i) /\ \A j \in InFlight \ {i} : j \in InFlight' /\ tasks'[j] = tasks[j] BY <1>2, <1>3, OthersStay
<1>10. ProofInOrder' /\ PanelFits' BY <1>1, <1>3, <1>6, <1>9, PanelsStay DEF SignedPhases
<1> QED BY <1>8, <1>10 DEF WalletSound

LEMMA VerificationKeeps ==
  ASSUME WalletSound, NEW i \in DOMAIN tasks, VerifyAnswers(i), UNCHANGED panelVars
  PROVE  WalletSound'
<1> DEFINE a == tasks[i].addr
           t == <<a, i>>
<1>1. /\ tasks[i].phase = "verify" /\ Moves(i, "verified") /\ UNCHANGED <<adapter, machine, shown, stored, overtaken, dropped>>
      /\ signatures' = signatures /\ i \in signatures[a]
      /\ sessions' = Server!Holding(Server!OtherSessions(a), t, [wallet |-> a, nonceId |-> i, expiresAt |-> 0])
  BY DEF VerifyAnswers, Server!VerifySession, Server!Accepts
<1>2. TaskTypes /\ i \in InFlight BY <1>1, UnderWay DEF WalletSound
<1>3. /\ TaskGoesOn(i) /\ i \in InFlight' /\ tasks'[i].phase = "verified" /\ tasks'[i].kind = tasks[i].kind
      /\ tasks'[i].addr = tasks[i].addr /\ tasks'[i].token = tasks[i].token
  BY <1>1, <1>2, MovesOn DEF SignPhases
<1>4. PhaseFits(tasks[i]) BY <1>2 DEF WalletSound, TasksFit
<1>5. PhaseFits(tasks'[i]) BY <1>1, <1>3, <1>4 DEF PhaseFits, SignPhases
<1>6. a \in Accounts /\ i \in 1..MaxTasks BY <1>1, <1>4, <1>2, TasksAre, NoTokenIsNone DEF PhaseFits, TaskTypes
<1>7. ServerFits' /\ SignaturesGrow
 <2> DEFINE old == Server!OtherSessions(a)
            row == [wallet |-> a, nonceId |-> i, expiresAt |-> 0]
 <2>1. \A u \in DOMAIN old : u \in DOMAIN sessions /\ old[u] = sessions[u] BY DEF Server!OtherSessions, Server!Without
 <2>2. t \in ClientTokens /\ row \in SessionOf(t) BY <1>6 DEF ClientTokens, SessionOf
 <2> HIDE DEF old, row, t
 <2>3. \A u \in DOMAIN sessions' : IF u = t THEN sessions'[u] = row ELSE u \in DOMAIN old /\ sessions'[u] = old[u]
   BY <1>1 DEF old, row, t, Server!Holding
 <2>4. \A u \in DOMAIN sessions : u \in ClientTokens /\ sessions[u] \in SessionOf(u) BY <1>2 DEF TaskTypes
 <2>5. \A u \in DOMAIN sessions' : u \in ClientTokens /\ sessions'[u] \in SessionOf(u) BY <2>1, <2>2, <2>3, <2>4
 <2> QED BY <1>1, <1>2, <2>5 DEF ServerFits, SignaturesGrow, TaskTypes
<1>8. panel' = panel BY DEF panelVars
<1>9. i \in signatures'[tasks'[i].addr] BY <1>1, <1>3
<1>10. TaskTypes' /\ TasksFit' /\ TokensAreOut' /\ SessionInOrder' /\ BalanceInOrder'
  BY <1>1, <1>2, <1>3, <1>5, <1>7, <1>8, <1>9, QuietStep DEF Asking, SignPhases
<1>11. Others(i) /\ \A j \in InFlight \ {i} : j \in InFlight' /\ tasks'[j] = tasks[j] BY <1>2, <1>3, OthersStay
<1>12. ProofInOrder' /\ PanelFits' BY <1>1, <1>2, <1>3, <1>7, <1>11, PanelsStay DEF SignedPhases
<1> QED BY <1>10, <1>12 DEF WalletSound

LEMMA AnswerKeeps ==
  ASSUME WalletSound, NEW i \in DOMAIN tasks, SessionAnswers(i), UNCHANGED panelVars
  PROVE  WalletSound'
<1> DEFINE t == tasks[i].token
           new == [tasks[i] EXCEPT !.phase = "answered", !.got = sessions[t].wallet]
<1>1. /\ tasks[i].phase = "asked" /\ t \in DOMAIN sessions
      /\ UNCHANGED <<adapter, machine, shown, stored, overtaken, dropped>>
      /\ tasks' = [tasks EXCEPT ![i].phase = "answered", ![i].got = sessions[t].wallet]
      /\ signatures' = signatures
      /\ sessions' = sessions \/ sessions' = [sessions EXCEPT ![t].expiresAt = 0]
  BY DEF SessionAnswers, Server!RefreshSession, serverVars
<1>2. TaskTypes /\ i \in InFlight BY <1>1, UnderWay DEF WalletSound
<1>3. tasks[i] \in TaskSet /\ t \in ClientTokens /\ sessions[t].wallet = t[1] /\ t[1] \in Accounts
  BY <1>1, <1>2, TasksAre, NoTokenIsNone DEF TaskTypes, SessionOf
<1>4. /\ new \in TaskSet /\ new.phase = "answered" /\ new.got = t[1] /\ new.kind = tasks[i].kind
      /\ new.addr = tasks[i].addr /\ new.token = t
  BY <1>3 DEF TaskSet, Holders
<1>5. tasks' = [tasks EXCEPT ![i] = new] BY <1>1
<1> HIDE DEF new
<1>6. /\ TaskGoesOn(i) /\ i \in InFlight' /\ tasks'[i] = new BY <1>2, <1>4, <1>5, TaskChanged, TasksAre DEF TaskGoesOn
<1>7. PhaseFits(tasks[i]) BY <1>2 DEF WalletSound, TasksFit
<1>8. PhaseFits(tasks'[i]) BY <1>1, <1>3, <1>4, <1>6, <1>7 DEF PhaseFits, SignPhases
<1>9. ServerFits' /\ SignaturesGrow
 <2>1. \A u \in DOMAIN sessions : u \in ClientTokens /\ sessions[u] \in SessionOf(u) BY <1>2 DEF TaskTypes
 <2>2. \A u \in DOMAIN sessions' : u \in DOMAIN sessions /\ sessions'[u] \in SessionOf(u)
  <3>1. CASE sessions' = sessions BY <2>1, <3>1
  <3>2. CASE sessions' = [sessions EXCEPT ![t].expiresAt = 0]
   <4> SUFFICES ASSUME NEW u \in DOMAIN sessions
                PROVE  sessions'[u] \in SessionOf(u)
     BY <3>2
   <4>1. sessions'[u] = IF u = t THEN [sessions[u] EXCEPT !.expiresAt = 0] ELSE sessions[u] BY <3>2
   <4>2. sessions[u] \in SessionOf(u) BY <2>1
   <4>3. [sessions[u] EXCEPT !.expiresAt = 0] \in SessionOf(u) BY <4>2 DEF SessionOf
   <4> QED BY <4>1, <4>2, <4>3
  <3> QED BY <1>1, <3>1, <3>2
 <2> QED BY <1>1, <1>2, <2>1, <2>2 DEF ServerFits, SignaturesGrow, TaskTypes
<1>10. panel' = panel BY DEF panelVars
<1>11. TaskTypes' /\ TasksFit' /\ TokensAreOut' /\ SessionInOrder' /\ BalanceInOrder'
  BY <1>1, <1>2, <1>4, <1>6, <1>8, <1>9, <1>10, QuietStep DEF Asking, SignPhases
<1>12. Others(i) /\ \A j \in InFlight \ {i} : j \in InFlight' /\ tasks'[j] = tasks[j] BY <1>2, <1>6, OthersStay
<1>13. ProofInOrder' /\ PanelFits' BY <1>1, <1>4, <1>6, <1>9, <1>12, PanelsStay DEF SignedPhases
<1> QED BY <1>11, <1>13 DEF WalletSound

LEMMA LogoutKeeps ==
  ASSUME WalletSound, NEW i \in DOMAIN tasks, LogoutAnswers(i), UNCHANGED panelVars
  PROVE  WalletSound'
<1>1. /\ tasks[i].phase = "logout" /\ Moves(i, "left") /\ UNCHANGED <<adapter, machine, shown, stored, overtaken, dropped>>
      /\ sessions' = Server!Without(sessions, tasks[i].token) /\ signatures' = signatures
  BY DEF LogoutAnswers, Server!LogoutSession
<1>2. TaskTypes /\ i \in InFlight BY <1>1, UnderWay DEF WalletSound
<1>3. /\ TaskGoesOn(i) /\ i \in InFlight' /\ tasks'[i].phase = "left" /\ tasks'[i].kind = tasks[i].kind
      /\ tasks'[i].addr = tasks[i].addr /\ tasks'[i].token = tasks[i].token
  BY <1>1, <1>2, MovesOn DEF SignPhases
<1>4. PhaseFits(tasks[i]) BY <1>2 DEF WalletSound, TasksFit
<1>5. PhaseFits(tasks'[i]) BY <1>1, <1>3, <1>4 DEF PhaseFits, SignPhases
<1>6. ServerFits' /\ SignaturesGrow BY <1>1, <1>2 DEF Server!Without, ServerFits, SignaturesGrow, TaskTypes
<1>7. panel' = panel BY DEF panelVars
<1>8. TaskTypes' /\ TasksFit' /\ TokensAreOut' /\ SessionInOrder' /\ BalanceInOrder'
  BY <1>1, <1>2, <1>3, <1>5, <1>6, <1>7, QuietStep DEF Asking, SignPhases
<1>9. Others(i) /\ \A j \in InFlight \ {i} : j \in InFlight' /\ tasks'[j] = tasks[j] BY <1>2, <1>3, OthersStay
<1>10. ProofInOrder' /\ PanelFits' BY <1>1, <1>3, <1>6, <1>9, PanelsStay DEF SignedPhases
<1> QED BY <1>8, <1>10 DEF WalletSound

LEMMA SignKeeps ==
  ASSUME WalletSound, NEW i \in DOMAIN tasks, SignInSigns(i)
  PROVE  WalletSound'
<1>1. /\ tasks[i].phase = "signature" /\ Moves(i, "verify") /\ UNCHANGED <<adapter, shown, stored, overtaken, dropped>>
      /\ adapter # NoWallet /\ machine' = "session_verifying" /\ sessions' = sessions
      /\ signatures' = [signatures EXCEPT ![adapter] = @ \cup {i}]
      /\ panel' = [panel EXCEPT !.signature = i] /\ unproven' = (Signing # {i} \/ Signing' # {i})
  BY DEF SignInSigns, WalletSigns, Server!Sign
<1>2. TaskTypes /\ i \in InFlight /\ i \in Nat BY <1>1, UnderWay, TasksAre DEF WalletSound
<1>3. /\ TaskGoesOn(i) /\ i \in InFlight' /\ tasks'[i].phase = "verify" /\ tasks'[i].kind = tasks[i].kind
      /\ tasks'[i].addr = tasks[i].addr /\ tasks'[i].token = tasks[i].token
  BY <1>1, <1>2, MovesOn DEF SignPhases
<1>4. PhaseFits(tasks[i]) BY <1>2 DEF WalletSound, TasksFit
<1>5. PhaseFits(tasks'[i]) BY <1>1, <1>3, <1>4 DEF PhaseFits, SignPhases
<1>6. ServerFits' /\ SignaturesGrow BY <1>1, <1>2 DEF TaskTypes, Holders, ServerFits, SignaturesGrow
<1>7. panel \in PanelSet BY DEF WalletSound, PanelFits, PanelSet
<1>8. panel' \in PanelSet /\ panel'.signature = i /\ panel'.balance = panel.balance /\ panel'.rows = panel.rows
  BY <1>1, <1>2, <1>7 DEF PanelSet
<1>9. TaskTypes' /\ TasksFit' /\ TokensAreOut' /\ SessionInOrder' /\ BalanceInOrder'
  BY <1>1, <1>2, <1>3, <1>5, <1>6, <1>8, QuietStep DEF Asking, SignPhases
<1>10. ProofInOrder'
 <2> SUFFICES ASSUME Signing' = {i}
              PROVE  \A j \in InFlight' : tasks'[j].phase \in SignedPhases => j = i
   BY <1>1, <1>3, <1>8 DEF ProofInOrder, SignedPhases
 <2>1. ASSUME NEW j \in InFlight', tasks'[j].phase \in SignedPhases
       PROVE  j = i BY <1>9, <2>1 DEF TasksFit, PhaseFits, SignPhases, SignedPhases, Signing
 <2> QED BY <2>1
<1>11. PanelFits' BY <1>1, <1>6, <1>8, PanelStays DEF WalletSound
<1> QED BY <1>9, <1>10, <1>11 DEF WalletSound

LEMMA FailureKeeps ==
  ASSUME WalletSound, NEW i \in DOMAIN tasks, TaskFails(i)
  PROVE  WalletSound'
<1>1. /\ tasks[i] # Ended /\ tasks' = Ends(i) /\ machine' = "error"
      /\ \/ tasks[i].kind = "sign" /\ tasks[i].phase \in SignPhases
         \/ tasks[i].kind = "refresh" /\ Asking(tasks[i])
      /\ UNCHANGED <<adapter, shown, stored, overtaken, dropped>> /\ sessions' = sessions /\ signatures' = signatures
      /\ panel' = [panel EXCEPT !.error = TRUE] /\ unproven' = (unproven \/ panel.signature = i)
  BY DEF TaskFails, Fails, AfterError, serverVars, Asking, SignPhases
<1>2. TaskTypes /\ i \in InFlight BY <1>1 DEF WalletSound, InFlight
<1>3. TaskGoesOn(i) /\ i \notin InFlight' BY <1>1, <1>2, EndsNow
<1>4. ServerFits' /\ SignaturesGrow BY <1>1, <1>2, ServerStays
<1>5. panel \in PanelSet /\ unproven \in BOOLEAN BY DEF WalletSound, PanelFits, PanelSet
<1>6. /\ panel' \in PanelSet /\ panel'.signature = panel.signature /\ panel'.balance = panel.balance
      /\ panel'.rows = panel.rows
  BY <1>1, <1>5 DEF PanelSet
<1>7. TaskTypes' /\ TasksFit' /\ TokensAreOut' /\ SessionInOrder' /\ BalanceInOrder'
 <2>1. (~Asking(tasks[i]) \/ tasks[i].kind = "refresh") /\ tasks[i].phase # "balance" BY <1>1 DEF Asking, SignPhases
 <2> QED BY <1>1, <1>2, <1>3, <1>4, <1>6, <2>1, QuietStep
<1>8. ProofInOrder' BY <1>2, <1>3, OthersStay, <1>1, <1>6, ProofStays DEF WalletSound
<1>9. PanelFits' BY <1>1, <1>5, <1>4, <1>6, PanelStays DEF WalletSound
<1> QED BY <1>7, <1>8, <1>9 DEF WalletSound

LEMMA BalanceKeeps ==
  ASSUME WalletSound, NEW i \in DOMAIN tasks, NEW ok \in BOOLEAN, BalanceArrives(i, ok)
  PROVE  WalletSound'
<1>1. /\ tasks[i].phase = "balance" /\ tasks' = Ends(i) /\ machine' # "balance_loading"
      /\ UNCHANGED <<adapter, shown, stored, overtaken, dropped>> /\ sessions' = sessions /\ signatures' = signatures
      /\ panel' = [panel EXCEPT !.balance = BalanceShown(tasks[i].addr, ok), !.loading = FALSE] /\ unproven' = unproven
  BY DEF BalanceArrives, BalanceAnswers, serverVars, Shows
<1>2. TaskTypes /\ i \in InFlight BY <1>1, UnderWay DEF WalletSound
<1>3. TaskGoesOn(i) /\ i \notin InFlight' BY <1>1, <1>2, EndsNow
<1>4. ServerFits' /\ SignaturesGrow BY <1>1, <1>2, ServerStays
<1>5. panel \in PanelSet /\ unproven \in BOOLEAN BY DEF WalletSound, PanelFits, PanelSet
<1>6. BalanceShown(tasks[i].addr, ok) \in {tasks[i].addr, NoWallet} /\ BalanceShown(tasks[i].addr, ok) \in Holders
  BY <1>2, TasksAre DEF TaskSet, BalanceShown, Holders
<1>7. /\ panel' \in PanelSet /\ panel'.signature = panel.signature /\ panel'.rows = panel.rows
      /\ panel'.balance \in {tasks[i].addr, NoWallet}
  BY <1>1, <1>5, <1>6 DEF PanelSet
<1>8. TaskTypes' /\ TasksFit' /\ TokensAreOut' /\ SessionInOrder' /\ BalanceInOrder'
  BY <1>1, <1>2, <1>3, <1>4, <1>7, QuietStep DEF Asking
<1>9. ProofInOrder'
 <2>1. Others(i) /\ \A j \in InFlight \ {i} : j \in InFlight' /\ tasks'[j] = tasks[j] BY <1>2, <1>3, OthersStay
 <2>2. \A j \in InFlight : tasks[j].phase \in SignedPhases =>
           (j \in InFlight' /\ tasks'[j].phase \in SignedPhases) \/ unproven' \/ j # panel.signature
   BY <1>1, <2>1 DEF SignedPhases
 <2> QED BY <1>1, <1>3, <1>7, <2>1, <2>2, ProofStays DEF WalletSound
<1>10. PanelFits' BY <1>1, <1>4, <1>5, <1>7, PanelStays DEF WalletSound
<1> QED BY <1>8, <1>9, <1>10 DEF WalletSound

LEMMA HydrationFailureKeeps ==
  ASSUME WalletSound, NEW i \in DOMAIN tasks, HydrationFails(i), UNCHANGED panelVars
  PROVE  WalletSound'
<1>1. /\ tasks[i] # Ended /\ tasks[i].kind = "hydrate" /\ Asking(tasks[i]) /\ tasks' = Ends(i)
      /\ shown' = Nothing /\ stored' = NoToken /\ UNCHANGED <<adapter, machine, overtaken, dropped>>
      /\ sessions' = sessions /\ signatures' = signatures /\ panel' = panel
  BY DEF HydrationFails, serverVars, Asking, panelVars
<1>2. TaskTypes /\ i \in InFlight BY <1>1 DEF WalletSound, InFlight
<1>3. TaskGoesOn(i) /\ i \notin InFlight' BY <1>1, <1>2, EndsNow
<1>4. ServerFits' /\ SignaturesGrow BY <1>1, <1>2, ServerStays
<1>5. Others(i) /\ \A j \in InFlight \ {i} : j \in InFlight' /\ tasks'[j] = tasks[j] BY <1>2, <1>3, OthersStay
<1>6. shown'.token = NoToken /\ shown' \in [token : Bearers, profile : Holders] /\ stored' \in Bearers
  BY <1>1 DEF Nothing, Bearers, Holders
<1>7. TaskTypes' BY <1>1, <1>2, <1>3, <1>4, <1>6, TypesStay DEF TaskTypes
<1>8. TasksFit' BY <1>3, <1>4, <1>5, TasksStayFit DEF WalletSound, SignaturesGrow
<1>9. TokensAreOut'
 <2>1. DOMAIN tasks \subseteq DOMAIN tasks' /\ TokensAreOut BY <1>3 DEF TaskGoesOn, WalletSound
 <2> QED BY <1>1, <1>2, <1>3, <1>5, <1>6, <2>1, TokensStayOut
<1>10. SessionInOrder'
 <2>1. ASSUME ~overtaken
       PROVE  SessionInOrder /\ \A j \in InFlight' \ {i} : j \notin Reading
   BY <1>1, <1>2, <2>1 DEF WalletSound, Reading, SessionInOrder
 <2> QED BY <1>1, <1>3, <1>5, <1>8, <2>1, SessionChanges
<1>11. BalanceInOrder' BY <1>1, BalanceStays DEF WalletSound
<1>12. ProofInOrder' /\ PanelFits' BY <1>1, <1>5, <1>3, <1>4, PanelsStay DEF Asking, SignedPhases
<1> QED BY <1>7, <1>8, <1>9, <1>10, <1>11, <1>12 DEF WalletSound

\* A task that has what it asked for loads a balance.
LEMMA LoadsOn ==
  ASSUME TaskTypes, NEW i \in InFlight, LoadsBalance(i)
  PROVE  /\ TaskGoesOn(i) /\ Others(i)
         /\ \A j \in InFlight \ {i} : j \in InFlight' /\ tasks'[j] = tasks[j]
         /\ tasks[i].addr = NoWallet => i \notin InFlight' /\ machine' # "balance_loading"
         /\ tasks[i].addr # NoWallet => i \in InFlight'
         /\ i \in InFlight' => /\ tasks'[i].phase = "balance" /\ tasks'[i].kind = tasks[i].kind
                               /\ tasks'[i].addr = tasks[i].addr /\ tasks'[i].token = tasks[i].token
                               /\ tasks[i].addr # NoWallet
<1>1. CASE tasks[i].addr = NoWallet BY <1>1, EndsNow, OthersStay DEF LoadsBalance
<1>2. CASE tasks[i].addr # NoWallet BY <1>2, MovesOn, OthersStay DEF LoadsBalance
<1> QED BY <1>1, <1>2

LEMMA LoadsPanel ==
  ASSUME NEW p \in PanelSet, NEW a \in Holders
  PROVE  /\ LoadsFor(a, p) \in PanelSet /\ LoadsFor(a, p).signature = p.signature /\ LoadsFor(a, p).rows = p.rows
         /\ LoadsFor(a, p).balance = IF a = NoWallet THEN NoWallet ELSE p.balance
         /\ a # NoWallet => LoadsFor(a, p).loading
<1>1. CASE a = NoWallet BY <1>1 DEF LoadsFor, PanelSet, Holders
<1>2. CASE a # NoWallet BY <1>2 DEF LoadsFor, PanelSet
<1> QED BY <1>1, <1>2

LEMMA ShownKeeps ==
  ASSUME WalletSound, NEW i \in InFlight, LoadsBalance(i), UNCHANGED <<adapter, overtaken, dropped>>,
         sessions' = sessions, signatures' = signatures,
         shown' \in [token : Bearers, profile : Holders], stored' \in Bearers,
         ~overtaken => /\ shown'.token = stored' /\ shown'.token \in ClientTokens
                       /\ shown'.token[1] = adapter /\ shown'.profile = adapter,
         NEW p \in PanelSet, p.balance = panel.balance, panel' = LoadsFor(tasks[i].addr, p)
  PROVE  TaskTypes' /\ TasksFit' /\ SessionInOrder' /\ BalanceInOrder'
<1>1. TaskTypes /\ TasksFit /\ SessionInOrder /\ BalanceInOrder BY DEF WalletSound
<1>2. /\ TaskGoesOn(i) /\ Others(i)
      /\ tasks[i].addr = NoWallet => i \notin InFlight'
      /\ tasks[i].addr # NoWallet => i \in InFlight'
      /\ i \in InFlight' => /\ tasks'[i].phase = "balance" /\ tasks'[i].kind = tasks[i].kind
                            /\ tasks'[i].addr = tasks[i].addr
  BY <1>1, LoadsOn
<1>3. ServerFits' /\ SignaturesGrow BY <1>1, ServerStays
<1>4. TaskTypes' BY <1>1, <1>2, <1>3, TypesStay DEF TaskTypes
<1>5. TasksFit' BY <1>2, <1>1, <1>3, TasksStayFit DEF PhaseFits, SignPhases, SignaturesGrow
<1>6. SessionInOrder'
 <2>1. ASSUME ~overtaken
       PROVE  /\ \A j \in InFlight' \ {i} : j \notin Reading
              /\ i \in InFlight' => tasks'[i].addr = adapter /\ ~Asking(tasks'[i])
              /\ i \in InFlight' /\ tasks'[i].kind \in {"hydrate", "refresh"} => InFlight' = {i}
   BY <1>1, <2>1, <1>2 DEF SessionInOrder, TaskGoesOn, Reading, Asking
 <2> QED BY <1>1, <1>2, <1>5, <2>1, SessionChanges
<1>7. BalanceInOrder' BY <1>1, TasksAre, LoadsPanel, <1>2, BalanceStays DEF TaskSet, Balancing
<1> QED BY <1>4, <1>5, <1>6, <1>7

LEMMA HydrationKeeps ==
  ASSUME WalletSound, NEW i \in DOMAIN tasks, SessionIsHydrated(i) \/ SessionIsRefreshed(i)
  PROVE  WalletSound'
<1> DEFINE a == tasks[i].addr
           t == tasks[i].token
           p == IF SessionIsHydrated(i) THEN [panel EXCEPT !.error = FALSE] ELSE panel
<1>1. /\ tasks[i].phase = "answered" /\ LoadsBalance(i) /\ UNCHANGED <<adapter, stored, overtaken, dropped>>
      /\ sessions' = sessions /\ signatures' = signatures /\ unproven' = unproven
  BY DEF SessionIsHydrated, SessionIsRefreshed, HydrationApplies, RefreshApplies, serverVars, Shows
<1>2. panel' = LoadsFor(a, p) BY DEF SessionIsHydrated, SessionIsRefreshed, Shows
<1>3. \/ tasks[i].kind = "hydrate" /\ tasks[i].got = a /\ shown' = [token |-> t, profile |-> tasks[i].got]
      \/ tasks[i].kind = "refresh" /\ shown' = [shown EXCEPT !.profile = tasks[i].got]
  BY DEF SessionIsHydrated, SessionIsRefreshed, HydrationApplies, RefreshApplies, ProfileMatches
<1>4. i \in InFlight /\ TaskTypes /\ TokensAreOut /\ SessionInOrder /\ ProofInOrder /\ PanelFits
  BY <1>1, UnderWay DEF WalletSound
<1>5. tasks[i] \in TaskSet /\ PhaseFits(tasks[i]) BY <1>4, TasksAre DEF WalletSound, TasksFit
<1>6. tasks[i].got \in Holders /\ t \in ClientTokens /\ tasks[i].got = t[1] /\ a \in Holders /\ i \in Reading
  BY <1>1, <1>4, <1>5 DEF TaskSet, PhaseFits, Reading
<1>7. panel \in PanelSet BY <1>4 DEF PanelFits, PanelSet
<1>8. p \in PanelSet /\ p.balance = panel.balance /\ p.signature = panel.signature /\ p.rows = panel.rows
  BY <1>7 DEF PanelSet
<1> HIDE DEF p
<1>9. shown' \in [token : Bearers, profile : Holders] /\ stored' \in Bearers
      /\ shown'.profile = tasks[i].got /\ shown'.token \in {shown.token, t}
  BY <1>4, <1>1, <1>3, <1>6 DEF TaskTypes, Bearers
<1>10. ASSUME ~overtaken
       PROVE  /\ shown'.token = stored' /\ shown'.token \in ClientTokens
              /\ shown'.token[1] = adapter /\ shown'.profile = adapter
 <2>1. /\ a = adapter /\ stored = t /\ \A j \in InFlight : i = j
       /\ tasks[i].kind = "refresh" => shown.token = t
       /\ Hydrating \/ shown = Nothing \/ shown.token[1] = adapter
   BY <1>1, <1>4, <1>6, <1>10 DEF SessionInOrder
 <2>2. CASE tasks[i].kind = "hydrate" BY <1>1, <1>3, <1>6, <2>1, <2>2
 <2>3. CASE tasks[i].kind = "refresh"
  <3>1. ~Hydrating BY <2>1, <2>3 DEF Hydrating
  <3>2. shown # Nothing BY <1>6, <2>1, <2>3, NoTokenIsNone
  <3>3. shown.token = t /\ t[1] = adapter BY <2>1, <2>3, <3>1, <3>2
  <3>4. shown'.token = shown.token BY <1>4, <1>3, <2>3 DEF TaskTypes
  <3> QED BY <1>1, <1>6, <1>9, <2>1, <3>3, <3>4
 <2> QED BY <1>3, <2>2, <2>3
<1>11. TaskTypes' /\ TasksFit' /\ SessionInOrder' /\ BalanceInOrder'
  BY <1>1, <1>2, <1>4, <1>8, <1>9, <1>10, ShownKeeps
<1>12. /\ TaskGoesOn(i) /\ Others(i)
       /\ \A j \in InFlight \ {i} : j \in InFlight' /\ tasks'[j] = tasks[j]
       /\ a = NoWallet => machine' # "balance_loading"
       /\ i \in InFlight' => tasks'[i].phase = "balance" /\ tasks'[i].token = t
  BY <1>1, <1>4, LoadsOn
<1>13. TokensAreOut' BY <1>12, <1>4, <1>9, <1>1, TokensStayOut DEF TaskGoesOn, SignPhases
<1>14. panel' \in PanelSet /\ panel'.signature = panel.signature /\ panel'.rows = panel.rows
       /\ (a # NoWallet => panel'.loading)
  BY <1>2, <1>6, <1>8, LoadsPanel
<1>15. ProofInOrder' BY <1>1, <1>12, <1>4, <1>14, ProofStays DEF SignedPhases
<1>16. PanelFits' BY <1>1, <1>4, <1>12, <1>14, PanelStays DEF SignaturesGrow, PanelFits
<1> QED BY <1>11, <1>13, <1>15, <1>16 DEF WalletSound

\* The sign-in is verified: its token is new, and out from now on.
LEMMA VerifiedKeeps ==
  ASSUME WalletSound, NEW i \in DOMAIN tasks, SignInIsVerified(i)
  PROVE  WalletSound'
<1> DEFINE a == tasks[i].addr
           t == <<a, i>>
           row == [wallet |-> a, signature |-> i]
           p == [panel EXCEPT !.rows = <<row>> \o @]
<1>1. /\ tasks[i].phase = "verified" /\ LoadsBalance(i) /\ UNCHANGED <<adapter, overtaken, dropped>>
      /\ sessions' = sessions /\ signatures' = signatures /\ unproven' = unproven
      /\ shown' = [token |-> t, profile |-> a] /\ stored' = t /\ panel' = LoadsFor(a, p)
  BY DEF SignInIsVerified, Verified, serverVars, Shows
<1>2. i \in InFlight /\ TaskTypes /\ TokensAreOut /\ SessionInOrder /\ ProofInOrder /\ PanelFits
  BY <1>1, UnderWay DEF WalletSound
<1>3. tasks[i] \in TaskSet /\ PhaseFits(tasks[i]) /\ i \in signatures[a]
  BY <1>1, <1>2, TasksAre DEF WalletSound, TasksFit
<1>4. a \in Accounts /\ i \in 1..MaxTasks /\ i \in Nat
  BY <1>1, <1>3, <1>2, TasksAre, NoTokenIsNone DEF PhaseFits, TaskTypes
<1>5. t \in ClientTokens /\ t[1] = a /\ t[2] = i /\ t # NoToken /\ a # NoWallet
  BY <1>4, NoTokenIsNone DEF ClientTokens
<1>6. panel \in PanelSet BY <1>2 DEF PanelFits, PanelSet
<1>7. row \in [wallet : Accounts, signature : Nat] /\ row.wallet = a /\ row.signature = i BY <1>4
<1> HIDE DEF row, t
<1>8. /\ p \in PanelSet /\ p.balance = panel.balance /\ p.signature = panel.signature
      /\ p.rows = <<row>> \o panel.rows
 <2>1. panel.rows \in Seq([wallet : Accounts, signature : Nat]) BY <1>6 DEF PanelSet
 <2>2. <<row>> \o panel.rows \in Seq([wallet : Accounts, signature : Nat]) BY <1>7, <2>1
 <2> DEFINE rs == <<row>> \o panel.rows
 <2>3. p = [panel EXCEPT !.rows = rs] BY <1>6 DEF PanelSet
 <2>4. rs \in Seq([wallet : Accounts, signature : Nat]) BY <2>2
 <2> HIDE DEF rs
 <2>5. /\ p \in PanelSet /\ p.balance = panel.balance /\ p.signature = panel.signature /\ p.rows = rs
   BY <1>6, <2>3, <2>4 DEF PanelSet
 <2> QED BY <2>5 DEF rs
<1> HIDE DEF p
<1>9. /\ TaskGoesOn(i) /\ Others(i)
      /\ \A j \in InFlight \ {i} : j \in InFlight' /\ tasks'[j] = tasks[j]
      /\ i \in InFlight' /\ tasks'[i].phase = "balance" /\ tasks'[i].token = tasks[i].token
  BY <1>1, <1>2, <1>5, LoadsOn
<1>10. shown'.token = t /\ shown'.profile = a /\ shown' \in [token : Bearers, profile : Holders] /\ stored' \in Bearers
  BY <1>1, <1>4, <1>5 DEF Bearers, Holders
<1>11. TaskTypes' /\ TasksFit' /\ SessionInOrder' /\ BalanceInOrder'
 <2>1. ASSUME ~overtaken
       PROVE  a = adapter
   BY <1>2, <2>1 DEF SessionInOrder
 <2> QED BY <1>1, <1>2, <1>5, <1>8, <1>10, <2>1, ShownKeeps
<1>12. TokensAreOut'
 <2> DEFINE OutNow(u) == u = NoToken
                          \/ (u[2] \in DOMAIN tasks' /\ ~(u[2] \in InFlight' /\ tasks'[u[2]].phase \in SignPhases))
 <2>1. DOMAIN tasks \subseteq DOMAIN tasks' /\ tasks'[i].phase \notin SignPhases BY <1>9 DEF TaskGoesOn, SignPhases
 <2>2. \A u : Out(u) => OutNow(u) BY <1>9, <2>1, OutStays
 <2>3. OutNow(t) BY <1>5, <2>1
 <2> HIDE DEF OutNow
 <2>4. (\A u \in dropped : Out(u)) /\ (\A j \in InFlight : Out(tasks[j].token)) BY <1>2 DEF TokensAreOut
 <2>5. \A u \in dropped' : OutNow(u) BY <1>1, <2>2, <2>4
 <2>6. ASSUME NEW j \in InFlight'
       PROVE  OutNow(tasks'[j].token) BY <1>2, <1>9, <2>2, <2>4 DEF Others
 <2>7. t \notin dropped BY <1>1, <1>2, <1>5, <2>4 DEF Out, SignsYet, SignPhases
 <2> QED BY <1>1, <1>10, <2>3, <2>5, <2>6, <2>7 DEF TokensAreOut, Out, SignsYet, OutNow
<1>13. panel' \in PanelSet /\ panel'.signature = panel.signature /\ panel'.rows = <<row>> \o panel.rows /\ panel'.loading
  BY <1>1, <1>4, <1>5, <1>8, LoadsPanel DEF Holders
<1>14. ProofInOrder'
 <2> SUFFICES ASSUME ~unproven, panel.signature # NoSignature
              PROVE  /\ \A j \in InFlight' : tasks'[j].phase \in SignedPhases => j = panel.signature
                     /\ stored'[2] = panel.signature
   BY <1>1, <1>13 DEF ProofInOrder
 <2>1. \A j \in InFlight : tasks[j].phase \in SignedPhases => j = panel.signature BY <1>2 DEF ProofInOrder
 <2>2. i = panel.signature BY <1>1, <1>2, <2>1 DEF SignedPhases
 <2>3. tasks'[i].phase \notin SignedPhases BY <1>9 DEF SignedPhases
 <2>4. ASSUME NEW j \in InFlight', tasks'[j].phase \in SignedPhases
       PROVE  j = panel.signature
   BY <1>9, <2>1, <2>3, <2>4 DEF Others
 <2> QED BY <1>1, <1>5, <2>2, <2>4
<1>15. PanelFits'
 <2>1. ASSUME NEW n \in 1..Len(panel'.rows)
       PROVE  panel'.rows[n].signature \in signatures[panel'.rows[n].wallet]
  <3>1. panel.rows \in Seq([wallet : Accounts, signature : Nat]) BY <1>6 DEF PanelSet
  <3>2. CASE n = 1 BY <1>13, <3>1, <1>3, <1>7, <3>2
  <3>3. CASE n # 1
   <4>1. n - 1 \in 1..Len(panel.rows) /\ panel'.rows[n] = panel.rows[n - 1] BY <1>13, <2>1, <3>1, <3>3
   <4>2. panel.rows[n - 1].signature \in signatures[panel.rows[n - 1].wallet] BY <1>2, <4>1 DEF PanelFits
   <4> QED BY <4>1, <4>2
  <3> QED BY <3>2, <3>3
 <2>2. unproven \in BOOLEAN BY <1>2 DEF PanelFits
 <2> QED BY <1>1, <1>13, <2>1, <2>2 DEF PanelFits, PanelSet
<1> QED BY <1>11, <1>12, <1>14, <1>15 DEF WalletSound

LEMMA LeftPanel ==
  ASSUME NEW p \in PanelSet, NEW kind
  PROVE  /\ Left(kind, p) \in PanelSet /\ Left(kind, p).signature = NoSignature
         /\ Left(kind, p).rows \in {p.rows, <<>>} /\ Left(kind, p).balance \in {p.balance, NoWallet}
<1>1. CASE kind = "clear" BY <1>1 DEF Left, PanelSet, NoSignature
<1>2. CASE kind # "clear"
 <2>1. <<>> \in Seq([wallet : Accounts, signature : Nat]) OBVIOUS
 <2> QED BY <1>2, <2>1 DEF Left, PanelSet, NoSignature, Holders
<1> QED BY <1>1, <1>2

LEMMA ProofIsGone ==
  ASSUME panel'.signature = NoSignature
  PROVE  ProofInOrder'
  BY DEF ProofInOrder

LEMMA SignOutKeeps ==
  ASSUME WalletSound, NEW i \in DOMAIN tasks, SignOutEnds(i)
  PROVE  WalletSound'
<1> DEFINE t == tasks[i].token
<1>1. /\ tasks[i].phase \in {"logout", "left"} /\ UNCHANGED <<adapter, overtaken>> /\ dropped' = dropped \cup {t}
      /\ sessions' = sessions /\ signatures' = signatures /\ unproven' = unproven
      /\ shown' = Nothing /\ stored' = NoToken /\ machine' \in {"connected", "disconnected"}
      /\ panel' = Left(tasks[i].kind, panel)
      /\ tasks' = Ends(i) \/ Moves(i, "leaving")
  BY DEF SignOutEnds, SignedOut, Forgets, AfterSignOut, serverVars, Shows
<1>2. i \in InFlight /\ TaskTypes /\ TasksFit /\ TokensAreOut /\ SessionInOrder /\ BalanceInOrder /\ PanelFits
  BY <1>1, UnderWay DEF WalletSound
<1>3. PhaseFits(tasks[i]) /\ t \in ClientTokens BY <1>1, <1>2 DEF TasksFit, PhaseFits
<1>4. /\ TaskGoesOn(i)
      /\ i \in InFlight' => /\ tasks'[i].phase = "leaving" /\ tasks'[i].kind = tasks[i].kind
                            /\ tasks'[i].addr = tasks[i].addr /\ tasks'[i].token = t
  BY <1>2, EndsNow, MovesOn, <1>1
<1>5. Others(i) /\ \A j \in InFlight \ {i} : j \in InFlight' /\ tasks'[j] = tasks[j] BY <1>2, <1>4, OthersStay
<1>6. ServerFits' /\ SignaturesGrow BY <1>1, <1>2, ServerStays
<1>7. shown'.token = NoToken /\ shown' \in [token : Bearers, profile : Holders] /\ stored' \in Bearers
  BY <1>1 DEF Nothing, Bearers, Holders
<1>8. TaskTypes'
 <2>1. dropped' \subseteq ClientTokens BY <1>1, <1>2, <1>3 DEF TaskTypes
 <2> QED BY <1>1, <1>2, <1>4, <1>6, <1>7, <2>1, TypesStay
<1>9. TasksFit'
 <2>1. i \in InFlight' => PhaseFits(tasks'[i]) /\ tasks'[i].phase # "verified" BY <1>4 DEF PhaseFits, SignPhases
 <2> QED BY <1>2, <1>5, <1>6, <2>1, TasksStayFit DEF SignaturesGrow
<1>10. TokensAreOut'
 <2>1. DOMAIN tasks \subseteq DOMAIN tasks' BY <1>4 DEF TaskGoesOn
 <2>2. i \in InFlight' => tasks'[i].phase \notin SignPhases BY <1>4 DEF SignPhases
 <2>3. dropped' \subseteq ClientTokens /\ \A u \in dropped' : u \in dropped \/ \E j \in InFlight : u = tasks[j].token
   BY <1>1, <1>2, <1>3 DEF TaskTypes
 <2> QED BY <1>1, <1>2, <1>4, <1>5, <1>7, <2>1, <2>2, <2>3, TokensStayOut
<1>11. SessionInOrder'
 <2>1. ASSUME ~overtaken
       PROVE  /\ \A j \in InFlight' \ {i} : j \notin Reading
              /\ i \in InFlight' => tasks'[i].addr = adapter /\ ~Asking(tasks'[i])
              /\ i \in InFlight' /\ tasks'[i].kind \in {"hydrate", "refresh"} => InFlight' = {i}
  <3>1. /\ \A k \in Reading, j \in InFlight : k = j
        /\ tasks[i].addr = adapter
    BY <1>2, <2>1 DEF SessionInOrder
  <3>2. InFlight' \subseteq InFlight BY <1>4 DEF TaskGoesOn
  <3>3. tasks[i].kind \in {"hydrate", "refresh"} => i \in Reading BY <1>2 DEF Reading
  <3>4. \A j \in InFlight' \ {i} : j \notin Reading BY <1>2, <3>1, <3>2
  <3> QED BY <1>4, <3>1, <3>2, <3>3, <3>4 DEF Asking
 <2> QED BY <1>1, <1>2, <1>5, <1>9, <2>1, SessionChanges
<1>12. panel \in PanelSet /\ unproven \in BOOLEAN BY <1>2 DEF PanelFits, PanelSet
<1>13. /\ panel' \in PanelSet /\ panel'.signature = NoSignature /\ panel'.rows \in {panel.rows, <<>>}
       /\ panel'.balance \in {panel.balance, NoWallet}
  BY <1>1, <1>12, LeftPanel
<1>14. BalanceInOrder' BY <1>1, <1>2, <1>13, BalanceStays
<1>15. ProofInOrder' BY <1>13, ProofIsGone
<1>16. PanelFits' BY <1>1, <1>2, <1>6, <1>12, <1>13, PanelStays
<1> QED BY <1>8, <1>9, <1>10, <1>11, <1>14, <1>15, <1>16 DEF WalletSound

\* A task begins, with the account and the token that are shown.
LEMMA TaskBegins ==
  ASSUME WalletSound, NEW n, n = Len(tasks) + 1, NEW kind \in {"sign", "balance", "refresh", "clear", "disconnect"},
         NEW phase \in {"popup", "nonce", "balance", "asked", "logout", "leaving"}, Begins(kind, phase),
         phase \in {"popup", "nonce"} => kind = "sign",
         phase = "nonce" => adapter # NoWallet,
         phase = "asked" => kind = "refresh",
         phase \in {"asked", "logout"} => shown.token # NoToken,
         UNCHANGED <<adapter, dropped>>, sessions' = sessions, signatures' = signatures,
         shown' \in {shown, Nothing}, stored' \in {stored, NoToken}
  PROVE  /\ n \notin InFlight /\ Others(n) /\ InFlight' = InFlight \cup {n} /\ \A j \in InFlight : tasks'[j] = tasks[j]
         /\ tasks'[n].kind = kind /\ tasks'[n].phase = phase /\ tasks'[n].addr = adapter /\ tasks'[n].token = shown.token
         /\ TaskTypes' /\ TasksFit' /\ TokensAreOut' /\ SignaturesGrow
<1> DEFINE new == [kind |-> kind, phase |-> phase, addr |-> adapter, token |-> shown.token, got |-> NoWallet]
<1>1. TaskTypes /\ TasksFit /\ TokensAreOut BY DEF WalletSound
<1>2. /\ Len(tasks) < MaxTasks /\ tasks' = Append(tasks, new)
      /\ overtaken' = (overtaken \/ Reading # {} \/ (kind = "refresh" /\ InFlight # {}))
  BY DEF Begins
<1>3. /\ shown \in [token : Bearers, profile : Holders] /\ stored \in Bearers /\ adapter \in Holders
      /\ overtaken \in BOOLEAN /\ dropped \subseteq ClientTokens
  BY <1>1 DEF TaskTypes
<1>4. new \in TaskSet /\ new.kind = kind /\ new.phase = phase /\ new.addr = adapter /\ new.token = shown.token
  BY <1>3 DEF TaskSet, SignPhases, Holders
<1> HIDE DEF new
<1>5. /\ tasks' \in Seq(TaskSet \cup {Ended}) /\ Len(tasks') <= MaxTasks
      /\ n \notin DOMAIN tasks /\ DOMAIN tasks' = DOMAIN tasks \cup {n} /\ tasks'[n] = new
      /\ \A j \in DOMAIN tasks : tasks'[j] = tasks[j]
      /\ InFlight' = InFlight \cup {n}
  BY <1>1, <1>2, <1>4, TaskAppended
<1>6. \A j \in InFlight : j \in DOMAIN tasks BY <1>1, TasksAre
<1>7. /\ n \notin InFlight /\ Others(n) /\ \A j \in InFlight : tasks'[j] = tasks[j] BY <1>5, <1>6 DEF Others
<1>8. /\ tasks'[n].kind = kind /\ tasks'[n].phase = phase /\ tasks'[n].addr = adapter /\ tasks'[n].token = shown.token
  BY <1>4, <1>5
<1>9. SignaturesGrow /\ ServerFits' BY <1>1, ServerStays
<1>10. shown' \in [token : Bearers, profile : Holders] /\ stored' \in Bearers /\ shown'.token \in {shown.token, NoToken}
  BY <1>3 DEF Nothing, Bearers, Holders
<1>11. TaskTypes' BY <1>2, <1>3, <1>5, <1>9, <1>10 DEF TaskTypes, ServerFits
<1>12. TasksFit'
 <2>1. shown.token \in Bearers BY <1>3
 <2>2. PhaseFits(tasks'[n]) /\ tasks'[n].phase # "verified"
   BY <1>3, <1>8, <2>1 DEF PhaseFits, SignPhases, Bearers, Holders
 <2> QED BY <1>1, <1>7, <1>9, <2>2, TasksStayFit DEF SignaturesGrow
<1>13. TokensAreOut' BY <1>5, <1>8, <1>1, <1>7, <1>10, TokensStayOut
<1> QED BY <1>5, <1>7, <1>8, <1>9, <1>11, <1>12, <1>13

LEMMA BegunKeeps ==
  ASSUME WalletSound, NEW kind \in {"sign", "balance", "refresh", "clear", "disconnect"},
         NEW phase \in {"popup", "nonce", "balance", "asked", "logout"}, Begins(kind, phase),
         phase \in {"popup", "nonce"} => kind = "sign",
         phase = "nonce" => adapter # NoWallet,
         phase = "asked" <=> kind = "refresh",
         phase \in {"asked", "logout"} => shown.token # NoToken,
         UNCHANGED <<adapter, shown, stored, dropped>>, sessions' = sessions, signatures' = signatures, unproven' = unproven,
         NEW p \in PanelSet, panel' = p, p.signature = panel.signature, p.rows = panel.rows, p.balance = panel.balance,
         machine' = "balance_loading" => p.loading
  PROVE  WalletSound'
<1>0. PICK n : n = Len(tasks) + 1 OBVIOUS
<1>1. /\ n \notin InFlight /\ Others(n) /\ InFlight' = InFlight \cup {n} /\ \A j \in InFlight : tasks'[j] = tasks[j]
      /\ tasks'[n].kind = kind /\ tasks'[n].phase = phase /\ tasks'[n].addr = adapter /\ tasks'[n].token = shown.token
      /\ TaskTypes' /\ TasksFit' /\ TokensAreOut' /\ SignaturesGrow
  BY <1>0, TaskBegins
<1>2. SessionInOrder /\ BalanceInOrder /\ ProofInOrder /\ PanelFits BY DEF WalletSound
<1>3. overtaken' = (overtaken \/ Reading # {} \/ (kind = "refresh" /\ InFlight # {})) BY DEF Begins
<1>4. ~overtaken' => ~overtaken /\ Reading = {} /\ (kind = "refresh" => InFlight = {} /\ shown.token # NoToken)
  BY <1>3
<1>5. overtaken => overtaken' BY <1>3
<1>6. SessionInOrder' BY <1>1, <1>2, <1>4, SessionBegins DEF Asking
<1>7. BalanceInOrder' BY <1>1, <1>2, <1>4, BalanceStays DEF Balancing, Hydrating, Reading
<1>8. ProofInOrder' BY <1>1, <1>2, <1>5, ProofStays DEF SignedPhases
<1>9. PanelFits' BY <1>2, <1>1, PanelStays DEF PanelFits
<1> QED BY <1>1, <1>6, <1>7, <1>8, <1>9 DEF WalletSound

LEMMA PanelIs ==
  ASSUME WalletSound
  PROVE  panel \in PanelSet /\ unproven \in BOOLEAN /\ (machine = "balance_loading" => panel.loading)
  BY DEF WalletSound, PanelFits, PanelSet

LEMMA ErrorShown ==
  ASSUME NEW p \in PanelSet, NEW e \in BOOLEAN
  PROVE  LET q == [p EXCEPT !.error = e] IN
         /\ q \in PanelSet /\ q.signature = p.signature /\ q.rows = p.rows /\ q.balance = p.balance
         /\ q.loading = p.loading
  BY DEF PanelSet

LEMMA SignInBeginsKeeps ==
  ASSUME WalletSound, SignInBegins
  PROVE  WalletSound'
<1> DEFINE p == [panel EXCEPT !.error = FALSE]
<1>1. /\ UNCHANGED <<adapter, shown, stored, dropped>> /\ sessions' = sessions /\ signatures' = signatures
      /\ unproven' = unproven /\ panel' = p /\ machine' # "balance_loading"
      /\ Begins("sign", "popup") \/ (adapter # NoWallet /\ Begins("sign", "nonce"))
  BY DEF SignInBegins, Connect, Errs, Shows, serverVars
<1>2. p \in PanelSet /\ p.signature = panel.signature /\ p.rows = panel.rows /\ p.balance = panel.balance
  BY PanelIs, ErrorShown
<1> HIDE DEF p
<1>3. CASE Begins("sign", "popup") BY <1>1, <1>2, <1>3, BegunKeeps
<1>4. CASE adapter # NoWallet /\ Begins("sign", "nonce") BY <1>1, <1>2, <1>4, BegunKeeps
<1> QED BY <1>1, <1>3, <1>4

LEMMA RefreshBalanceKeeps ==
  ASSUME WalletSound, RefreshBalance
  PROVE  WalletSound'
<1> DEFINE p == LoadsFor(adapter, panel)
<1>1. /\ UNCHANGED <<adapter, shown, stored, dropped>> /\ sessions' = sessions /\ signatures' = signatures
      /\ unproven' = unproven /\ panel' = p /\ adapter # NoWallet /\ Begins("balance", "balance")
  BY DEF RefreshBalance, Shows, serverVars
<1>2. adapter \in Holders /\ panel \in PanelSet BY PanelIs DEF WalletSound, TaskTypes
<1>3. /\ p \in PanelSet /\ p.signature = panel.signature /\ p.rows = panel.rows
      /\ p.balance = panel.balance /\ p.loading
  BY <1>1, <1>2, LoadsPanel
<1> HIDE DEF p
<1> QED BY <1>1, <1>3, BegunKeeps

LEMMA RefreshBeginsKeeps ==
  ASSUME WalletSound, RefreshBegins, shown.token # NoToken
  PROVE  WalletSound'
<1> DEFINE p == [panel EXCEPT !.error = FALSE]
<1>1. /\ UNCHANGED <<adapter, machine, shown, stored, dropped>> /\ sessions' = sessions /\ signatures' = signatures
      /\ Begins("refresh", "asked")
  BY DEF RefreshBegins, Refresh, serverVars
<1>2. unproven' = unproven /\ panel' = p BY DEF RefreshBegins, Errs, Shows
<1>3. p \in PanelSet /\ p.signature = panel.signature /\ p.rows = panel.rows /\ p.balance = panel.balance
      /\ p.loading = panel.loading /\ (machine = "balance_loading" => panel.loading)
  BY PanelIs, ErrorShown
<1> HIDE DEF p
<1> QED BY <1>1, <1>2, <1>3, BegunKeeps

LEMMA SignOutBeginsKeeps ==
  ASSUME WalletSound, NEW kind \in {"clear", "disconnect"}, SignOutBegins(kind)
  PROVE  WalletSound'
<1> DEFINE e == panel.error /\ kind = "disconnect"
           p == [panel EXCEPT !.error = e]
<1>1. /\ UNCHANGED <<adapter, machine, shown, stored, dropped>> /\ sessions' = sessions /\ signatures' = signatures
      /\ unproven' = unproven /\ panel' = p /\ shown.token # NoToken /\ Begins(kind, "logout")
  BY DEF SignOutBegins, SignOut, Errs, Shows, serverVars
<1>2. e \in BOOLEAN OBVIOUS
<1> HIDE DEF e
<1>3. p \in PanelSet /\ p.signature = panel.signature /\ p.rows = panel.rows /\ p.balance = panel.balance
      /\ p.loading = panel.loading /\ (machine = "balance_loading" => panel.loading)
  BY <1>2, PanelIs, ErrorShown
<1> HIDE DEF p
<1> QED BY <1>1, <1>3, BegunKeeps

\* Only the server, or what a screen shows of an error, has changed.
LEMMA TasksStand ==
  ASSUME WalletSound, tasks' = tasks, adapter' = adapter, shown' = shown, stored' = stored, overtaken' = overtaken, dropped' = dropped,
         signatures' = signatures, ServerFits', unproven' = unproven,
         panel' \in PanelSet, panel'.signature = panel.signature, panel'.rows = panel.rows, panel'.balance = panel.balance,
         machine' = "balance_loading" => panel'.loading
  PROVE  WalletSound'
<1>1. TaskTypes /\ TasksFit /\ TokensAreOut /\ SessionInOrder /\ BalanceInOrder /\ ProofInOrder /\ PanelFits
  BY DEF WalletSound
<1>2. InFlight' = InFlight /\ DOMAIN tasks' = DOMAIN tasks BY DEF InFlight
<1>3. Others(0) /\ SignaturesGrow BY <1>2 DEF Others, SignaturesGrow
<1>4. TaskTypes' BY <1>1 DEF TaskTypes, ServerFits
<1>5. TasksFit' BY <1>1, <1>2 DEF TasksFit
<1>6. TokensAreOut' BY <1>1, <1>2 DEF TokensAreOut, Out, SignsYet
<1>7. SessionInOrder' BY <1>1, <1>2, <1>3, SessionStays
<1>8. BalanceInOrder' BY <1>2, <1>1 DEF Hydrating, Balancing, BalanceInOrder
<1>9. ProofInOrder' BY <1>1, <1>2 DEF ProofInOrder
<1>10. PanelFits' BY PanelIs, <1>1, <1>3, PanelStays
<1> QED BY <1>4, <1>5, <1>6, <1>7, <1>8, <1>9, <1>10 DEF WalletSound

LEMMA RefreshErrorKeeps ==
  ASSUME WalletSound, RefreshBegins, shown.token = NoToken
  PROVE  WalletSound'
<1> DEFINE p == [panel EXCEPT !.error = TRUE]
<1>1. /\ tasks' = tasks /\ adapter' = adapter /\ shown' = shown /\ stored' = stored /\ overtaken' = overtaken /\ dropped' = dropped
      /\ sessions' = sessions /\ signatures' = signatures /\ machine' # "balance_loading"
  BY DEF RefreshBegins, Refresh, AfterError, serverVars
<1>2. unproven' = unproven /\ panel' = p BY DEF RefreshBegins, Errs, Shows
<1>3. p \in PanelSet /\ p.signature = panel.signature /\ p.rows = panel.rows /\ p.balance = panel.balance
  BY PanelIs, ErrorShown
<1> HIDE DEF p
<1>4. ServerFits' BY <1>1, ServerStays DEF WalletSound
<1> QED BY <1>1, <1>2, <1>3, <1>4, TasksStand

LEMMA ServerKeeps ==
  ASSUME WalletSound, UNCHANGED clientVars, UNCHANGED panelVars,
         UNCHANGED serverVars \/ ServerRestarts
  PROVE  WalletSound'
<1>1. /\ tasks' = tasks /\ adapter' = adapter /\ shown' = shown /\ stored' = stored /\ overtaken' = overtaken /\ dropped' = dropped
      /\ machine' = machine /\ signatures' = signatures /\ panel' = panel /\ unproven' = unproven
  BY DEF ServerRestarts, Server!Restart, clientVars, panelVars, serverVars
<1>2. ServerFits'
 <2>1. CASE UNCHANGED serverVars BY <2>1, ServerStays DEF serverVars, WalletSound
 <2>2. CASE ServerRestarts
  <3>1. DOMAIN sessions' = {} BY <2>2 DEF ServerRestarts, Server!Restart, Server!Empty
  <3> QED BY <1>1, <3>1 DEF WalletSound, TaskTypes, ServerFits
 <2> QED BY <2>1, <2>2
<1>3. panel \in PanelSet /\ (machine = "balance_loading" => panel.loading) BY PanelIs
<1> QED BY <1>1, <1>2, <1>3, TasksStand

\* The session is forgotten at once: there is nothing to tell the server.
LEMMA ClearKeeps ==
  ASSUME WalletSound, ClearsAtOnce
  PROVE  WalletSound'
<1> DEFINE q == Left("clear", panel)
           p == [q EXCEPT !.error = FALSE]
<1>1. /\ tasks' = tasks /\ adapter' = adapter /\ dropped' = dropped /\ overtaken' = (overtaken \/ Reading # {})
      /\ sessions' = sessions /\ signatures' = signatures /\ unproven' = unproven
      /\ shown' = Nothing /\ stored' = NoToken /\ machine' \in {"connected", "disconnected"} /\ panel' = p
  BY DEF ClearsAtOnce, ClearNothing, Forgets, AfterSignOut, serverVars, Shows
<1>2. TaskTypes /\ TasksFit /\ TokensAreOut /\ SessionInOrder /\ BalanceInOrder /\ PanelFits BY DEF WalletSound
<1>3. InFlight' = InFlight /\ DOMAIN tasks' = DOMAIN tasks /\ 0 \notin InFlight BY <1>2, TasksAre, <1>1 DEF InFlight
<1>4. Others(0) BY <1>1, <1>3 DEF Others
<1>5. SignaturesGrow /\ ServerFits' BY <1>1, <1>2, ServerStays
<1>6. shown'.token = NoToken /\ shown' \in [token : Bearers, profile : Holders] /\ stored' \in Bearers
  BY <1>1 DEF Nothing, Bearers, Holders
<1>7. TaskTypes' BY <1>1, <1>2, <1>5, <1>6 DEF TaskTypes, ServerFits
<1>8. TasksFit' BY <1>2, <1>3, <1>4, <1>5, TasksStayFit DEF SignaturesGrow
<1>9. TokensAreOut' BY <1>3, <1>1, <1>2, <1>4, <1>6, TokensStayOut
<1>10. SessionInOrder' BY <1>1, <1>2, <1>3, <1>4, <1>8, SessionChanges
<1>11. panel \in PanelSet /\ unproven \in BOOLEAN BY PanelIs
<1>12. /\ q \in PanelSet /\ q.signature = NoSignature /\ q.rows \in {panel.rows, <<>>}
       /\ q.balance \in {panel.balance, NoWallet}
  BY <1>11, LeftPanel
<1> HIDE DEF q
<1>13. /\ panel' \in PanelSet /\ panel'.signature = NoSignature /\ panel'.rows \in {panel.rows, <<>>}
       /\ panel'.balance \in {panel.balance, NoWallet}
  BY <1>1, <1>12, ErrorShown
<1>14. BalanceInOrder' BY <1>1, <1>2, <1>13, BalanceStays
<1>15. ProofInOrder' BY <1>13, ProofIsGone
<1>16. PanelFits' BY <1>1, <1>2, <1>5, <1>11, <1>13, PanelStays
<1> QED BY <1>7, <1>8, <1>9, <1>10, <1>14, <1>15, <1>16 DEF WalletSound

LEMMA DisconnectKeeps ==
  ASSUME WalletSound, DisconnectsAtOnce
  PROVE  WalletSound'
<1>0. PICK n : n = Len(tasks) + 1 OBVIOUS
<1>1. /\ adapter' = adapter /\ dropped' = dropped /\ overtaken' = (overtaken \/ Reading # {})
      /\ sessions' = sessions /\ signatures' = signatures /\ unproven' = unproven /\ Begins("disconnect", "leaving")
      /\ shown' = Nothing /\ stored' = NoToken /\ machine' = "disconnected" /\ panel' = Left("disconnect", panel)
  BY DEF DisconnectsAtOnce, DisconnectNothing, Forgets, AfterSignOut, serverVars, Shows, Begins
<1>2. SessionInOrder /\ BalanceInOrder /\ PanelFits BY DEF WalletSound
<1>3. /\ n \notin InFlight /\ Others(n) /\ InFlight' = InFlight \cup {n} /\ \A j \in InFlight : tasks'[j] = tasks[j]
      /\ tasks'[n].kind = "disconnect" /\ tasks'[n].phase = "leaving" /\ tasks'[n].addr = adapter
      /\ TaskTypes' /\ TasksFit' /\ TokensAreOut' /\ SignaturesGrow
  BY <1>0, <1>1, TaskBegins
<1>4. ~overtaken' => ~overtaken /\ Reading = {} BY <1>1
<1>5. SessionInOrder' BY <1>3, <1>1, <1>2, <1>4, SessionChanges DEF Asking
<1>6. panel \in PanelSet /\ unproven \in BOOLEAN BY PanelIs
<1>7. /\ panel' \in PanelSet /\ panel'.signature = NoSignature /\ panel'.rows \in {panel.rows, <<>>}
      /\ panel'.balance \in {panel.balance, NoWallet}
  BY <1>1, <1>6, LeftPanel
<1>8. BalanceInOrder' BY <1>1, <1>2, <1>4, <1>7, BalanceStays
<1>9. ProofInOrder' BY <1>7, ProofIsGone
<1>10. PanelFits' BY <1>1, <1>2, <1>3, <1>6, <1>7, PanelStays
<1> QED BY <1>3, <1>5, <1>8, <1>9, <1>10 DEF WalletSound

\* The extension is on another account, or on none; a task may have ended.
LEMMA AdaptedTasks ==
  ASSUME TaskTypes, NEW w \in Holders, NEW state, NEW ts, Adapts(w, state, ts), stored' = stored,
         ts \in Seq(TaskSet \cup {Ended}), Len(ts) = Len(tasks), \A j \in DOMAIN tasks : ts[j] \in {tasks[j], Ended},
         NEW n, n = Len(tasks) + 1
  PROVE  /\ tasks' \in Seq(TaskSet \cup {Ended}) /\ Len(tasks') <= MaxTasks /\ DOMAIN tasks \subseteq DOMAIN tasks'
         /\ n \notin InFlight /\ n \notin DOMAIN tasks /\ Others(n)
         /\ \A j \in DOMAIN tasks : tasks'[j] = ts[j]
         /\ n \in InFlight' <=> w # NoWallet /\ stored # NoToken
         /\ n \in InFlight' => /\ tasks'[n].kind = "hydrate" /\ tasks'[n].phase = "asked"
                               /\ tasks'[n].addr = w /\ tasks'[n].token = stored
         /\ ~overtaken' => ~overtaken /\ InFlight' \ {n} = {}
         /\ overtaken' \in BOOLEAN
<1> DEFINE new == [kind |-> "hydrate", phase |-> "asked", addr |-> w, token |-> stored, got |-> NoWallet]
<1>1. /\ DOMAIN tasks = 1..Len(tasks) /\ Len(tasks) \in Nat /\ DOMAIN ts = DOMAIN tasks
      /\ Len(tasks) <= MaxTasks /\ MaxTasks \in Nat /\ stored \in Bearers
  BY NoTokenIsNone, TasksAre DEF TaskTypes
<1>2. new \in TaskSet /\ new # Ended BY <1>1, TasksAre DEF TaskSet, SignPhases, Holders
<1>3. new.kind = "hydrate" /\ new.phase = "asked" /\ new.addr = w /\ new.token = stored OBVIOUS
<1>4. overtaken' = (overtaken \/ \E i \in DOMAIN ts : ts[i] # Ended) BY DEF Adapts
<1>5. \/ w # NoWallet /\ stored # NoToken /\ Len(ts) < MaxTasks /\ tasks' = Append(ts, new)
      \/ ~(w # NoWallet /\ stored # NoToken) /\ tasks' = ts
  BY DEF Adapts
<1> HIDE DEF new
<1>6. n \notin DOMAIN tasks /\ n \notin InFlight BY <1>1, TasksAre
<1>7. /\ tasks' \in Seq(TaskSet \cup {Ended}) /\ Len(tasks') <= MaxTasks
      /\ \A j \in DOMAIN tasks : tasks'[j] = ts[j]
      /\ \/ w # NoWallet /\ stored # NoToken /\ tasks'[n] = new /\ DOMAIN tasks' = DOMAIN tasks \cup {n}
         \/ ~(w # NoWallet /\ stored # NoToken) /\ DOMAIN tasks' = DOMAIN tasks
 <2>1. CASE w # NoWallet /\ stored # NoToken /\ Len(ts) < MaxTasks /\ tasks' = Append(ts, new)
  <3>1. /\ Append(ts, new) \in Seq(TaskSet \cup {Ended}) /\ Len(Append(ts, new)) = n
        /\ DOMAIN Append(ts, new) = 1..n /\ Append(ts, new)[n] = new
        /\ \A j \in 1..Len(ts) : Append(ts, new)[j] = ts[j]
    BY <1>2
  <3>2. 1..n = DOMAIN tasks \cup {n} /\ n <= MaxTasks BY <1>1, <2>1
  <3> QED BY <1>1, <2>1, <3>1, <3>2
 <2>2. CASE ~(w # NoWallet /\ stored # NoToken) /\ tasks' = ts BY <1>1, <2>2
 <2> QED BY <1>5, <2>1, <2>2
<1>8. InFlight' = {j \in DOMAIN tasks' : tasks'[j] # Ended} BY DEF InFlight
<1>9. n \in InFlight' <=> w # NoWallet /\ stored # NoToken BY <1>2, <1>6, <1>7, <1>8
<1>10. ASSUME NEW j \in InFlight' \ {n}
       PROVE  j \in DOMAIN ts /\ ts[j] # Ended /\ j \in InFlight /\ tasks'[j] = tasks[j]
  BY <1>7, <1>8, <1>1 DEF InFlight
<1>11. Others(n) BY <1>10 DEF Others
<1>12. ~overtaken' => ~overtaken /\ InFlight' \ {n} = {} BY <1>4, <1>10
<1> QED BY <1>3, <1>4, <1>6, <1>7, <1>9, <1>11, <1>12

LEMMA AdaptsKeeps ==
  ASSUME WalletSound, NEW w \in Holders, NEW state, NEW ts, Adapts(w, state, ts),
         ts \in Seq(TaskSet \cup {Ended}), Len(ts) = Len(tasks), \A j \in DOMAIN tasks : ts[j] \in {tasks[j], Ended},
         \A j \in InFlight : tasks[j].phase \in SignedPhases => ts[j] = tasks[j],
         UNCHANGED <<stored, dropped>>, sessions' = sessions, signatures' = signatures, unproven' = unproven,
         NEW p \in PanelSet, panel' = AdaptsBalance(w, p), p.signature = panel.signature, p.rows = panel.rows,
         state = "balance_loading" => p.loading
  PROVE  WalletSound'
<1>0. PICK n : n = Len(tasks) + 1 OBVIOUS
<1>1. TaskTypes /\ TasksFit /\ TokensAreOut /\ SessionInOrder /\ BalanceInOrder /\ ProofInOrder /\ PanelFits
  BY DEF WalletSound
<1>2. /\ tasks' \in Seq(TaskSet \cup {Ended}) /\ Len(tasks') <= MaxTasks /\ DOMAIN tasks \subseteq DOMAIN tasks'
      /\ n \notin InFlight /\ n \notin DOMAIN tasks /\ Others(n)
      /\ \A j \in DOMAIN tasks : tasks'[j] = ts[j]
      /\ n \in InFlight' <=> w # NoWallet /\ stored # NoToken
      /\ n \in InFlight' => /\ tasks'[n].kind = "hydrate" /\ tasks'[n].phase = "asked"
                            /\ tasks'[n].addr = w /\ tasks'[n].token = stored
      /\ ~overtaken' => ~overtaken /\ InFlight' \ {n} = {}
      /\ overtaken' \in BOOLEAN
  BY <1>0, <1>1, AdaptedTasks
<1>3. /\ adapter' = w /\ shown' = (IF w = NoWallet THEN Nothing ELSE shown)
      /\ machine' \in {"disconnected", "connected", state}
      /\ overtaken => overtaken'
  BY DEF Adapts
<1>4. /\ shown \in [token : Bearers, profile : Holders] /\ stored \in Bearers /\ dropped \subseteq ClientTokens
  BY <1>1 DEF TaskTypes
<1>5. /\ shown' \in [token : Bearers, profile : Holders] /\ shown'.token \in {shown.token, NoToken}
  BY <1>3, <1>4 DEF Nothing, Bearers, Holders
<1>6. SignaturesGrow /\ ServerFits' BY <1>1, ServerStays
<1>7. TaskTypes' BY <1>2, <1>3, <1>4, <1>5, <1>6 DEF TaskTypes, ServerFits
<1>8. TasksFit'
 <2>1. n \in InFlight' => PhaseFits(tasks'[n]) /\ tasks'[n].phase # "verified"
   BY <1>2, <1>4 DEF PhaseFits, SignPhases, Bearers
 <2> QED BY <1>1, <1>2, <1>6, <2>1, TasksStayFit DEF SignaturesGrow
<1>9. TokensAreOut' BY <1>2, <1>1, <1>5, TokensStayOut
<1>10. ASSUME ~overtaken'
       PROVE  SessionInOrder' BY <1>2, <1>10, <1>1, <1>3, SessionAdapts
<1>11. SessionInOrder' BY <1>10 DEF SessionInOrder
<1>12. /\ panel' \in PanelSet /\ panel'.signature = panel.signature /\ panel'.rows = panel.rows
       /\ (w = NoWallet => panel'.balance = NoWallet) /\ panel'.loading = p.loading
  BY DEF AdaptsBalance, PanelSet, Holders
<1>13. BalanceInOrder'
 <2> SUFFICES ASSUME ~overtaken'
              PROVE  Hydrating' \/ shown' = Nothing
   BY <1>3, <1>12 DEF BalanceInOrder
 <2>1. CASE n \in InFlight' BY <1>2, <2>1 DEF Hydrating
 <2>2. CASE n \notin InFlight' BY <1>1, <1>2, NoTokenIsNone, <1>3, <2>2 DEF SessionInOrder
 <2> QED BY <2>1, <2>2
<1>14. ProofInOrder'
 <2>1. n \in InFlight' => tasks'[n].phase \notin SignedPhases BY <1>2 DEF SignedPhases
 <2>2. ASSUME NEW j \in InFlight, tasks[j].phase \in SignedPhases
       PROVE  j \in InFlight' /\ tasks'[j].phase \in SignedPhases
   BY <1>1, <1>2, <2>2, TasksAre DEF InFlight
 <2> QED BY <1>1, <1>2, <1>3, <1>12, <2>1, <2>2, ProofStays
<1>15. PanelFits' BY <1>3, <1>12, PanelIs, <1>1, <1>6, PanelStays
<1> QED BY <1>7, <1>8, <1>9, <1>11, <1>13, <1>14, <1>15 DEF WalletSound

LEMMA AccountKeeps ==
  ASSUME WalletSound, NEW w \in Holders, AccountChanges(w)
  PROVE  WalletSound'
<1>1. /\ Adapts(w, machine, tasks) /\ UNCHANGED <<stored, dropped>> /\ sessions' = sessions /\ signatures' = signatures
      /\ unproven' = unproven /\ panel' = AdaptsBalance(w, panel)
  BY DEF AccountChanges, WalletChanges, Shows, serverVars
<1>2. tasks \in Seq(TaskSet \cup {Ended}) BY DEF WalletSound, TaskTypes
<1>3. panel \in PanelSet /\ (machine = "balance_loading" => panel.loading) BY PanelIs
<1> QED BY <1>1, <1>2, <1>3, AdaptsKeeps

LEMMA TaskLeft ==
  ASSUME TaskTypes, NEW i \in InFlight
  PROVE  LET ts == Ends(i) IN
         /\ ts \in Seq(TaskSet \cup {Ended}) /\ Len(ts) = Len(tasks)
         /\ \A j \in DOMAIN tasks : ts[j] \in {tasks[j], Ended} /\ (j # i => ts[j] = tasks[j])
<1>1. tasks \in Seq(TaskSet \cup {Ended}) /\ i \in DOMAIN tasks BY TasksAre DEF TaskTypes
<1> QED BY <1>1 DEF Ends

LEMMA PopupKeeps ==
  ASSUME WalletSound, NEW i \in DOMAIN tasks, NEW w \in Accounts, PopupFails(i, w)
  PROVE  WalletSound'
<1> DEFINE ts == Ends(i)
           p == [panel EXCEPT !.error = TRUE]
<1>1. /\ tasks[i].phase = "popup" /\ adapter = NoWallet /\ Adapts(w, "error", ts)
      /\ UNCHANGED <<stored, dropped>> /\ sessions' = sessions /\ signatures' = signatures
      /\ unproven' = unproven /\ panel' = p
  BY DEF PopupFails, PopupAnswers, Errs, Shows, serverVars
<1>2. i \in InFlight /\ TaskTypes /\ w \in Holders /\ w # NoWallet
  BY <1>1, UnderWay, NoTokenIsNone DEF WalletSound, Holders
<1>3. /\ ts \in Seq(TaskSet \cup {Ended}) /\ Len(ts) = Len(tasks)
      /\ \A j \in DOMAIN tasks : ts[j] \in {tasks[j], Ended} /\ (j # i => ts[j] = tasks[j])
  BY <1>2, TaskLeft
<1>4. p \in PanelSet /\ p.signature = panel.signature /\ p.rows = panel.rows BY PanelIs, ErrorShown
<1> HIDE DEF ts, p
<1>5. panel' = AdaptsBalance(w, p) BY <1>1, <1>2 DEF AdaptsBalance
<1>6. \A j \in InFlight : tasks[j].phase \in SignedPhases => ts[j] = tasks[j]
  BY <1>1, <1>2, <1>3, TasksAre DEF SignedPhases
<1> DEFINE state == "error"
<1>7. Adapts(w, state, ts) /\ state # "balance_loading" BY <1>1
<1> HIDE DEF state
<1> QED BY <1>1, <1>2, <1>3, <1>4, <1>5, <1>6, <1>7, AdaptsKeeps, ZenonT(30)

LEMMA DisconnectedKeeps ==
  ASSUME WalletSound, NEW i \in DOMAIN tasks, Disconnected(i)
  PROVE  WalletSound'
<1> DEFINE ts == Ends(i)
<1>1. /\ tasks[i].phase = "leaving" /\ Adapts(NoWallet, machine, ts)
      /\ UNCHANGED <<stored, dropped>> /\ sessions' = sessions /\ signatures' = signatures
      /\ unproven' = unproven /\ panel' = AdaptsBalance(NoWallet, panel)
  BY DEF Disconnected, AdapterLeaves, Shows, serverVars
<1>2. i \in InFlight /\ TaskTypes /\ NoWallet \in Holders BY <1>1, UnderWay DEF WalletSound, Holders
<1>3. /\ ts \in Seq(TaskSet \cup {Ended}) /\ Len(ts) = Len(tasks)
      /\ \A j \in DOMAIN tasks : ts[j] \in {tasks[j], Ended} /\ (j # i => ts[j] = tasks[j])
  BY <1>2, TaskLeft
<1>4. panel \in PanelSet /\ (machine = "balance_loading" => panel.loading) BY PanelIs
<1> HIDE DEF ts
<1>5. \A j \in InFlight : tasks[j].phase \in SignedPhases => ts[j] = tasks[j]
  BY <1>1, <1>2, <1>3, TasksAre DEF SignedPhases
<1> QED BY <1>1, <1>2, <1>3, <1>4, <1>5, AdaptsKeeps

\* The page is loaded anew: only what is stored stays.
LEMMA ReloadKeeps ==
  ASSUME WalletSound, PageReloads
  PROVE  WalletSound'
<1>1. /\ adapter' = NoWallet /\ machine' = "disconnected" /\ shown' = Nothing /\ overtaken' = FALSE
      /\ tasks' = [j \in DOMAIN tasks |-> Ended] /\ UNCHANGED <<stored, dropped>>
      /\ sessions' = sessions /\ signatures' = signatures /\ panel' = NoPanel /\ unproven' = FALSE
  BY DEF PageReloads, Reload, serverVars
<1>2. TaskTypes /\ TokensAreOut BY DEF WalletSound
<1>3. /\ tasks' \in Seq(TaskSet \cup {Ended}) /\ Len(tasks') = Len(tasks) /\ DOMAIN tasks' = DOMAIN tasks
  BY <1>2, TasksAre, <1>1
<1>4. InFlight' = {} BY <1>1 DEF InFlight
<1>5. shown'.token = NoToken /\ shown' \in [token : Bearers, profile : Holders] /\ adapter' \in Holders
  BY <1>1 DEF Nothing, Bearers, Holders
<1>6. Others(0) /\ SignaturesGrow /\ ServerFits' BY <1>1, <1>2, <1>4, ServerStays DEF Others
<1>7. TaskTypes' BY <1>1, <1>2, <1>3, <1>5, <1>6 DEF TaskTypes, ServerFits
<1>8. TasksFit' BY <1>4 DEF TasksFit
<1>9. TokensAreOut' BY <1>1, <1>2, <1>3, <1>4, <1>5, <1>6, TokensStayOut
<1>10. SessionInOrder' BY <1>1, <1>4 DEF SessionInOrder, Reading
<1>11. panel'.balance = NoWallet /\ panel'.signature = NoSignature /\ panel'.rows = <<>> /\ panel' \in PanelSet
  BY <1>1 DEF NoPanel, NoSignature, PanelSet, Holders
<1>12. BalanceInOrder' BY <1>1, <1>11 DEF BalanceInOrder
<1>13. ProofInOrder' BY <1>11, ProofIsGone
<1>14. PanelFits' BY <1>1, <1>6, <1>11, PanelStays DEF WalletSound
<1> QED BY <1>7, <1>8, <1>9, <1>10, <1>12, <1>13, <1>14 DEF WalletSound

LEMMA WalletBegins ==
  ASSUME WalletPanelsInit
  PROVE  WalletSound
<1>1. /\ adapter = NoWallet /\ machine = "disconnected" /\ shown = Nothing /\ stored = NoToken
      /\ tasks = <<>> /\ overtaken = FALSE /\ dropped = {}
      /\ signatures = [w \in Accounts |-> {}] /\ DOMAIN sessions = {}
      /\ panel = NoPanel /\ unproven = FALSE
  BY DEF WalletPanelsInit, WalletClientInit, Server!Init, Server!Empty
<1>2. InFlight = {} /\ Len(tasks) = 0 /\ MaxTasks \in Nat /\ tasks \in Seq(TaskSet \cup {Ended})
  BY <1>1, NoTokenIsNone DEF InFlight
<1>3. shown.token = NoToken /\ shown \in [token : Bearers, profile : Holders] /\ adapter \in Holders /\ stored \in Bearers
  BY <1>1 DEF Nothing, Bearers, Holders
<1>4. TaskTypes
 <2>1. signatures \in [Accounts -> SUBSET Nat] /\ \A t \in DOMAIN sessions : t \in ClientTokens /\ sessions[t] \in SessionOf(t)
   BY <1>1
 <2>2. Len(tasks) <= MaxTasks BY <1>2
 <2>3. overtaken \in BOOLEAN /\ dropped \subseteq ClientTokens BY <1>1
 <2> QED BY <1>2, <1>3, <2>1, <2>2, <2>3 DEF TaskTypes
<1>5. TasksFit /\ TokensAreOut BY <1>1, <1>2, <1>3 DEF TasksFit, TokensAreOut, Out
<1>6. SessionInOrder BY <1>1, <1>2 DEF SessionInOrder, Reading
<1>7. panel.balance = NoWallet /\ panel.signature = NoSignature /\ panel.rows = <<>> /\ panel \in PanelSet
  BY <1>1 DEF NoPanel, NoSignature, PanelSet, Holders
<1>8. BalanceInOrder /\ ProofInOrder BY <1>1, <1>7 DEF BalanceInOrder, ProofInOrder
<1>9. PanelFits
 <2>1. \A n \in 1..Len(panel.rows) : FALSE BY <1>7
 <2> QED BY <1>1, <1>7, <2>1 DEF PanelFits, PanelSet
<1> QED BY <1>4, <1>5, <1>6, <1>8, <1>9 DEF WalletSound

LEMMA TaskKeeps ==
  ASSUME WalletSound, NEW i \in DOMAIN tasks, PanelGoesOn(i)
  PROVE  WalletSound'
<1>1. CASE \E ok \in BOOLEAN : BalanceArrives(i, ok) BY <1>1, BalanceKeeps
<1>2. CASE SignInIsVerified(i) BY <1>2, VerifiedKeeps
<1>3. CASE SessionIsHydrated(i) \/ SessionIsRefreshed(i) BY <1>3, HydrationKeeps
<1>4. CASE SignOutEnds(i) BY <1>4, SignOutKeeps
<1>5. CASE Disconnected(i) BY <1>5, DisconnectedKeeps
<1>6. CASE TaskFails(i) BY <1>6, FailureKeeps
<1>7. CASE NonceAnswers(i) /\ UNCHANGED panelVars BY <1>7, NonceKeeps
<1>8. CASE VerifyAnswers(i) /\ UNCHANGED panelVars BY <1>8, VerificationKeeps
<1>9. CASE SessionAnswers(i) /\ UNCHANGED panelVars BY <1>9, AnswerKeeps
<1>10. CASE HydrationFails(i) /\ UNCHANGED panelVars BY <1>10, HydrationFailureKeeps
<1>11. CASE LogoutAnswers(i) /\ UNCHANGED panelVars BY <1>11, LogoutKeeps
<1> QED BY <1>1, <1>2, <1>3, <1>4, <1>5, <1>6, <1>7, <1>8, <1>9, <1>10, <1>11 DEF PanelGoesOn

LEMMA WalletStep ==
  ASSUME WalletSound, [WalletPanelsNext]_walletPanelsVars
  PROVE  WalletSound'
<1>1. CASE SignInBegins BY <1>1, SignInBeginsKeeps
<1>2. CASE RefreshBegins BY <1>2, RefreshBeginsKeeps, RefreshErrorKeeps
<1>3. CASE RefreshBalance BY <1>3, RefreshBalanceKeeps
<1>4. CASE ClearsAtOnce BY <1>4, ClearKeeps
<1>5. CASE DisconnectsAtOnce BY <1>5, DisconnectKeeps
<1>6. CASE \E kind \in {"clear", "disconnect"} : SignOutBegins(kind) BY <1>6, SignOutBeginsKeeps
<1>7. CASE \E w \in Accounts \cup {NoWallet} : AccountChanges(w) BY <1>7, AccountKeeps DEF Holders
<1>8. CASE \E i \in DOMAIN tasks : PanelGoesOn(i) BY <1>8, TaskKeeps
<1>9. CASE \E i \in DOMAIN tasks, w \in Accounts : PopupFails(i, w) BY <1>9, PopupKeeps
<1>10. CASE \E i \in DOMAIN tasks : SignInSigns(i) BY <1>10, SignKeeps
<1>11. CASE \E i \in DOMAIN tasks : TaskFails(i) BY <1>11, FailureKeeps
<1>12. CASE PageReloads BY <1>12, ReloadKeeps
<1>13. CASE ServerRestarts /\ UNCHANGED panelVars BY <1>13, ServerKeeps DEF ServerRestarts
<1>14. CASE UNCHANGED walletPanelsVars BY <1>14, ServerKeeps DEF walletPanelsVars, walletClientVars
<1> QED
  BY <1>1, <1>2, <1>3, <1>4, <1>5, <1>6, <1>7, <1>8, <1>9, <1>10, <1>11, <1>12, <1>13, <1>14 DEF WalletPanelsNext

\* What the user sees.
LEMMA AtRestAlone ==
  ASSUME InFlight = {}
  PROVE  ~Hydrating /\ ~Balancing
  BY DEF Hydrating, Balancing

LEMMA SessionIsOwn ==
  ASSUME WalletSound
  PROVE  ShownSessionIsOwn /\ SignedOutStaysOut /\ BalanceIsOwn
<1>1. TokensAreOut /\ SessionInOrder /\ BalanceInOrder BY DEF WalletSound
<1>2. SignedOutStaysOut BY <1>1 DEF SignedOutStaysOut, TokensAreOut
<1>3. ShownSessionIsOwn BY <1>1, AtRestAlone DEF ShownSessionIsOwn, SessionInOrder
<1>4. BalanceIsOwn
 <2> SUFFICES ASSUME InFlight = {}, ~overtaken, SessionStatus = "verified" \/ adapter = NoWallet
              PROVE  panel.balance \in {adapter, NoWallet}
   BY DEF BalanceIsOwn, AtRest
 <2>1. CASE adapter = NoWallet BY <1>1, <2>1 DEF BalanceInOrder
 <2>2. CASE SessionStatus = "verified" BY <2>2, <1>1, AtRestAlone DEF SessionStatus, BalanceInOrder
 <2> QED BY <2>1, <2>2
<1> QED BY <1>2, <1>3, <1>4

LEMMA ProofIsOfASession ==
  ASSUME NEW rpc, ProofStatus(rpc) = "verified"
  PROVE  panel.signature # NoSignature /\ shown # Nothing /\ machine # "error" /\ SessionStatus = "verified" /\ ~IsBusy /\ ~panel.error
<1>1. panel.signature # NoSignature /\ SessionStatus = "verified" /\ ~IsBusy /\ ~panel.error BY DEF ProofStatus
<1>2. shown # Nothing /\ machine # "error" BY <1>1 DEF SessionStatus
<1> QED BY <1>1, <1>2

LEMMA ProofIsOwn ==
  ASSUME WalletSound
  PROVE  ProofIsTheSessions
<1> SUFFICES ASSUME InFlight = {}, ~overtaken, ProofStatus("up") = "verified"
             PROVE  shown.token[1] = adapter /\ (unproven \/ panel.signature = shown.token[2])
  BY DEF ProofIsTheSessions, AtRest
<1>1. panel.signature # NoSignature /\ shown # Nothing BY ProofIsOfASession
<1>2. SessionInOrder /\ ProofInOrder BY DEF WalletSound
<1>3. shown.token[1] = adapter /\ stored = shown.token /\ shown.token \in ClientTokens
  BY <1>1, <1>2, AtRestAlone DEF SessionInOrder
<1>4. unproven \/ stored[2] = panel.signature BY <1>1, <1>2, <1>3, NoTokenIsNone DEF ProofInOrder
<1> QED BY <1>3, <1>4

LEMMA RowsAre ==
  ASSUME WalletSound
  PROVE  RowsAreSignIns
<1>1. DOMAIN panel.rows = 1..Len(panel.rows) BY PanelIs DEF PanelSet
<1>2. \A r \in Receipts : ReceiptLabel(r) # "verified" BY DEF Receipts, ReceiptLabel, Fixture
<1> QED BY <1>1, <1>2 DEF RowsAreSignIns, WalletSound, PanelFits

LEMMA TrailIs ==
  ASSUME WalletSound
  PROVE  TrailInOrder
<1> SUFFICES ASSUME NEW rpc \in {"up", "down", "unknown"}
             PROVE  LET t == Trail(rpc) IN
                    /\ t.proof_verified = "complete" =>
                          t.session_verify = "complete" /\ t.tx_confirmed = "complete" /\ t.tx_signed = "complete"
                    /\ t.tx_confirmed = "complete" /\ t.tx_signed # "complete" => t.demo
                    /\ AtRest /\ t.session_verify = "complete" => t.wallet_connect = "complete"
  BY DEF TrailInOrder
<1> DEFINE t == Trail(rpc)
           signed == panel.signature # NoSignature
           confirmed == TxStatus = "confirmed" \/ \E r \in Receipts : r.status = "confirmed"
<1>1. /\ t.proof_verified = Step(ProofStatus(rpc) = "verified", FALSE)
      /\ t.session_verify = Step(SessionStatus = "verified", adapter # NoWallet)
      /\ t.tx_confirmed = Step(confirmed, signed) /\ t.tx_signed = Step(signed, FALSE)
      /\ t.wallet_connect = Step(adapter # NoWallet, FALSE)
      /\ t.demo = \E r \in Receipts : r.demo
  BY DEF Trail
<1>2. \A done, begun : Step(done, begun) = "complete" <=> done BY DEF Step
<1>3. ProofStatus(rpc) = "verified" => SessionStatus = "verified" /\ confirmed /\ signed
 <2> SUFFICES ASSUME ProofStatus(rpc) = "verified"
              PROVE  SessionStatus = "verified" /\ confirmed /\ signed
   OBVIOUS
 <2>1. panel.signature # NoSignature /\ machine # "error" /\ SessionStatus = "verified" /\ ~IsBusy /\ ~panel.error
   BY ProofIsOfASession
 <2>2. machine \notin {"session_verifying", "signing", "connecting", "balance_loading"} BY <2>1, PanelIs DEF IsBusy
 <2>3. TxStatus = "confirmed" BY <2>1, <2>2 DEF TxStatus
 <2> QED BY <2>1, <2>3
<1>4. confirmed /\ ~signed => \E r \in Receipts : r.demo
 <2> SUFFICES ASSUME confirmed, panel.signature = NoSignature
              PROVE  \E r \in Receipts : r.demo
   OBVIOUS
 <2>1. TxStatus # "confirmed" BY DEF TxStatus
 <2>2. \A r \in Receipts : r.status = "confirmed" => r.demo BY DEF Receipts, Fixture
 <2> QED BY <2>1, <2>2
<1>5. AtRest /\ SessionStatus = "verified" => adapter # NoWallet
 <2> SUFFICES ASSUME InFlight = {}, ~overtaken, SessionStatus = "verified"
              PROVE  adapter # NoWallet
   BY DEF AtRest
 <2>1. shown # Nothing BY DEF SessionStatus
 <2>2. SessionInOrder BY DEF WalletSound
 <2>3. shown.token[1] = adapter /\ shown.token \in ClientTokens BY <2>1, <2>2, AtRestAlone DEF SessionInOrder
 <2> QED BY <2>3, NoTokenIsNone
<1> DEFINE mayBeDemo == \E r \in Receipts : r.demo
<1> HIDE DEF t, signed, confirmed, mayBeDemo
<1>6. t.proof_verified = "complete" =>
            t.session_verify = "complete" /\ t.tx_confirmed = "complete" /\ t.tx_signed = "complete"
  BY <1>1, <1>2, <1>3
<1>7. t.tx_confirmed = "complete" /\ t.tx_signed # "complete" => t.demo
 <2>1. confirmed /\ ~signed => mayBeDemo BY <1>4 DEF mayBeDemo
 <2>2. t.tx_confirmed = "complete" /\ t.tx_signed # "complete" => mayBeDemo
  <3>1. t.tx_confirmed = "complete" => confirmed BY <1>1 DEF Step
  <3>2. signed => t.tx_signed = "complete" BY <1>1, <1>2
  <3> QED BY <2>1, <3>1, <3>2
 <2>3. t.demo = mayBeDemo BY <1>1 DEF mayBeDemo
 <2> QED BY <2>2, <2>3
<1>8. AtRest /\ t.session_verify = "complete" => t.wallet_connect = "complete" BY <1>1, <1>2, <1>5
<1> QED BY <1>6, <1>7, <1>8 DEF t

\* Whatever the accounts, the answers, their failures and reloads, and
\* however many tasks overlap: the session that is shown is the account's
\* own, a token signed out of stays out, and the balance, proof, rows and
\* trail on screen belong to that session.
THEOREM WalletIsAlwaysTheUsers == OperationsSpec => []WalletIsTheUsers
<1>1. OperationsInit => WalletSound BY WalletBegins DEF OperationsInit
<1>2. WalletSound /\ [OperationsNext]_operationsVars => WalletSound'
 <2> SUFFICES ASSUME WalletSound, [OperationsNext]_operationsVars
              PROVE  WalletSound'
   OBVIOUS
 <2>1. [WalletPanelsNext]_walletPanelsVars BY DEF OperationsNext, ClientNext, ServiceNext, operationsVars, frontVars
 <2> QED BY <2>1, WalletStep
<1>3. WalletSound => WalletIsTheUsers BY SessionIsOwn, ProofIsOwn, RowsAre, TrailIs DEF WalletIsTheUsers
<1> QED BY <1>1, <1>2, <1>3, PTL DEF OperationsSpec


\* The page of the command center (CommandCenter). While no two loops have
\* overlapped, the newest alone may be in flight, and the page is then
\* busy and shows no error; a shown result is of a loop that is done.
LoopPhases == {"select", "execute", "done", "failed"}
ShownResults == [status : {"none", "verified", "degraded"}, degraded : BOOLEAN, loop : Nat]

LoopTypes ==
    /\ {demoMode, loopBusy, loopError, advanced, overlapping} \subseteq BOOLEAN
    /\ loops \in Seq(LoopPhases)
    /\ lastResult \in ShownResults

NewestIsAlone ==
    ~overlapping => \A i \in LoopsInFlight : i = Len(loops) /\ loopBusy /\ ~loopError

ResultIsOfALoop ==
    lastResult.loop # 0 => lastResult.loop \in DOMAIN loops /\ loops[lastResult.loop] = "done"

LoopsSound ==
    /\ LoopTypes
    /\ loopBusy => LoopsInFlight # {}
    /\ NewestIsAlone
    /\ ResultIsOfALoop
    /\ FinalStepIsProven
    /\ PageTellsLastLoop

LEMMA FlightIs ==
  ASSUME LoopTypes
  PROVE  /\ DOMAIN loops = 1..Len(loops) /\ Len(loops) \in Nat
         /\ \A i : i \in LoopsInFlight <=> i \in 1..Len(loops) /\ loops[i] \in {"select", "execute"}
         /\ loops # <<>> <=> Len(loops) # 0
  BY DEF LoopTypes, LoopsInFlight

\* Nothing of a loop has changed.
LEMMA LoopsStay ==
  ASSUME LoopsSound, demoMode' \in BOOLEAN, UNCHANGED loopVars
  PROVE  LoopsSound'
<1>1. /\ lastResult' = lastResult /\ loopStep' = loopStep /\ loopBusy' = loopBusy /\ loopError' = loopError
      /\ loops' = loops /\ advanced' = advanced /\ overlapping' = overlapping
  BY DEF loopVars
<1>2. LoopsInFlight' = LoopsInFlight BY <1>1 DEF LoopsInFlight
<1>3. LoopTypes' BY <1>1 DEF LoopsSound, LoopTypes
<1>4. NewestIsAlone' /\ ResultIsOfALoop' /\ FinalStepIsProven'
  BY <1>1, <1>2 DEF LoopsSound, NewestIsAlone, ResultIsOfALoop, FinalStepIsProven
<1>5. PageTellsLastLoop' BY <1>1, <1>2 DEF LoopsSound, PageTellsLastLoop
<1> QED BY <1>1, <1>2, <1>3, <1>4, <1>5 DEF LoopsSound

LEMMA LoopBegins ==
  ASSUME LoopsSound, RunLinkedLoop
  PROVE  LoopsSound'
<1> DEFINE n == Len(loops) + 1
<1>1. /\ loopError' = FALSE /\ loopBusy' = TRUE /\ loopStep' = 1 /\ loops' = Append(loops, "select")
      /\ advanced' = FALSE /\ overlapping' = (overlapping \/ LoopsInFlight # {})
      /\ demoMode' = demoMode /\ lastResult' = lastResult
  BY DEF RunLinkedLoop
<1>2. LoopTypes BY DEF LoopsSound
<1>3. /\ loops' \in Seq(LoopPhases) /\ Len(loops') = n /\ loops'[n] = "select"
      /\ DOMAIN loops' = 1..n /\ \A i \in 1..Len(loops) : loops'[i] = loops[i]
  BY <1>1, <1>2 DEF LoopTypes, LoopPhases
<1>4. LoopTypes' BY <1>1, <1>2, <1>3 DEF LoopTypes
<1>5. n \in LoopsInFlight' BY <1>2, <1>3 DEF LoopTypes, LoopsInFlight
<1>6. NewestIsAlone'
 <2> SUFFICES ASSUME LoopsInFlight = {}, NEW i \in LoopsInFlight'
              PROVE  i = n
   BY <1>1, <1>3 DEF NewestIsAlone
 <2>1. i \in 1..n /\ loops'[i] \in {"select", "execute"} BY <1>3 DEF LoopsInFlight
 <2>2. i \in 1..Len(loops) => i \in LoopsInFlight BY <1>2, <1>3, <2>1, FlightIs
 <2> QED BY <1>2, <2>1, <2>2, FlightIs
<1>7. ResultIsOfALoop' BY <1>1, <1>2, <1>3, FlightIs DEF LoopsSound, ResultIsOfALoop
<1>8. FinalStepIsProven' /\ PageTellsLastLoop' BY <1>1, <1>5 DEF FinalStepIsProven, PageTellsLastLoop, StoryFinal
<1> QED BY <1>1, <1>4, <1>5, <1>6, <1>7, <1>8 DEF LoopsSound

LEMMA OneLoopMoves ==
  ASSUME LoopTypes, NEW i \in DOMAIN loops, NEW phase \in LoopPhases, loops' = [loops EXCEPT ![i] = phase]
  PROVE  /\ loops' \in Seq(LoopPhases) /\ Len(loops') = Len(loops) /\ DOMAIN loops' = DOMAIN loops
         /\ loops'[i] = phase /\ \A j \in DOMAIN loops : j # i => loops'[j] = loops[j]
         /\ LoopsInFlight' = IF phase \in {"select", "execute"} THEN LoopsInFlight \cup {i} ELSE LoopsInFlight \ {i}
<1>1. loops \in Seq(LoopPhases) BY DEF LoopTypes
<1>2. /\ loops' \in Seq(LoopPhases) /\ Len(loops') = Len(loops) /\ DOMAIN loops' = DOMAIN loops
      /\ loops'[i] = phase /\ \A j \in DOMAIN loops : j # i => loops'[j] = loops[j]
  BY <1>1
<1>3. LoopsInFlight' = IF phase \in {"select", "execute"} THEN LoopsInFlight \cup {i} ELSE LoopsInFlight \ {i}
  BY <1>2 DEF LoopsInFlight
<1> QED BY <1>2, <1>3

LEMMA LoopSelects ==
  ASSUME LoopsSound, NEW i \in DOMAIN loops, SkillSelected(i)
  PROVE  LoopsSound'
<1>1. /\ loops[i] = "select" /\ loops' = [loops EXCEPT ![i] = "execute"] /\ loopStep' = 2 /\ advanced' = FALSE
      /\ demoMode' = demoMode /\ lastResult' = lastResult /\ loopBusy' = loopBusy /\ loopError' = loopError
      /\ overlapping' = overlapping
  BY DEF SkillSelected
<1>2. LoopTypes /\ i \in LoopsInFlight BY <1>1 DEF LoopsSound, LoopsInFlight
<1>3. /\ loops' \in Seq(LoopPhases) /\ Len(loops') = Len(loops) /\ DOMAIN loops' = DOMAIN loops
      /\ \A j \in DOMAIN loops : j # i => loops'[j] = loops[j]
      /\ LoopsInFlight' = LoopsInFlight
 <2> DEFINE phase == "execute"
 <2>1. phase \in LoopPhases /\ phase \in {"select", "execute"} /\ loops' = [loops EXCEPT ![i] = phase]
   BY <1>1 DEF LoopPhases
 <2> HIDE DEF phase
 <2>2. /\ loops' \in Seq(LoopPhases) /\ Len(loops') = Len(loops) /\ DOMAIN loops' = DOMAIN loops
       /\ \A j \in DOMAIN loops : j # i => loops'[j] = loops[j]
   BY <1>2, <2>1, OneLoopMoves
 <2>3. LoopsInFlight' = LoopsInFlight \cup {i} BY <1>2, <2>1, OneLoopMoves
 <2> QED BY <1>2, <2>2, <2>3
<1>4. LoopTypes' BY <1>1, <1>2, <1>3 DEF LoopTypes
<1>5. NewestIsAlone' BY <1>1, <1>3 DEF LoopsSound, NewestIsAlone
<1>6. ResultIsOfALoop' BY <1>1, <1>3 DEF LoopsSound, ResultIsOfALoop
<1>7. FinalStepIsProven' /\ PageTellsLastLoop'
  BY <1>1, <1>2, <1>3 DEF FinalStepIsProven, PageTellsLastLoop, StoryFinal
<1> QED BY <1>1, <1>2, <1>3, <1>4, <1>5, <1>6, <1>7 DEF LoopsSound

\* A loop that ends leaves nothing in flight, unless two have overlapped.
LEMMA LoopEnds ==
  ASSUME LoopsSound, NEW i \in LoopsInFlight, NEW phase \in {"done", "failed"}, loops' = [loops EXCEPT ![i] = phase],
         overlapping' = overlapping
  PROVE  /\ loops' \in Seq(LoopPhases) /\ Len(loops') = Len(loops) /\ DOMAIN loops' = DOMAIN loops
         /\ i \in DOMAIN loops /\ loops'[i] = phase /\ \A j \in DOMAIN loops : j # i => loops'[j] = loops[j]
         /\ ~overlapping => LoopsInFlight' = {} /\ i = Len(loops) /\ ~loopError
         /\ NewestIsAlone'
         /\ lastResult' = lastResult => ResultIsOfALoop' /\ lastResult.loop # i
<1>1. LoopTypes /\ NewestIsAlone /\ ResultIsOfALoop BY DEF LoopsSound
<1>2. i \in DOMAIN loops /\ loops[i] \in {"select", "execute"} BY DEF LoopsInFlight
<1>3. /\ loops' \in Seq(LoopPhases) /\ Len(loops') = Len(loops) /\ DOMAIN loops' = DOMAIN loops
      /\ loops'[i] = phase /\ \A j \in DOMAIN loops : j # i => loops'[j] = loops[j]
      /\ LoopsInFlight' = LoopsInFlight \ {i} BY <1>1, <1>2, OneLoopMoves DEF LoopPhases
<1>4. ~overlapping => LoopsInFlight' = {} /\ i = Len(loops) /\ ~loopError BY <1>1, <1>3 DEF NewestIsAlone
<1>5. NewestIsAlone' BY <1>4 DEF NewestIsAlone
<1>6. lastResult.loop # i BY <1>1, <1>2, FlightIs DEF ResultIsOfALoop
<1>7. lastResult' = lastResult => ResultIsOfALoop' BY <1>1, <1>3, <1>6 DEF ResultIsOfALoop
<1> QED BY <1>2, <1>3, <1>4, <1>5, <1>6, <1>7

LEMMA LoopAnswered ==
  ASSUME LoopsSound, NEW i \in DOMAIN loops, NEW r \in LoopResults, LoopAnswers(i, r)
  PROVE  LoopsSound'
<1>1. /\ loops[i] = "execute" /\ loops' = [loops EXCEPT ![i] = "done"] /\ lastResult' = [r EXCEPT !.loop = i]
      /\ loopStep' = StoryStepAfter(r.status) /\ loopBusy' = FALSE /\ advanced' = FALSE
      /\ demoMode' = demoMode /\ loopError' = loopError /\ overlapping' = overlapping
  BY DEF LoopAnswers
<1>2. LoopTypes /\ i \in LoopsInFlight /\ i \in Nat BY <1>1, FlightIs DEF LoopsSound, LoopsInFlight
<1>3. /\ loops' \in Seq(LoopPhases) /\ Len(loops') = Len(loops) /\ DOMAIN loops' = DOMAIN loops
      /\ loops'[i] = "done"
      /\ ~overlapping => LoopsInFlight' = {} /\ i = Len(loops) /\ ~loopError
      /\ NewestIsAlone'
  BY <1>1, <1>2, LoopEnds
<1>4. lastResult' \in ShownResults /\ lastResult'.loop = i /\ lastResult'.status = r.status
      /\ r.status \in {"verified", "degraded"} BY <1>1, <1>2 DEF LoopResults, ShownResults
<1>5. LoopTypes' BY <1>1, <1>2, <1>3, <1>4 DEF LoopTypes
<1>6. ResultIsOfALoop' BY <1>3, <1>4 DEF ResultIsOfALoop
<1>7. FinalStepIsProven' BY <1>1, <1>4 DEF FinalStepIsProven, StoryFinal, StoryStepAfter
<1>8. PageTellsLastLoop' BY <1>1, <1>3, <1>4 DEF PageTellsLastLoop
<1> QED BY <1>1, <1>3, <1>5, <1>6, <1>7, <1>8 DEF LoopsSound

LEMMA LoopFailed ==
  ASSUME LoopsSound, NEW i \in DOMAIN loops, LoopFails(i)
  PROVE  LoopsSound'
<1>1. /\ i \in LoopsInFlight /\ loops' = [loops EXCEPT ![i] = "failed"] /\ lastResult' = lastResult
      /\ loopStep' = 0 /\ loopBusy' = FALSE /\ advanced' = FALSE /\ loopError' = TRUE
      /\ demoMode' = demoMode /\ overlapping' = overlapping
  BY DEF LoopFails, StepAfterError, Finally
<1>2. LoopTypes BY DEF LoopsSound
<1>3. /\ loops' \in Seq(LoopPhases) /\ Len(loops') = Len(loops) /\ loops'[i] = "failed"
      /\ ~overlapping => LoopsInFlight' = {} /\ i = Len(loops)
      /\ NewestIsAlone' /\ ResultIsOfALoop' /\ lastResult.loop # i
  BY <1>1, LoopEnds
<1>4. LoopTypes' BY <1>1, <1>2, <1>3 DEF LoopTypes
<1>5. FinalStepIsProven' /\ PageTellsLastLoop' BY <1>1, <1>3 DEF FinalStepIsProven, PageTellsLastLoop, StoryFinal
<1> QED BY <1>1, <1>3, <1>4, <1>5 DEF LoopsSound

LEMMA DemoAdvances ==
  ASSUME LoopsSound, AdvanceDemo
  PROVE  LoopsSound'
<1>1. /\ ~loopBusy /\ loopBusy' = loopBusy /\ loopError' = FALSE /\ advanced' = TRUE
      /\ demoMode' = demoMode /\ lastResult' = lastResult /\ loops' = loops /\ overlapping' = overlapping
  BY DEF AdvanceDemo
<1>2. LoopsInFlight' = LoopsInFlight BY <1>1 DEF LoopsInFlight
<1>3. LoopTypes' BY <1>1 DEF LoopsSound, LoopTypes
<1>4. NewestIsAlone' /\ ResultIsOfALoop' BY <1>1, <1>2 DEF LoopsSound, NewestIsAlone, ResultIsOfALoop
<1>5. FinalStepIsProven' /\ PageTellsLastLoop' BY <1>1 DEF FinalStepIsProven, PageTellsLastLoop
<1> QED BY <1>1, <1>2, <1>3, <1>4, <1>5 DEF LoopsSound

LEMMA CommandCenterStep ==
  ASSUME LoopsSound, [CommandCenterNext]_commandCenterVars
  PROVE  LoopsSound'
<1>1. demoMode \in BOOLEAN BY DEF LoopsSound, LoopTypes
<1>2. CASE UNCHANGED loopVars /\ demoMode' \in BOOLEAN BY <1>2, LoopsStay
<1>3. CASE RunLinkedLoop BY <1>3, LoopBegins
<1>4. CASE \E i \in DOMAIN loops : SkillSelected(i) BY <1>4, LoopSelects
<1>5. CASE \E i \in DOMAIN loops : LoopFails(i) BY <1>5, LoopFailed
<1>6. CASE \E i \in DOMAIN loops : \E r \in LoopResults : LoopAnswers(i, r) BY <1>6, LoopAnswered
<1>7. CASE AdvanceDemo BY <1>7, DemoAdvances
<1>8. CASE \E kind \in DOMAIN lists : ListFails(kind) \/ \E skills \in SUBSET Registry : ListAnswers(kind, skills)
  BY <1>1, <1>2, <1>8 DEF ListFails, ListAnswers
<1>9. CASE RetryList \/ ToggleDemo BY <1>1, <1>2, <1>9 DEF RetryList, ToggleDemo
<1>10. CASE \E s \in Registry \cup {DemoSkill} : SelectSkill(s) BY <1>1, <1>2, <1>10 DEF SelectSkill
<1>11. CASE \E w \in PageWallets \cup {Nobody} : WalletSwitches(w) BY <1>1, <1>2, <1>11 DEF WalletSwitches
<1>12. CASE UNCHANGED commandCenterVars BY <1>1, <1>2, <1>12 DEF commandCenterVars, loopVars
<1> QED BY <1>3, <1>4, <1>5, <1>6, <1>7, <1>8, <1>9, <1>10, <1>11, <1>12 DEF CommandCenterNext, ClickRun, ClickRetry

LEMMA CommandCenterBegins ==
  ASSUME CommandCenterInit
  PROVE  LoopsSound
<1>1. /\ demoMode \in BOOLEAN /\ lastResult = NoResult /\ loopStep = 0 /\ loopBusy = FALSE /\ loopError = FALSE
      /\ loops = <<>> /\ advanced = FALSE /\ overlapping = FALSE
  BY DEF CommandCenterInit
<1>2. LoopTypes
 <2>1. <<>> \in Seq(LoopPhases) /\ NoResult \in ShownResults BY DEF NoResult, ShownResults
 <2> QED BY <1>1, <2>1 DEF LoopTypes
<1>3. LoopsInFlight = {} BY <1>1 DEF LoopsInFlight
<1>4. NewestIsAlone /\ ResultIsOfALoop BY <1>1, <1>3 DEF NewestIsAlone, ResultIsOfALoop, NoResult
<1>5. FinalStepIsProven /\ PageTellsLastLoop BY <1>1 DEF FinalStepIsProven, PageTellsLastLoop, StoryFinal
<1> QED BY <1>1, <1>2, <1>4, <1>5 DEF LoopsSound

\* The timeline outside the demo: what invites to verify has been earned.
LEMMA NextIsEarned ==
  ASSUME LoopTypes, ~demoMode, NEW verified \in BOOLEAN, NEW lesson \in BOOLEAN, NEW isStored \in BOOLEAN, NEW committed \in BOOLEAN,
         LiveTimeline(verified, lesson, isStored, committed).next = "active"
  PROVE  /\ verified /\ pageWallet # Nobody /\ ~loopError
         /\ lastResult.status = "verified" /\ ~lastResult.degraded
<1> DEFINE anchored == lastResult.status \in {"anchored", "verified"} \/ demoMode
           failing == DegradedMessages(verified)
           reputation == IF anchored \/ lastResult.status = "verified" THEN "complete" ELSE "pending"
<1>1. LiveTimeline(verified, lesson, isStored, committed).next =
        CASE failing -> "failed"
          [] ~failing /\ reputation = "complete" /\ loopStep >= 8 -> "active"
          [] OTHER -> "pending"
  BY DEF LiveTimeline, BuildCommandTimeline, NextLane
<1>2. ~failing /\ reputation = "complete" BY <1>1
<1>3. lastResult.status = "verified" BY <1>2 DEF LoopTypes, ShownResults
<1>4. ~loopError /\ ~lastResult.degraded /\ EffectiveWallet # Nobody /\ verified BY <1>2 DEF DegradedMessages
<1> QED BY <1>3, <1>4 DEF EffectiveWallet

LEMMA LanesAreComplete ==
  ASSUME ~demoMode, NEW verified, NEW lesson, NEW isStored, NEW committed,
         verified, pageWallet # Nobody, lastResult.status = "verified",
         NEW lane \in {"wallet", "outcome", "receipt", "reputation"}
  PROVE  LiveTimeline(verified, lesson, isStored, committed)[lane] = "complete"
<1> DEFINE anchored == lastResult.status \in {"anchored", "verified"} \/ demoMode
           begun == lastResult.status # "none" /\ loopStep >= 8
<1>1. EffectiveWallet # Nobody BY DEF EffectiveWallet
<1>2. /\ LiveTimeline(verified, lesson, isStored, committed).wallet =
            LaneAfter(EffectiveWallet # Nobody /\ (verified \/ demoMode), EffectiveWallet # Nobody)
      /\ LiveTimeline(verified, lesson, isStored, committed).outcome =
            (IF lastResult.status = "failed" THEN "failed" ELSE LaneAfter(lastResult.status # "none", FALSE))
      /\ LiveTimeline(verified, lesson, isStored, committed).receipt =
            LaneAfter(anchored \/ lastResult.status \in {"verified", "anchored"}, begun)
      /\ LiveTimeline(verified, lesson, isStored, committed).reputation =
            (IF anchored \/ lastResult.status = "verified" THEN "complete" ELSE "pending")
  BY DEF LiveTimeline, BuildCommandTimeline
<1>3. \A done, since : done => LaneAfter(done, since) = "complete" BY DEF LaneAfter
<1> HIDE DEF begun
<1>4. /\ LiveTimeline(verified, lesson, isStored, committed).wallet = "complete"
      /\ LiveTimeline(verified, lesson, isStored, committed).outcome = "complete"
  BY <1>1, <1>2, <1>3
<1>5. /\ LiveTimeline(verified, lesson, isStored, committed).receipt = "complete"
      /\ LiveTimeline(verified, lesson, isStored, committed).reputation = "complete"
  BY <1>2, <1>3
<1> QED BY <1>4, <1>5

LEMMA PageTells ==
  ASSUME LoopsSound
  PROVE  FinalStepIsProven /\ BusyIsInFlight /\ PageTellsLastLoop /\ VerifyLaneIsEarned
<1>1. BusyIsInFlight BY DEF LoopsSound, BusyIsInFlight, NewestIsAlone
<1>2. VerifyLaneIsEarned
 <2> SUFFICES ASSUME ~demoMode, NEW verified \in BOOLEAN, NEW lesson \in BOOLEAN, NEW isStored \in BOOLEAN, NEW committed \in BOOLEAN,
                     LiveTimeline(verified, lesson, isStored, committed).next = "active"
              PROVE  /\ verified /\ pageWallet # Nobody /\ ~loopError
                     /\ lastResult.status = "verified" /\ ~lastResult.degraded
                     /\ \A lane \in {"wallet", "outcome", "receipt", "reputation"} :
                           LiveTimeline(verified, lesson, isStored, committed)[lane] = "complete"
   BY DEF VerifyLaneIsEarned
 <2>1. /\ verified /\ pageWallet # Nobody /\ ~loopError
       /\ lastResult.status = "verified" /\ ~lastResult.degraded
   BY NextIsEarned DEF LoopsSound
 <2>2. \A lane \in {"wallet", "outcome", "receipt", "reputation"} :
           LiveTimeline(verified, lesson, isStored, committed)[lane] = "complete"
   BY <2>1, LanesAreComplete, ZenonT(30)
 <2> QED BY <2>1, <2>2
<1> QED BY <1>1, <1>2 DEF LoopsSound

\* The simulated runtime: lists that grow at the front, and are cut.
LEMMA FrontAdded ==
  ASSUME NEW S, NEW s \in Seq(S), NEW front \in Seq(S)
  PROVE  LET t == front \o s IN
         /\ t \in Seq(S) /\ Len(t) = Len(front) + Len(s)
         /\ \A i \in 1..Len(front) : t[i] = front[i]
         /\ \A i \in 1..Len(s) : t[i + Len(front)] = s[i]
         /\ \A i \in 1..Len(t) : i \in 1..Len(front) \/ (i - Len(front) \in 1..Len(s) /\ t[i] = s[i - Len(front)])
<1>1. (front \o s) \in Seq(S) /\ Len(front \o s) = Len(front) + Len(s) /\ Len(front) \in Nat /\ Len(s) \in Nat OBVIOUS
<1>2. \A i \in 1..Len(front) : (front \o s)[i] = front[i] OBVIOUS
<1>3. \A i \in 1..Len(s) : (front \o s)[i + Len(front)] = s[i] OBVIOUS
<1>4. ASSUME NEW i \in 1..Len(front \o s), i \notin 1..Len(front)
      PROVE  i - Len(front) \in 1..Len(s) /\ (front \o s)[i] = s[i - Len(front)] BY <1>1, <1>4, <1>3
<1> QED BY <1>1, <1>2, <1>3, <1>4

LEMMA FrontCut ==
  ASSUME NEW S, NEW t \in Seq(S), NEW n \in Nat
  PROVE  /\ FirstN(t, n) \in Seq(S) /\ Len(FirstN(t, n)) = LesserOf(n, Len(t))
         /\ Len(FirstN(t, n)) <= Len(t)
         /\ \A i \in 1..Len(FirstN(t, n)) : FirstN(t, n)[i] = t[i]
<1>1. LesserOf(n, Len(t)) \in 0..Len(t) BY DEF LesserOf
<1> DEFINE m == LesserOf(n, Len(t))
<1>2. m \in 0..Len(t) /\ FirstN(t, n) = SubSeq(t, 1, m) BY <1>1 DEF FirstN
<1> HIDE DEF m
<1>3. Len(t) \in Nat /\ m \in Nat /\ m <= Len(t) BY <1>2
<1>4. SubSeq(t, 1, m) \in Seq(S) /\ Len(SubSeq(t, 1, m)) = m /\ \A i \in 1..m : SubSeq(t, 1, m)[i] = t[i] BY <1>3
<1> QED BY <1>2, <1>3, <1>4 DEF m

CycleRuns == [id : Nat, status : {"failed", "success"}, before : Int, after : Int]
CycleReceipts == {"decision", "execution", "proof"} \X Nat
CycleLinks == [run : Nat, receipt : CycleReceipts, status : {"linked", "verified"}]
CycleMemories == [run : Nat, before : Int, after : Int, receipt : CycleReceipts]

SuccessesOf(runs) == {i \in DOMAIN runs : runs[i].status = "success"}

LEMMA SuccessesFinite ==
  ASSUME NEW s \in Seq(CycleRuns)
  PROVE  IsFiniteSet(SuccessesOf(s)) /\ Cardinality(SuccessesOf(s)) \in Nat
<1>1. DOMAIN s = 1..Len(s) /\ Len(s) \in Int OBVIOUS
<1>2. IsFiniteSet(DOMAIN s) BY <1>1, FS_Interval
<1>3. SuccessesOf(s) \in SUBSET DOMAIN s BY DEF SuccessesOf
<1>4. IsFiniteSet(SuccessesOf(s)) BY <1>2, <1>3, FS_Subset
<1> QED BY <1>4, FS_CardinalityType

LEMMA SuccessesCount ==
  ASSUME NEW s \in Seq(CycleRuns), NEW t \in Seq(CycleRuns), NEW run, Len(t) = Len(s) + 1, t[1] = run,
         \A i \in 1..Len(s) : t[i + 1] = s[i]
  PROVE  Cardinality(SuccessesOf(t)) = Cardinality(SuccessesOf(s)) + IF run.status = "success" THEN 1 ELSE 0
<1> DEFINE Moved == {i \in SuccessesOf(t) : i # 1}
           f == [i \in SuccessesOf(s) |-> i + 1]
<1>1. DOMAIN s = 1..Len(s) /\ DOMAIN t = 1..(Len(s) + 1) /\ Len(s) \in Nat OBVIOUS
<1>2. f \in [SuccessesOf(s) -> Moved]
 <2> SUFFICES ASSUME NEW i \in SuccessesOf(s)
              PROVE  i + 1 \in Moved
   OBVIOUS
 <2>1. i \in 1..Len(s) /\ s[i].status = "success" /\ i + 1 \in 1..(Len(s) + 1) /\ i + 1 # 1 BY <1>1 DEF SuccessesOf
 <2> QED BY <1>1, <2>1 DEF SuccessesOf
<1>3. \A a, b \in SuccessesOf(s) : f[a] = f[b] => a = b BY <1>1 DEF SuccessesOf
<1>4. ASSUME NEW j \in Moved
      PROVE  \E i \in SuccessesOf(s) : f[i] = j
 <2>1. j - 1 \in 1..Len(s) /\ (j - 1) + 1 = j /\ t[j].status = "success" BY <1>1 DEF SuccessesOf
 <2>2. t[(j - 1) + 1] = s[j - 1] BY <2>1
 <2>3. j - 1 \in SuccessesOf(s) BY <1>1, <2>1, <2>2 DEF SuccessesOf
 <2> QED BY <2>1, <2>3
<1>5. f \in Bijection(SuccessesOf(s), Moved) BY <1>2, <1>3, <1>4 DEF Injection, IsInjective, Surjection, Bijection
<1>6. IsFiniteSet(Moved) /\ Cardinality(Moved) = Cardinality(SuccessesOf(s))
  BY <1>5, SuccessesFinite, FS_Bijection DEF ExistsBijection
<1>7. Cardinality(SuccessesOf(s)) \in Nat BY SuccessesFinite
<1>8. CASE run.status = "success"
 <2>1. SuccessesOf(t) = Moved \cup {1} BY <1>1, <1>8 DEF SuccessesOf
 <2>2. 1 \notin Moved OBVIOUS
 <2> HIDE DEF Moved
 <2> QED BY <1>6, <1>8, <2>1, <2>2, FS_AddElement
<1>9. CASE run.status # "success"
 <2>1. SuccessesOf(t) = Moved BY <1>1, <1>9 DEF SuccessesOf
 <2> HIDE DEF Moved
 <2> QED BY <1>6, <1>7, <1>9, <2>1
<1> QED BY <1>8, <1>9

\* The lists of the runtime are typed; its figures and references hold by
\* what the checked properties already say.
RuntimeTypes ==
    /\ runtime.autonomyScore \in Int
    /\ {runtime.plansCompleted, runtime.successfulExecutions} \subseteq Nat
    /\ runtime.runs \in Seq(CycleRuns)
    /\ runtime.memories \in Seq(CycleMemories)
    /\ runtime.receipts \in Seq(CycleReceipts)
    /\ runtime.zeroGLinks \in Seq(CycleLinks)

RuntimeSound == RuntimeTypes /\ FiguresTellTheRuns /\ ShownReferencesHold

\* What a cycle puts in front of each list.
LEMMA CycleAdds ==
  ASSUME RuntimeTypes, NEW n, n = Len(runtime.runs) + 1
  PROVE  /\ n \in Nat \ {0}
         /\ RunOf(n) \in CycleRuns /\ MemoryOf(n) \in CycleMemories /\ LinkOf(n) \in CycleLinks
         /\ ReceiptsOf(n) \in Seq(CycleReceipts)
         /\ \E i \in 1..Len(ReceiptsOf(n)) : ReceiptsOf(n)[i] = <<"proof", n>>
<1>1. n \in Nat \ {0} /\ runtime.autonomyScore \in Int BY DEF RuntimeTypes
<1>2. <<"proof", n>> \in CycleReceipts /\ <<"execution", n>> \in CycleReceipts /\ <<"decision", n>> \in CycleReceipts
  BY <1>1 DEF CycleReceipts
<1>3. RunOf(n) \in CycleRuns BY <1>1 DEF RunOf, CycleRuns
<1>4. MemoryOf(n) \in CycleMemories BY <1>1, <1>2 DEF MemoryOf, CycleMemories
<1>5. LinkOf(n) \in CycleLinks BY <1>1, <1>2 DEF LinkOf, CycleLinks
<1>6. ReceiptsOf(n) \in Seq(CycleReceipts) BY <1>2 DEF ReceiptsOf
<1>7. 1 \in 1..Len(ReceiptsOf(n)) /\ ReceiptsOf(n)[1] = <<"proof", n>> BY DEF ReceiptsOf
<1> QED BY <1>1, <1>3, <1>4, <1>5, <1>6, <1>7

\* The runtime after a cycle.
LEMMA CycleLeaves ==
  ASSUME RuntimeTypes, runtime' = ExecuteAutonomousCycle, NEW n, n = Len(runtime.runs) + 1
  PROVE  /\ runtime'.autonomyScore = LesserOf(100, RunOf(n).after) /\ runtime'.autonomyLevel = LevelOf(RunOf(n).after)
         /\ runtime'.plansCompleted = runtime.plansCompleted + 1
         /\ runtime'.successfulExecutions = runtime.successfulExecutions + (IF CycleFails THEN 0 ELSE 1)
         /\ runtime'.runs = <<RunOf(n)>> \o runtime.runs
         /\ runtime'.memories = <<MemoryOf(n)>> \o runtime.memories
         /\ runtime'.receipts = ReceiptsOf(n) \o runtime.receipts
         /\ runtime'.zeroGLinks = FirstN(<<LinkOf(n)>> \o runtime.zeroGLinks, MaxLinks)
         /\ runtime'.bridgeStatus = IF CycleFails THEN "pending" ELSE "confirmed"
  BY DEF ExecuteAutonomousCycle, Capped

\* One record in front of a list.
LEMMA OneAdded ==
  ASSUME NEW S, NEW s \in Seq(S), NEW x \in S
  PROVE  /\ (<<x>> \o s) \in Seq(S) /\ Len(<<x>> \o s) = Len(s) + 1
         /\ (<<x>> \o s)[1] = x
         /\ \A i \in 1..Len(s) : (<<x>> \o s)[i + 1] = s[i]
         /\ \A i \in 1..Len(<<x>> \o s) : (<<x>> \o s)[i] = x \/ (i - 1 \in 1..Len(s) /\ (<<x>> \o s)[i] = s[i - 1])
<1> DEFINE t == <<x>> \o s
<1>1. /\ t \in Seq(S) /\ Len(t) = Len(s) + 1 /\ Len(s) \in Nat OBVIOUS
<1>2. t[1] = x OBVIOUS
<1>3. \A i \in 1..Len(s) : t[i + 1] = s[i] OBVIOUS
<1> HIDE DEF t
<1>4. ASSUME NEW i \in 1..Len(t)
      PROVE  t[i] = x \/ (i - 1 \in 1..Len(s) /\ t[i] = s[i - 1])
 <2>1. CASE i = 1 BY <1>2, <2>1
 <2>2. CASE i # 1 BY <1>1, <2>2, <1>3
 <2> QED BY <2>1, <2>2
<1> QED BY <1>1, <1>2, <1>3, <1>4 DEF t

\* The links of a cycle: the newest is first, the others were there.
LEMMA LinksCut ==
  ASSUME NEW s \in Seq(CycleLinks), NEW x \in CycleLinks
  PROVE  LET t == FirstN(<<x>> \o s, MaxLinks) IN
         /\ t \in Seq(CycleLinks) /\ 1 \in DOMAIN t /\ t[1] = x
         /\ \A i \in DOMAIN t : t[i] = x \/ \E j \in DOMAIN s : t[i] = s[j]
<1> DEFINE u == <<x>> \o s
           t == FirstN(u, MaxLinks)
<1>1. /\ u \in Seq(CycleLinks) /\ Len(u) = Len(s) + 1 /\ u[1] = x
      /\ \A i \in 1..Len(u) : u[i] = x \/ (i - 1 \in 1..Len(s) /\ u[i] = s[i - 1])
  BY OneAdded
<1>2. MaxLinks \in Nat \ {0} BY SwarmRuntimeAssumption
<1> HIDE DEF u
<1>3. /\ t \in Seq(CycleLinks) /\ Len(t) = LesserOf(MaxLinks, Len(u)) /\ Len(t) <= Len(u)
      /\ \A i \in 1..Len(t) : t[i] = u[i]
  BY <1>1, <1>2, FrontCut
<1> HIDE DEF t
<1>4. DOMAIN t = 1..Len(t) /\ Len(t) \in Nat /\ DOMAIN s = 1..Len(s) /\ Len(s) \in Nat BY <1>3
<1>5. Len(t) >= 1 BY <1>1, <1>2, <1>3, <1>4 DEF LesserOf
<1>6. 1 \in DOMAIN t /\ t[1] = x BY <1>1, <1>3, <1>4, <1>5
<1>7. ASSUME NEW i \in DOMAIN t
      PROVE  t[i] = x \/ \E j \in DOMAIN s : t[i] = s[j] BY <1>1, <1>3, <1>4
<1> QED BY <1>3, <1>6, <1>7 DEF t, u

LEMMA CycleFigures ==
  ASSUME RuntimeSound, runtime' = ExecuteAutonomousCycle
  PROVE  RuntimeTypes' /\ FiguresTellTheRuns'
<1>0. PICK n : n = Len(runtime.runs) + 1 OBVIOUS
<1> DEFINE run == RunOf(n)
           old == runtime.runs
           new == runtime'.runs
<1>1. RuntimeTypes /\ FiguresTellTheRuns BY DEF RuntimeSound
<1>2. /\ n \in Nat \ {0} /\ run \in CycleRuns /\ MemoryOf(n) \in CycleMemories /\ LinkOf(n) \in CycleLinks
      /\ ReceiptsOf(n) \in Seq(CycleReceipts)
  BY <1>0, <1>1, CycleAdds
<1>3. /\ runtime'.autonomyScore = LesserOf(100, run.after) /\ runtime'.autonomyLevel = LevelOf(run.after)
      /\ runtime'.plansCompleted = runtime.plansCompleted + 1
      /\ runtime'.successfulExecutions = runtime.successfulExecutions + (IF CycleFails THEN 0 ELSE 1)
      /\ new = <<run>> \o old
      /\ runtime'.memories = <<MemoryOf(n)>> \o runtime.memories
      /\ runtime'.receipts = ReceiptsOf(n) \o runtime.receipts
      /\ runtime'.zeroGLinks = FirstN(<<LinkOf(n)>> \o runtime.zeroGLinks, MaxLinks)
      /\ runtime'.bridgeStatus = IF CycleFails THEN "pending" ELSE "confirmed"
  BY <1>0, <1>1, CycleLeaves
<1>4. /\ run.before = runtime.autonomyScore /\ run.after \in Int
      /\ run.status = IF CycleFails THEN "failed" ELSE "success"
  BY <1>2 DEF RunOf, CycleRuns
<1>5. LinkOf(n).status = IF CycleFails THEN "linked" ELSE "verified" BY DEF LinkOf
<1> HIDE DEF run
<1>6. /\ old \in Seq(CycleRuns) /\ Len(old) \in Nat /\ runtime.memories \in Seq(CycleMemories)
      /\ runtime.receipts \in Seq(CycleReceipts) /\ runtime.zeroGLinks \in Seq(CycleLinks)
      /\ runtime.plansCompleted \in Nat /\ runtime.successfulExecutions \in Nat
  BY <1>1 DEF RuntimeTypes
<1>7. /\ new \in Seq(CycleRuns) /\ Len(new) = Len(old) + 1 /\ new[1] = run
      /\ \A i \in 1..Len(old) : new[i + 1] = old[i]
  BY <1>2, <1>3, <1>6, OneAdded
<1>8. /\ runtime'.zeroGLinks \in Seq(CycleLinks) /\ runtime'.zeroGLinks[1] = LinkOf(n) BY <1>2, <1>3, <1>6, LinksCut
<1>9. RuntimeTypes'
 <2>1. runtime'.memories \in Seq(CycleMemories) BY <1>2, <1>3, <1>6, OneAdded
 <2>2. runtime'.receipts \in Seq(CycleReceipts) BY <1>2, <1>3, <1>6, FrontAdded
 <2>3. runtime'.autonomyScore \in Int BY <1>3, <1>4 DEF LesserOf
 <2>4. runtime'.plansCompleted \in Nat /\ runtime'.successfulExecutions \in Nat BY <1>3, <1>6
 <2> QED BY <1>7, <1>8, <2>1, <2>2, <2>3, <2>4 DEF RuntimeTypes
<1>10. /\ runtime.plansCompleted = 3 + Len(old)
       /\ runtime.successfulExecutions = 2 + Cardinality(SuccessesOf(old))
       /\ \A i \in 1..(Len(old) - 1) : old[i].before = LesserOf(100, old[i + 1].after)
       /\ old # <<>> => runtime.autonomyScore = LesserOf(100, old[1].after)
  BY <1>1 DEF FiguresTellTheRuns, SuccessesOf
<1>11. runtime'.plansCompleted = 3 + Len(new) BY <1>3, <1>6, <1>7, <1>10
<1>12. runtime'.successfulExecutions = 2 + Cardinality(SuccessesOf(new))
 <2>1. Cardinality(SuccessesOf(new)) = Cardinality(SuccessesOf(old)) + IF run.status = "success" THEN 1 ELSE 0
   BY <1>6, <1>7, SuccessesCount
 <2>2. Cardinality(SuccessesOf(old)) \in Nat BY <1>6, SuccessesFinite
 <2> QED BY <1>3, <1>4, <1>10, <2>1, <2>2
<1> HIDE DEF old, new
<1>13. ASSUME NEW i \in 1..(Len(new) - 1)
       PROVE  new[i].before = LesserOf(100, new[i + 1].after)
 <2>1. i \in 1..Len(old) /\ new[i + 1] = old[i] BY <1>6, <1>7
 <2>2. CASE i = 1 BY <1>6, <2>1, <1>4, <1>7, <1>10, <2>2
 <2>3. CASE i # 1
  <3>1. i - 1 \in 1..(Len(old) - 1) /\ (i - 1) + 1 = i /\ i - 1 \in 1..Len(old) BY <1>6, <2>1, <2>3
  <3>2. new[i] = old[i - 1] BY <1>7, <3>1
  <3>3. old[i - 1].before = LesserOf(100, old[i].after) BY <1>10, <3>1
  <3> QED BY <2>1, <3>2, <3>3
 <2> QED BY <2>2, <2>3
<1>14. /\ runtime'.autonomyScore = LesserOf(100, new[1].after) /\ runtime'.autonomyLevel = LevelOf(new[1].after)
       /\ runtime'.bridgeStatus = (IF runtime'.zeroGLinks[1].status = "verified" THEN "confirmed" ELSE "pending")
  BY <1>3, <1>5, <1>7, <1>8
<1>15. FiguresTellTheRuns' BY <1>11, <1>12, <1>13, <1>14 DEF FiguresTellTheRuns, SuccessesOf, new
<1> QED BY <1>9, <1>15

LEMMA FrontHolds ==
  ASSUME NEW s \in Seq(CycleReceipts), NEW front \in Seq(CycleReceipts), NEW r
  PROVE  /\ Contains(s, r) => Contains(front \o s, r)
         /\ Contains(front, r) => Contains(front \o s, r)
<1> DEFINE t == front \o s
<1>1. /\ t \in Seq(CycleReceipts) /\ Len(t) = Len(front) + Len(s)
      /\ \A i \in 1..Len(front) : t[i] = front[i]
      /\ \A i \in 1..Len(s) : t[i + Len(front)] = s[i]
  BY FrontAdded
<1> HIDE DEF t
<1>2. Len(front) \in Nat /\ Len(s) \in Nat OBVIOUS
<1>3. \A i \in 1..Len(s) : i + Len(front) \in 1..Len(t) BY <1>1, <1>2
<1>4. \A i \in 1..Len(front) : i \in 1..Len(t) BY <1>1, <1>2
<1>5. Contains(s, r) => Contains(t, r) BY <1>1, <1>3 DEF Contains
<1>6. Contains(front, r) => Contains(t, r) BY <1>1, <1>4 DEF Contains
<1> QED BY <1>5, <1>6 DEF t

LEMMA CycleReferences ==
  ASSUME RuntimeSound, runtime' = ExecuteAutonomousCycle
  PROVE  ShownReferencesHold'
<1>0. PICK n : n = Len(runtime.runs) + 1 OBVIOUS
<1>1. RuntimeTypes /\ ShownReferencesHold BY DEF RuntimeSound
<1>2. /\ n \in Nat \ {0} /\ RunOf(n) \in CycleRuns /\ MemoryOf(n) \in CycleMemories /\ LinkOf(n) \in CycleLinks
      /\ ReceiptsOf(n) \in Seq(CycleReceipts)
      /\ \E i \in 1..Len(ReceiptsOf(n)) : ReceiptsOf(n)[i] = <<"proof", n>>
  BY <1>0, <1>1, CycleAdds
<1>3. /\ runtime'.runs = <<RunOf(n)>> \o runtime.runs
      /\ runtime'.memories = <<MemoryOf(n)>> \o runtime.memories
      /\ runtime'.receipts = ReceiptsOf(n) \o runtime.receipts
      /\ runtime'.zeroGLinks = FirstN(<<LinkOf(n)>> \o runtime.zeroGLinks, MaxLinks)
  BY <1>0, <1>1, CycleLeaves
<1>4. LinkOf(n).receipt = <<"proof", n>> /\ LinkOf(n).run = n /\ MemoryOf(n).receipt = <<"proof", n>> /\ RunOf(n).id = n
  BY DEF LinkOf, MemoryOf, RunOf
<1>5. /\ runtime.runs \in Seq(CycleRuns) /\ runtime.memories \in Seq(CycleMemories)
      /\ runtime.receipts \in Seq(CycleReceipts) /\ runtime.zeroGLinks \in Seq(CycleLinks)
  BY <1>1 DEF RuntimeTypes
<1> DEFINE newReceipts == runtime'.receipts
           newLinks == runtime'.zeroGLinks
           newMemories == runtime'.memories
<1>6. Contains(newReceipts, <<"proof", n>>)
 <2>1. Contains(ReceiptsOf(n), <<"proof", n>>) BY <1>2 DEF Contains
 <2> QED BY <1>2, <1>3, <1>5, <2>1, FrontHolds
<1>7. \A r : Contains(runtime.receipts, r) => Contains(newReceipts, r) BY <1>2, <1>3, <1>5, FrontHolds
<1>8. /\ 1 \in DOMAIN newLinks /\ newLinks[1] = LinkOf(n)
      /\ \A i \in DOMAIN newLinks : newLinks[i] = LinkOf(n) \/ \E j \in DOMAIN runtime.zeroGLinks : newLinks[i] = runtime.zeroGLinks[j]
  BY <1>2, <1>3, <1>5, LinksCut
<1>9. \A i \in DOMAIN newMemories : newMemories[i] = MemoryOf(n) \/ \E j \in DOMAIN runtime.memories : newMemories[i] = runtime.memories[j]
  BY <1>2, <1>3, <1>5, OneAdded
<1>10. runtime'.runs[1] = RunOf(n) BY <1>2, <1>3, <1>5, OneAdded
<1> HIDE DEF newReceipts, newLinks, newMemories
<1>11. /\ \A j \in DOMAIN runtime.zeroGLinks : Contains(runtime.receipts, runtime.zeroGLinks[j].receipt)
       /\ \A j \in DOMAIN runtime.memories : Contains(runtime.receipts, runtime.memories[j].receipt)
  BY <1>1 DEF ShownReferencesHold
<1>12. \A i \in DOMAIN newLinks : Contains(newReceipts, newLinks[i].receipt) BY <1>4, <1>6, <1>7, <1>8, <1>11
<1>13. \A i \in DOMAIN newMemories : Contains(newReceipts, newMemories[i].receipt) BY <1>4, <1>6, <1>7, <1>9, <1>11
<1>14. \E i \in DOMAIN newLinks : newLinks[i].run = runtime'.runs[1].id BY <1>4, <1>8, <1>10
<1> QED BY <1>12, <1>13, <1>14 DEF ShownReferencesHold, newLinks, newReceipts, newMemories

LEMMA SwarmRuntimeStep ==
  ASSUME RuntimeSound, [SwarmRuntimeNext]_swarmRuntimeVars
  PROVE  RuntimeSound'
<1>1. CASE runtime' = runtime BY <1>1 DEF RuntimeSound, RuntimeTypes, FiguresTellTheRuns, ShownReferencesHold
<1>2. CASE runtime' = ExecuteAutonomousCycle BY <1>2, CycleFigures, CycleReferences DEF RuntimeSound
<1> QED BY <1>1, <1>2 DEF SwarmRuntimeNext, RunOnce, AutoplayTick, ToggleAutoplay, swarmRuntimeVars

LEMMA SwarmRuntimeBegins ==
  ASSUME SwarmRuntimeInit
  PROVE  RuntimeSound
<1>1. /\ runtime.autonomyScore = 62 /\ runtime.plansCompleted = 3 /\ runtime.successfulExecutions = 2
      /\ runtime.runs = <<>> /\ runtime.memories = <<>> /\ runtime.receipts = <<>> /\ runtime.zeroGLinks = <<>>
  BY DEF SwarmRuntimeInit
<1>2. RuntimeTypes BY <1>1 DEF RuntimeTypes
<1>3. Cardinality({i \in DOMAIN runtime.runs : runtime.runs[i].status = "success"}) = 0 BY <1>1, FS_EmptySet
<1>4. Len(runtime.runs) = 0 /\ DOMAIN runtime.zeroGLinks = {} /\ DOMAIN runtime.memories = {} BY <1>1
<1>5. FiguresTellTheRuns BY <1>1, <1>3, <1>4 DEF FiguresTellTheRuns
<1>6. ShownReferencesHold BY <1>1, <1>4 DEF ShownReferencesHold
<1> QED BY <1>2, <1>5, <1>6 DEF RuntimeSound

\* Whatever the answers, retries and overlapping loops, the page of the
\* command center tells of the loops that ran, and its timeline of what
\* they have proven; and whatever the cap, its runtime tells of its runs.
THEOREM CommandCenterAlwaysTells == OperationsSpec => []CommandCenterTells
<1> DEFINE Sound == LoopsSound /\ RuntimeSound
<1>1. OperationsInit => Sound BY CommandCenterBegins, SwarmRuntimeBegins DEF OperationsInit
<1>2. Sound /\ [OperationsNext]_operationsVars => Sound'
 <2> SUFFICES ASSUME LoopsSound, RuntimeSound, [OperationsNext]_operationsVars
              PROVE  LoopsSound' /\ RuntimeSound'
   OBVIOUS
 <2>1. [CommandCenterNext]_commandCenterVars /\ [SwarmRuntimeNext]_swarmRuntimeVars
   BY DEF OperationsNext, ClientNext, ServiceNext, operationsVars, frontVars
 <2> QED BY <2>1, CommandCenterStep, SwarmRuntimeStep
<1>3. Sound => CommandCenterTells BY PageTells DEF CommandCenterTells, RuntimeSound
<1> QED BY <1>1, <1>2, <1>3, PTL DEF OperationsSpec
=============================================================================
