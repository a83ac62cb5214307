----------------------------- MODULE InboxProofs -----------------------------
(***************************************************************************)
(* Proofs about the Telegram inbox, for any number of updates, workers and *)
(* faults, for either transport and for every limit: type correctness, one *)
(* owner and one reply per update, one run per prompt, no update lost and  *)
(* a poll cursor that stays behind what is to be processed.                *)
(***************************************************************************)
EXTENDS Inbox, FiniteSetTheorems, WellFoundedInduction, TLAPS

-----------------------------------------------------------------------------
(* The inductive invariant.                                                *)

Owns(w) == worker[w].pc \in Holding

\* Who owns a reply: the claim is set while somebody owns it, one worker owns
\* it, and it is only given back when no reply went unnoticed.
ClaimInv ==
    /\ \A w \in Workers : Owns(w) => claimed[worker[w].cur]
    /\ \A v, w \in Workers : v # w /\ Owns(v) /\ Owns(w) => worker[v].cur # worker[w].cur
    /\ \A u \in Updates : replies[u] <= 1 + lost[u]
    /\ \A u \in Updates : ~claimed[u] => replies[u] <= lost[u]
    /\ \A w \in Workers : Owns(w) => replies[worker[w].cur] <= lost[worker[w].cur]

\* Where a prompt is: it runs behind its placeholder, and a claim that is
\* given back was won by a worker whose placeholder failed.
PromptInv ==
    /\ \A w \in Workers :
          /\ worker[w].pc = "run" => kind[worker[w].cur] \in {"prompt", "router"}
          /\ worker[w].pc \in {"edit", "fallback"} => kind[worker[w].cur] = "prompt"
          /\ worker[w].pc \in {"send", "run", "release"} /\ kind[worker[w].cur] = "prompt" =>
                ran[worker[w].cur] = 0
    /\ \A u \in Updates : kind[u] = "prompt" => ran[u] <= (IF claimed[u] THEN 1 ELSE 0)

\* Update u has a row, or its insert failed in the poll loop.
Recorded(u) == status[u] # "none" \/ u \in missed

\* ... and the cursor may go past it.
Passed(u) == Recorded(u) /\ (status[u] = "pending" => u \in missed \/ ScanFilled(u))

\* What the poll loop knows.  What it acknowledges was passed; a batch leaves
\* out only updates that were passed; what it walked over has been recorded.
PollInv ==
    LET b == poller.batch IN
    /\ webhook => high = 0 /\ poller = Polling
    /\ ~webhook => \A u \in forgotten : Passed(u)
    /\ \A u \in Updates : u <= high => Passed(u)
    /\ poller.pc \in {"get", "advance"} => \A u \in Updates : u <= poller.ack => Passed(u)
    /\ poller.pc \in {"enqueue", "scan"} =>
          /\ b # <<>>
          /\ \A i, j \in 1..Len(b) : i < j => b[i] < b[j]
          /\ \A u \in Updates : u <= b[Len(b)] => Passed(u) \/ \E i \in 1..Len(b) : b[i] = u
    /\ poller.pc \in {"read", "get"} => poller.next = 1
    /\ poller.pc = "enqueue" => /\ poller.next \in 1..Len(b)
                                /\ \A i \in 1..(poller.next - 1) : Recorded(b[i])
    /\ poller.pc = "scan" => \A i \in 1..Len(b) : Recorded(b[i])

IInv == TypeOK /\ ClaimInv /\ PromptInv /\ PollInv /\ NoUpdateLost

-----------------------------------------------------------------------------
(* Facts about numbers and about the oldest elements of a set.             *)

\* Every non-empty set of naturals has a least element.
LEMMA LeastNumber ==
  ASSUME NEW T, T \subseteq Nat, T # {}
  PROVE  \E m \in T : \A y \in T : m <= y
<1>. DEFINE R == {ss \in Nat \X Nat : ss[1] < ss[2]}
<1>1. IsWellFoundedOn(R, Nat)
  BY NatLessThanWellFounded DEF OpToRel
<1>. HIDE DEF R
<1>2. PICK x \in T : \A y \in T : ~ (<<y, x>> \in R)
  BY <1>1, WFMin
<1>3. \A y \in T : ~(y < x)
  BY <1>2 DEF R
<1>. QED
  BY <1>3

\* A chain of marks that starts marked ends at the last one or breaks once.
LEMMA LastOfPrefix ==
  ASSUME NEW n \in Nat \ {0}, NEW M, 1 \notin M
  PROVE  \E i \in 1..n : /\ \A j \in 1..i : j \notin M
                         /\ i = n \/ ~\A j \in 1..(i + 1) : j \notin M
<1>. DEFINE T == {j \in 1..n : j \in M}
<1>1. CASE T = {}
  BY <1>1
<1>2. CASE T # {}
  <2>. T \subseteq Nat
    OBVIOUS
  <2>1. PICK m \in T : \A y \in T : m <= y
    <3>. HIDE DEF T
    <3>. QED
      BY <1>2, LeastNumber
  <2>2. m \in 1..n /\ m \in M /\ m # 1
    OBVIOUS
  <2>3. m - 1 \in 1..n /\ \A j \in 1..(m - 1) : j \notin M
    BY <2>1, <2>2
  <2>4. m \in 1..((m - 1) + 1)
    BY <2>2
  <2>. QED
    BY <2>2, <2>3, <2>4
<1>. QED
  BY <1>1, <1>2

Rank(S, u) == Cardinality({v \in S : v <= u})

\* Ranks are numbers up to the size of the set, grow with the element, and
\* each of them is somebody's.
LEMMA RankFacts ==
  ASSUME NEW S, S \subseteq Nat, IsFiniteSet(S)
  PROVE  /\ Cardinality(S) \in Nat
         /\ \A u \in S : Rank(S, u) \in 1..Cardinality(S)
         /\ \A u, v \in S : u < v => Rank(S, u) < Rank(S, v)
         /\ \A i \in 1..Cardinality(S) : \E u \in S : Rank(S, u) = i
<1>. DEFINE U(u) == {v \in S : v <= u}
<1>1. Cardinality(S) \in Nat
  BY FS_CardinalityType
<1>2. ASSUME NEW u \in S
      PROVE  IsFiniteSet(U(u)) /\ Cardinality(U(u)) \in 1..Cardinality(S)
  <2>1. U(u) \subseteq S /\ u \in U(u)
    OBVIOUS
  <2>. HIDE DEF U
  <2>2. IsFiniteSet(U(u)) /\ Cardinality(U(u)) <= Cardinality(S)
    BY <2>1, FS_Subset
  <2>3. Cardinality(U(u)) \in Nat /\ Cardinality(U(u)) # 0
    BY <2>1, <2>2, FS_CardinalityType, FS_EmptySet
  <2>. QED
    BY <1>1, <2>2, <2>3
<1>3. ASSUME NEW u \in S, NEW v \in S, u < v
      PROVE  Cardinality(U(u)) < Cardinality(U(v))
  <2>. u \in Nat /\ v \in Nat
    OBVIOUS
  <2>1. U(u) \cup {v} \subseteq U(v) /\ v \notin U(u)
    <3>1. v \notin U(u)
      BY <1>3
    <3>2. ASSUME NEW x \in U(u)
          PROVE  x \in S /\ x <= v
      <4>. x \in S /\ x \in Nat /\ x <= u
        OBVIOUS
      <4>. QED
        BY <1>3
    <3>3. v \in U(v)
      OBVIOUS
    <3>. QED
      BY <3>1, <3>2, <3>3
  <2>2. /\ IsFiniteSet(U(u)) /\ Cardinality(U(u)) \in Nat
        /\ IsFiniteSet(U(v)) /\ Cardinality(U(v)) \in Nat
    BY <1>1, <1>2
  <2>. HIDE DEF U
  <2>3. Cardinality(U(u) \cup {v}) = Cardinality(U(u)) + 1
    BY <2>1, <2>2, FS_AddElement
  <2>4. Cardinality(U(u) \cup {v}) <= Cardinality(U(v))
    BY <2>1, <2>2, FS_Subset
  <2>. QED
    BY <2>2, <2>3, <2>4
<1>4. ASSUME NEW i \in 1..Cardinality(S)
      PROVE  \E u \in S : Cardinality(U(u)) = i
  <2>. SUFFICES ASSUME \A u \in S : Cardinality(U(u)) # i
                PROVE  FALSE
    OBVIOUS
  <2>. DEFINE T == (1..Cardinality(S)) \ {i}
              f == [u \in S |-> Cardinality(U(u))]
  <2>1. IsFiniteSet(1..Cardinality(S)) /\ Cardinality(1..Cardinality(S)) = Cardinality(S)
    <3>1. 1 \in Int /\ Cardinality(S) \in Int
      BY <1>1
    <3>2. /\ IsFiniteSet(1..Cardinality(S))
          /\ Cardinality(1..Cardinality(S)) = IF 1 > Cardinality(S) THEN 0 ELSE Cardinality(S) - 1 + 1
      BY ONLY <3>1, FS_Interval
    <3>. QED
      BY <1>1, <3>2
  <2>2. IsFiniteSet(T) /\ Cardinality(T) = Cardinality(S) - 1
    BY <2>1, FS_RemoveElement
  <2>3. f \in [S -> T]
    BY <1>2
  <2>4. Cardinality(T) < Cardinality(S)
    BY <1>1, <2>2
  <2>. HIDE DEF T, f
  <2>5. PICK x, y \in S : x # y /\ f[x] = f[y]
    BY <2>2, <2>3, <2>4, FS_PigeonHole
  <2>6. Cardinality(U(x)) = Cardinality(U(y))
    BY <2>5 DEF f
  <2>7. x < y \/ y < x
    BY <2>5
  <2>8. Cardinality(U(x)) \in Nat /\ Cardinality(U(y)) \in Nat
    BY <1>2
  <2>. QED
    BY <1>3, <2>6, <2>7, <2>8
<1>. QED
  BY <1>1, <1>2, <1>3, <1>4 DEF Rank

\* The oldest elements of a set: a growing sequence of its elements, with all
\* of them or with k of them that are before the rest.
LEMMA OldestFacts ==
  ASSUME NEW S, S \subseteq Nat, IsFiniteSet(S), NEW k \in Nat \ {0}
  PROVE  LET o == Oldest(S, k) IN
         /\ o \in Seq(S) /\ Len(o) <= k
         /\ S # {} => o # <<>>
         /\ \A i, j \in 1..Len(o) : i < j => o[i] < o[j]
         /\ \A u \in S : \/ \E i \in 1..Len(o) : o[i] = u
                         \/ Len(o) = k /\ \A i \in 1..Len(o) : o[i] < u
<1>. DEFINE c == Cardinality(S)
            n == IF c < k THEN c ELSE k
            o == Oldest(S, k)
<1>1. /\ c \in Nat
      /\ \A u \in S : Rank(S, u) \in 1..c
      /\ \A u, v \in S : u < v => Rank(S, u) < Rank(S, v)
      /\ \A i \in 1..c : \E u \in S : Rank(S, u) = i
  BY RankFacts
<1>2. o = [i \in 1..n |-> CHOOSE u \in S : Rank(S, u) = i]
  BY DEF Oldest, Rank
<1>3. S # {} => c # 0
  BY FS_EmptySet
<1>. HIDE DEF o, c
<1>4. n \in Nat /\ n <= c /\ n <= k /\ (n < c => n = k) /\ (c # 0 => n # 0)
  BY <1>1
<1>5. ASSUME NEW i \in 1..n
      PROVE  o[i] \in S /\ o[i] \in Nat /\ Rank(S, o[i]) = i
  <2>1. i \in 1..c
    BY <1>1, <1>4
  <2>2. \E u \in S : Rank(S, u) = i
    BY <1>1, <2>1
  <2>3. o[i] \in S /\ Rank(S, o[i]) = i
    BY <1>2, <2>2
  <2>. QED
    BY <2>3
<1>. HIDE DEF n
<1>6. o \in [1..n -> S] /\ o \in Seq(S) /\ Len(o) = n
  BY <1>2, <1>4, <1>5
<1>7. ASSUME NEW u \in S, NEW v \in S, Rank(S, u) <= Rank(S, v)
      PROVE  u <= v
  <2>1. u \in Nat /\ v \in Nat /\ Rank(S, u) \in Nat /\ Rank(S, v) \in Nat
    BY <1>1
  <2>2. v < u => Rank(S, v) < Rank(S, u)
    BY <1>1
  <2>. QED
    BY <1>7, <2>1, <2>2
<1>8. ASSUME NEW i \in 1..n, NEW j \in 1..n, i < j
      PROVE  o[i] < o[j]
  <2>1. /\ o[i] \in S /\ o[i] \in Nat /\ Rank(S, o[i]) = i
        /\ o[j] \in S /\ o[j] \in Nat /\ Rank(S, o[j]) = j
    BY <1>5
  <2>2. i \in Nat /\ j \in Nat
    BY <1>4
  <2>3. o[i] # o[j]
    BY <1>8, <2>1, <2>2
  <2>4. Rank(S, o[i]) <= Rank(S, o[j])
    BY <1>8, <2>1, <2>2
  <2>5. o[i] <= o[j]
    BY <1>7, <2>1, <2>4
  <2>. QED
    BY <2>1, <2>3, <2>5
<1>9. ASSUME NEW u \in S
      PROVE  \/ \E i \in 1..n : o[i] = u
             \/ n = k /\ \A i \in 1..n : o[i] < u
  <2>. DEFINE r == Rank(S, u)
  <2>1. r \in 1..c /\ u \in Nat
    BY <1>1
  <2>. HIDE DEF r
  <2>2. CASE r <= n
    <3>1. r \in 1..n
      BY <1>1, <1>4, <2>1, <2>2
    <3>2. o[r] \in S /\ o[r] \in Nat /\ Rank(S, o[r]) = r
      BY <3>1, <1>5
    <3>3. Rank(S, o[r]) <= Rank(S, u) /\ Rank(S, u) <= Rank(S, o[r])
      BY <3>2, <2>1, <1>1 DEF r
    <3>4. o[r] <= u /\ u <= o[r]
      BY <3>2, <3>3, <1>7
    <3>5. o[r] = u
      BY <3>2, <3>4, <2>1
    <3>. QED
      BY <3>1, <3>5
  <2>3. CASE ~(r <= n)
    <3>1. n = k
      BY <1>1, <1>4, <2>1, <2>3
    <3>2. ASSUME NEW i \in 1..n
          PROVE  o[i] < u
      <4>1. o[i] \in S /\ o[i] \in Nat /\ Rank(S, o[i]) = i
        BY <1>5
      <4>2. Rank(S, o[i]) <= Rank(S, u) /\ Rank(S, o[i]) # Rank(S, u)
        BY <4>1, <1>1, <1>4, <2>1, <2>3 DEF r
      <4>3. o[i] <= u /\ o[i] # u
        BY <4>1, <4>2, <1>7
      <4>. QED
        BY <4>1, <4>3, <2>1
    <3>. QED
      BY <3>1, <3>2
  <2>. QED
    BY <2>2, <2>3
<1>. QED
  BY <1>3, <1>4, <1>6, <1>8, <1>9 DEF c, o

\* A growing sequence has as many elements as it has places, so a set that
\* holds them all is as large.
LEMMA GrowingIsLarge ==
  ASSUME NEW X, IsFiniteSet(X), X \subseteq Nat, NEW s \in Seq(X),
         \A i, j \in 1..Len(s) : i < j => s[i] < s[j]
  PROVE  Cardinality(X) >= Len(s)
<1>. DEFINE I == 1..Len(s)
<1>1. Cardinality(X) \in Nat /\ Len(s) \in Nat
  BY FS_CardinalityType
<1>2. IsFiniteSet(I) /\ Cardinality(I) = Len(s)
  <2>1. 1 \in Int /\ Len(s) \in Int
    BY <1>1
  <2>2. /\ IsFiniteSet(I)
        /\ Cardinality(I) = IF 1 > Len(s) THEN 0 ELSE Len(s) - 1 + 1
    BY ONLY <2>1, FS_Interval
  <2>. QED
    BY <1>1, <2>2
<1>. SUFFICES ASSUME Cardinality(X) < Len(s)
              PROVE  FALSE
  BY <1>1
<1>. DEFINE f == [i \in I |-> s[i]]
<1>3. f \in [I -> X]
  OBVIOUS
<1>. HIDE DEF I, f
<1>4. PICK i, j \in I : i # j /\ f[i] = f[j]
  BY <1>2, <1>3, FS_PigeonHole
<1>5. i \in 1..Len(s) /\ j \in 1..Len(s) /\ i \in Nat /\ j \in Nat
  BY DEF I
<1>6. s[i] = s[j]
  BY <1>4 DEF f
<1>7. s[i] \in X /\ s[j] \in X
  BY <1>5
<1>8. s[i] \in Nat /\ s[j] \in Nat
  BY <1>7
<1>9. i < j \/ j < i
  BY <1>4, <1>5
<1>. QED
  BY <1>5, <1>6, <1>8, <1>9

-----------------------------------------------------------------------------
(* Type correctness.                                                       *)

\* Updates are finitely many numbers, and so are those of any kind.
LEMMA UpdatesFacts ==
  /\ N \in Nat /\ Updates \subseteq Nat
  /\ \A S : S \subseteq Updates => IsFiniteSet(S) /\ S \subseteq Nat
<1>1. N \in Nat
  BY UpdatesAssumption
<1>2. IsFiniteSet(Updates)
  <2>1. 1 \in Int /\ N \in Int
    BY <1>1
  <2>2. IsFiniteSet(1..N)
    BY ONLY <2>1, FS_Interval
  <2>. QED
    BY <2>2 DEF Updates
<1>3. ASSUME NEW S, S \subseteq Updates
      PROVE  IsFiniteSet(S)
  BY <1>2, <1>3, FS_Subset
<1>4. Updates \subseteq Nat
  BY <1>1 DEF Updates
<1>. QED
  BY <1>1, <1>3, <1>4

\* What a query of the pending rows reads.
LEMMA PendingFacts ==
  ASSUME NEW k \in Nat \ {0}
  PROVE  LET p == Pending(k) IN
         /\ p \in Seq(Updates)
         /\ \A i \in 1..Len(p) : status[p[i]] = "pending"
         /\ \A i, j \in 1..Len(p) : i < j => p[i] < p[j]
         /\ \A u \in Updates : status[u] = "pending" =>
               \/ \E i \in 1..Len(p) : p[i] = u
               \/ Len(p) = k /\ \A i \in 1..Len(p) : p[i] < u
<1>. DEFINE S == {u \in Updates : status[u] = "pending"}
            p == Pending(k)
<1>1. S \subseteq Updates /\ S \subseteq Nat /\ IsFiniteSet(S)
  BY UpdatesFacts
<1>2. \A u \in S : status[u] = "pending"
  OBVIOUS
<1>3. \A u \in Updates : status[u] = "pending" => u \in S
  OBVIOUS
<1>4. p = Oldest(S, k)
  BY DEF Pending
<1>. HIDE DEF S, p
<1>5. /\ p \in Seq(S)
      /\ \A i, j \in 1..Len(p) : i < j => p[i] < p[j]
      /\ \A u \in S : \/ \E i \in 1..Len(p) : p[i] = u
                      \/ Len(p) = k /\ \A i \in 1..Len(p) : p[i] < u
  BY <1>1, <1>4, OldestFacts
<1>7. \A i \in 1..Len(p) : p[i] \in S
  BY <1>5
<1>6. p \in Seq(Updates)
  <2>1. Len(p) \in Nat /\ p = [i \in 1..Len(p) |-> p[i]]
    BY <1>5
  <2>2. \A i \in 1..Len(p) : p[i] \in Updates
    BY <1>1, <1>7
  <2>. QED
    BY <2>1, <2>2
<1>. QED
  BY <1>2, <1>3, <1>5, <1>6, <1>7 DEF p

\* What advance acknowledges: nothing, or an update of the batch that no row
\* the scan saw comes before, and that is followed by one unless it is the last.
LEMMA AckFacts ==
  ASSUME NEW b \in Seq(Updates), b # <<>>
  PROVE  LET seen == Pending(ScanLimit) IN
         \/ AckTo(b) = 0
         \/ \E i \in 1..Len(b) :
               /\ AckTo(b) = b[i]
               /\ \A j \in 1..i, k \in 1..Len(seen) : seen[k] # b[j]
               /\ i = Len(b) \/ \E k \in 1..Len(seen) : seen[k] = b[i + 1]
<1>. DEFINE seen == Pending(ScanLimit)
            ok(i) == \A j \in 1..i, k \in 1..Len(seen) : seen[k] # b[j]
            M == {j \in 1..Len(b) : \E k \in 1..Len(seen) : seen[k] = b[j]}
            Best(i) == ok(i) /\ (i = Len(b) \/ ~ok(i + 1))
<1>1. AckTo(b) = IF ok(1) THEN b[CHOOSE i \in 1..Len(b) : Best(i)] ELSE 0
  BY DEF AckTo
<1>2. Len(b) \in Nat \ {0}
  OBVIOUS
<1>. HIDE DEF seen
<1>3. ASSUME NEW i \in 1..Len(b)
      PROVE  ok(i) <=> \A j \in 1..i : j \notin M
  BY <1>2
<1>4. CASE ok(1)
  <2>1. 1 \notin M
    BY <1>2, <1>4
  <2>. DEFINE n == Len(b)
  <2>. HIDE DEF M
  <2>2. PICK i \in 1..n : /\ \A j \in 1..i : j \notin M
                          /\ i = n \/ ~\A j \in 1..(i + 1) : j \notin M
    <3>. HIDE DEF n
    <3>. QED
      BY <1>2, <2>1, LastOfPrefix DEF n
  <2>3. i \in 1..Len(b) /\ (i + 1 \in 1..Len(b) \/ i = Len(b))
    BY <1>2
  <2>4. Best(i)
    <3>. HIDE DEF ok
    <3>1. ok(i)
      BY <1>3, <2>2, <2>3
    <3>2. ASSUME i # Len(b)
          PROVE  ~ok(i + 1)
      <4>1. i + 1 \in 1..Len(b)
        BY <2>3, <3>2
      <4>2. ok(i + 1) <=> \A j \in 1..(i + 1) : j \notin M
        BY <1>3, <4>1
      <4>. QED
        BY <2>2, <3>2, <4>2
    <3>. QED
      BY <3>1, <3>2
  <2>. HIDE DEF ok
  <2>5. Best(CHOOSE x \in 1..Len(b) : Best(x))
    BY <2>4
  <2>. DEFINE x0 == CHOOSE x \in 1..Len(b) : Best(x)
  <2>6. x0 \in 1..Len(b)
    BY <2>4
  <2>7. AckTo(b) = b[x0] /\ ok(x0) /\ (x0 = Len(b) \/ ~ok(x0 + 1))
    BY <1>1, <1>4, <2>5
  <2>. HIDE DEF x0
  <2>8. x0 = Len(b) \/ \E k \in 1..Len(seen) : seen[k] = b[x0 + 1]
    BY <1>2, <2>6, <2>7 DEF ok
  <2>. QED
    BY <2>6, <2>7, <2>8 DEF ok, seen
<1>5. CASE ~ok(1)
  BY <1>1, <1>5
<1>. QED
  BY <1>4, <1>5

\* Every batch in flight is a sequence of updates with a current one.
LEMMA BatchFacts ==
  ASSUME IInv
  PROVE  /\ poller.pc = "enqueue" => poller.batch[poller.next] \in Updates
         /\ poller.pc \in {"enqueue", "scan"} => poller.batch # <<>>
         /\ poller.pc = "scan" => AckTo(poller.batch) \in 0..N
<1>1. poller.batch \in Seq(Updates) /\ N \in Nat
  BY UpdatesAssumption DEF IInv, TypeOK
<1>2. poller.pc \in {"enqueue", "scan"} => poller.batch # <<>>
  BY DEF IInv, PollInv
<1>3. poller.pc = "enqueue" => poller.batch[poller.next] \in Updates
  BY <1>1 DEF IInv, PollInv
<1>4. ASSUME poller.pc = "scan"
      PROVE  AckTo(poller.batch) \in 0..N
  <2>1. \A i \in 1..Len(poller.batch) : poller.batch[i] \in 0..N
    BY <1>1 DEF Updates
  <2>2. \/ AckTo(poller.batch) = 0
        \/ \E i \in 1..Len(poller.batch) : AckTo(poller.batch) = poller.batch[i]
    BY <1>1, <1>2, <1>4, AckFacts
  <2>. QED
    BY <1>1, <2>1, <2>2
<1>. QED
  BY <1>2, <1>3, <1>4

\* What getUpdates answers with.
LEMMA FetchedFacts ==
  ASSUME TypeOK
  PROVE  /\ Fetched \in Seq(Updates) /\ Len(Fetched) <= BatchMax
         /\ \A i, j \in 1..Len(Fetched) : i < j => Fetched[i] < Fetched[j]
         /\ \A i \in 1..Len(Fetched) :
               Fetched[i] <= arrived /\ Fetched[i] > poller.ack /\ Fetched[i] \notin forgotten
         /\ \A u \in 1..arrived : u > poller.ack /\ u \notin forgotten =>
               \/ \E i \in 1..Len(Fetched) : Fetched[i] = u
               \/ Len(Fetched) = BatchMax /\ \A i \in 1..Len(Fetched) : Fetched[i] < u
<1>. DEFINE S == {u \in 1..arrived : u > poller.ack /\ u \notin forgotten}
<1>1. S \subseteq Updates
  BY UpdatesAssumption DEF TypeOK, Updates
<1>2. IsFiniteSet(S) /\ S \subseteq Nat
  BY <1>1, UpdatesFacts
<1>3. BatchMax \in Nat \ {0}
  BY LimitsAssumption
<1>4. Fetched = Oldest(S, BatchMax)
  BY DEF Fetched
<1>5. /\ \A u \in S : u <= arrived /\ u > poller.ack /\ u \notin forgotten
      /\ \A u \in 1..arrived : u > poller.ack /\ u \notin forgotten => u \in S
  BY DEF TypeOK
<1>. DEFINE o == Fetched
<1>. HIDE DEF S, o
<1>6. /\ o \in Seq(S) /\ Len(o) <= BatchMax
      /\ \A i, j \in 1..Len(o) : i < j => o[i] < o[j]
      /\ \A u \in S : \/ \E i \in 1..Len(o) : o[i] = u
                      \/ Len(o) = BatchMax /\ \A i \in 1..Len(o) : o[i] < u
  BY <1>2, <1>3, <1>4, OldestFacts DEF o
<1>7. \A i \in 1..Len(o) : o[i] \in S
  BY <1>6
<1>8. o \in Seq(Updates)
  <2>1. Len(o) \in Nat /\ o = [i \in 1..Len(o) |-> o[i]]
    BY <1>6
  <2>2. \A i \in 1..Len(o) : o[i] \in Updates
    BY <1>1, <1>7
  <2>. QED
    BY <2>1, <2>2
<1>. QED
  BY <1>5, <1>6, <1>7, <1>8 DEF o

PollerType == [pc : PollPCs, batch : Seq(Updates), next : Nat, ack : 0..N]
WorkerType == [pc : WorkerPCs, list : Seq(Updates), cur : 0..N, again : BOOLEAN]

\* A fault counts, and any step has one or none.
LEMMA FailTypes ==
  ASSUME TypeOK, Fail \/ UNCHANGED faults
  PROVE  faults' \in 0..MaxFaults
BY FaultsAssumption DEF TypeOK, Fail

\* The transports and the user keep the types.
LEMMA TransportTypes ==
  ASSUME IInv, Arrive \/ Restart \/ PollStep \/ \E u \in Updates : WebhookDeliver(u)
  PROVE  TypeOK'
<1>. TypeOK
  BY DEF IInv
<1>. /\ N \in Nat /\ 0 \in 0..N
     /\ poller \in PollerType
     /\ Polling \in PollerType
  BY UpdatesAssumption DEF TypeOK, Polling, PollPCs, PollerType
<1>1. CASE Arrive
  <2>1. arrived' \in 0..N
    BY <1>1 DEF Arrive, TypeOK
  <2>. QED
    BY <1>1, <2>1 DEF Arrive, TypeOK, rowVars, histVars, fixed
<1>2. CASE Restart
  <2>1. faults' \in 0..MaxFaults
    BY <1>2, FailTypes DEF Restart
  <2>2. poller' \in PollerType
    BY <1>2 DEF Restart
  <2>3. /\ worker' \in [Workers -> WorkerType]
        /\ \A w \in Workers : worker'[w].pc # "idle" => worker'[w].cur \in Updates
    BY <1>2 DEF Restart, Idle, WorkerType, WorkerPCs
  <2>. QED
    BY <1>2, <2>1, <2>2, <2>3 DEF Restart, TypeOK, rowVars, histVars, fixed, PollerType, WorkerType
<1>3. CASE PollRead
  <2>1. faults' \in 0..MaxFaults
    BY <1>3, FailTypes DEF PollRead
  <2>2. poller' \in PollerType
    BY <1>3 DEF PollRead, PollerType, PollPCs, TypeOK
  <2>. QED
    BY <1>3, <2>1, <2>2 DEF PollRead, TypeOK, rowVars, histVars, fixed, PollerType
<1>4. CASE PollGet
  <2>1. faults' \in 0..MaxFaults
    BY <1>4, FailTypes DEF PollGet
  <2>2. [poller EXCEPT !.pc = "enqueue", !.batch = Fetched] \in PollerType
    BY FetchedFacts DEF PollerType, PollPCs
  <2>3. poller' \in PollerType
    BY <1>4, <2>2 DEF PollGet
  <2>4. forgotten' \subseteq Updates
    BY <1>4 DEF PollGet, TypeOK
  <2>. QED
    BY <1>4, <2>1, <2>3, <2>4 DEF PollGet, TypeOK, rowVars, histVars, fixed, PollerType
<1>5. CASE PollEnqueue
  <2>1. faults' \in 0..MaxFaults
    BY <1>5, FailTypes DEF PollEnqueue
  <2>2. poller' \in PollerType
    BY <1>5 DEF PollEnqueue, PollerType, PollPCs
  <2>3. poller.batch[poller.next] \in Updates
    BY <1>5, BatchFacts DEF PollEnqueue
  <2>4. missed' \subseteq Updates /\ status' \in [Updates -> Statuses]
    BY <1>5, <2>3 DEF PollEnqueue, TypeOK, Enqueue, Statuses
  <2>. QED
    BY <1>5, <2>1, <2>2, <2>4 DEF PollEnqueue, TypeOK, histVars, fixed, PollerType
<1>6. CASE PollScan
  <2>1. faults' \in 0..MaxFaults
    BY <1>6, FailTypes DEF PollScan
  <2>2. AckTo(poller.batch) \in 0..N
    BY <1>6, BatchFacts DEF PollScan
  <2>3. [poller EXCEPT !.pc = "advance", !.ack = AckTo(poller.batch)] \in PollerType
    BY <2>2 DEF PollerType, PollPCs
  <2>4. poller' \in PollerType
    BY <1>6, <2>3 DEF PollScan
  <2>. QED
    BY <1>6, <2>1, <2>4 DEF PollScan, TypeOK, rowVars, histVars, fixed, PollerType
<1>7. CASE PollAdvance
  <2>1. faults' \in 0..MaxFaults
    BY <1>7, FailTypes DEF PollAdvance
  <2>2. poller' \in PollerType /\ high' \in 0..N
    BY <1>7 DEF PollAdvance, TypeOK
  <2>. QED
    BY <1>7, <2>1, <2>2 DEF PollAdvance, TypeOK, rowVars, histVars, fixed, PollerType
<1>8. ASSUME NEW u \in Updates, WebhookDeliver(u)
      PROVE  TypeOK'
  <2>1. faults' \in 0..MaxFaults
    BY <1>8, FailTypes DEF WebhookDeliver
  <2>2. forgotten' \subseteq Updates /\ status' \in [Updates -> Statuses]
    BY <1>8 DEF WebhookDeliver, TypeOK, Enqueue, Statuses
  <2>. QED
    BY <1>8, <2>1, <2>2 DEF WebhookDeliver, TypeOK, histVars, fixed
<1>. QED
  BY <1>1, <1>2, <1>3, <1>4, <1>5, <1>6, <1>7, <1>8 DEF PollStep

\* A worker that moves on, with its row or without one.
LEMMA MoveTypes ==
  ASSUME TypeOK, NEW w \in Workers, NEW pc \in WorkerPCs, NEW again \in BOOLEAN,
         worker[w].pc # "idle",
         worker' = [worker EXCEPT ![w].pc = pc, ![w].again = again]
  PROVE  /\ worker' \in [Workers -> WorkerType]
         /\ \A v \in Workers : worker'[v].pc # "idle" => worker'[v].cur \in Updates
BY DEF TypeOK, WorkerType

\* Leave and the plain moves are such moves.
LEMMA LeaveTypes ==
  ASSUME TypeOK, NEW w \in Workers, worker[w].pc # "idle",
         \/ Leave(w)
         \/ \E pc \in WorkerPCs : worker' = [worker EXCEPT ![w].pc = pc]
  PROVE  /\ worker' \in [Workers -> WorkerType]
         /\ \A v \in Workers : worker'[v].pc # "idle" => worker'[v].cur \in Updates
<1>1. worker[w].again \in BOOLEAN /\ worker[w] \in WorkerType
  BY DEF TypeOK, WorkerType
<1>2. CASE Leave(w)
  BY <1>2, MoveTypes DEF Leave, WorkerPCs
<1>3. ASSUME NEW pc \in WorkerPCs, worker' = [worker EXCEPT ![w].pc = pc]
      PROVE  worker' = [worker EXCEPT ![w].pc = pc, ![w].again = worker[w].again]
  BY <1>1, <1>3 DEF TypeOK, WorkerType
<1>. QED
  BY <1>1, <1>2, <1>3, MoveTypes

\* A worker whose record is replaced by a typed one.
LEMMA RecordTypes ==
  ASSUME TypeOK, NEW w \in Workers, NEW r \in WorkerType,
         r.pc # "idle" => r.cur \in Updates,
         worker' = [worker EXCEPT ![w] = r]
  PROVE  /\ worker' \in [Workers -> WorkerType]
         /\ \A v \in Workers : worker'[v].pc # "idle" => worker'[v].cur \in Updates
BY DEF TypeOK, WorkerType

\* Replies are counted.
LEMMA SentTypes ==
  ASSUME TypeOK, NEW u \in Updates, Sent(u) \/ SentAnswerLost(u) \/ UNCHANGED <<replies, lost>>
  PROVE  replies' \in [Updates -> Nat] /\ lost' \in [Updates -> Nat]
<1>1. /\ replies \in [Updates -> Nat] /\ replies[u] + 1 \in Nat
      /\ lost \in [Updates -> Nat] /\ lost[u] + 1 \in Nat
  BY DEF TypeOK
<1>2. /\ [replies EXCEPT ![u] = @ + 1] \in [Updates -> Nat]
      /\ [lost EXCEPT ![u] = @ + 1] \in [Updates -> Nat]
  BY <1>1
<1>. QED
  BY <1>1, <1>2 DEF Sent, SentAnswerLost

\* So do the workers.
LEMMA WorkerTypes ==
  ASSUME IInv, NEW w \in Workers, WorkerStep(w)
  PROVE  TypeOK'
<1>. TypeOK
  BY DEF IInv
<1>0. /\ worker[w] \in WorkerType
      /\ worker[w].pc # "idle" => worker[w].cur \in Updates
      /\ \A u \in Updates : ran[u] \in Nat /\ replies[u] \in Nat /\ lost[u] \in Nat
  BY DEF TypeOK, WorkerType
<1>. DEFINE WorkersOK == /\ worker' \in [Workers -> WorkerType]
                         /\ \A v \in Workers : worker'[v].pc # "idle" => worker'[v].cur \in Updates
<1>1. CASE WorkerRead(w)
  <2>1. Pending(PendingLimit) \in Seq(Updates)
    BY PendingFacts, LimitsAssumption
  <2>. DEFINE r == [worker[w] EXCEPT !.list = Pending(PendingLimit)]
  <2>2. r \in WorkerType /\ r.pc = "idle"
    BY <1>0, <1>1, <2>1 DEF WorkerRead, WorkerType
  <2>3. worker' = [worker EXCEPT ![w] = r]
    BY <1>1 DEF WorkerRead, TypeOK
  <2>. HIDE DEF r
  <2>4. WorkersOK
    BY <2>2, <2>3, RecordTypes
  <2>. QED
    BY <1>1, <2>4 DEF WorkerRead, TypeOK, WorkerType, rowVars, histVars, pollVars, fixed
<1>2. CASE Process(w)
  <2>. DEFINE u == Head(worker[w].list)
  <2>1. u \in Updates /\ Tail(worker[w].list) \in Seq(Updates) /\ u \in 0..N
    <3>1. worker[w].list \in Seq(Updates) /\ worker[w].list # <<>>
      BY <1>0, <1>2 DEF Process, WorkerType
    <3>2. u \in Updates /\ Tail(worker[w].list) \in Seq(Updates)
      BY <3>1
    <3>. QED
      BY <3>2, UpdatesAssumption DEF Updates
  <2>. DEFINE r == [worker[w] EXCEPT !.list = Tail(@), !.cur = u,
                                     !.pc = IF kind[u] = "skip" THEN "idle" ELSE "claim",
                                     !.again = kind[u] = "analysis"]
  <2>2. WorkersOK
    <3>1. worker' = [worker EXCEPT ![w] = r]
      BY <1>2 DEF Process
    <3>. HIDE DEF u
    <3>2. r \in WorkerType /\ r.cur = u
      BY <1>0, <2>1 DEF WorkerType, WorkerPCs
    <3>. HIDE DEF r
    <3>. QED
      BY <2>1, <3>1, <3>2, RecordTypes
  <2>3. ran' \in [Updates -> Nat] /\ status' \in [Updates -> Statuses]
    <3>1. /\ ran' = [ran EXCEPT ![u] = IF kind[u] \in {"command", "analysis"} THEN @ + 1 ELSE @]
          /\ \/ status' = [status EXCEPT ![u] = IF kind[u] = "skip" THEN Skipped ELSE @]
             \/ status' = status
      BY <1>2 DEF Process
    <3>. HIDE DEF u
    <3>2. ran[u] + 1 \in Nat /\ ran[u] \in Nat
      BY <1>0, <2>1
    <3>. QED
      BY <2>1, <3>1, <3>2 DEF TypeOK, Skipped, Statuses
  <2>4. faults' \in 0..MaxFaults
    BY <1>2, FailTypes DEF Process
  <2>. QED
    BY <1>2, <2>2, <2>3, <2>4 DEF Process, TypeOK, WorkerType, pollVars, fixed
<1>3. CASE ClaimReply(w)
  <2>. DEFINE u == worker[w].cur
  <2>1. u \in Updates
    BY <1>0, <1>3 DEF ClaimReply
  <2>2. WorkersOK
    <3>1. \/ Leave(w)
          \/ \E pc \in WorkerPCs : worker' = [worker EXCEPT ![w].pc = pc]
      BY <1>3 DEF ClaimReply, WorkerPCs
    <3>. QED
      BY <1>3, <3>1, LeaveTypes DEF ClaimReply
  <2>3. claimed' \in [Updates -> BOOLEAN] /\ status' \in [Updates -> Statuses]
    BY <1>3 DEF ClaimReply, TypeOK, Statuses, rowVars
  <2>4. faults' \in 0..MaxFaults
    BY <1>3, FailTypes DEF ClaimReply
  <2>. QED
    BY <1>3, <2>2, <2>3, <2>4 DEF ClaimReply, TypeOK, WorkerType, pollVars, histVars, fixed
<1>4. CASE RunEngine(w)
  <2>1. WorkersOK
    <3>1. \E pc \in WorkerPCs : worker' = [worker EXCEPT ![w].pc = pc]
      BY <1>4 DEF RunEngine, WorkerPCs
    <3>. QED
      BY <1>4, <3>1, LeaveTypes DEF RunEngine
  <2>2. ran' \in [Updates -> Nat]
    BY <1>0, <1>4 DEF RunEngine, TypeOK
  <2>. QED
    BY <1>4, <2>1, <2>2 DEF RunEngine, TypeOK, WorkerType, pollVars, rowVars, fixed
<1>5. CASE Send(w)
  <2>1. WorkersOK
    <3>1. \/ Leave(w)
          \/ \E pc \in WorkerPCs : worker' = [worker EXCEPT ![w].pc = pc]
      BY <1>5 DEF Send, WorkerPCs
    <3>. QED
      BY <1>5, <3>1, LeaveTypes DEF Send
  <2>2. replies' \in [Updates -> Nat] /\ lost' \in [Updates -> Nat]
    <3>1. worker[w].cur \in Updates
      BY <1>0, <1>5 DEF Send
    <3>. QED
      BY <1>5, <3>1, SentTypes DEF Send
  <2>3. faults' \in 0..MaxFaults
    BY <1>5, FailTypes DEF Send
  <2>. QED
    BY <1>5, <2>1, <2>2, <2>3 DEF Send, TypeOK, WorkerType, pollVars, rowVars, fixed
<1>6. CASE Edit(w)
  <2>1. WorkersOK
    <3>1. \/ Leave(w)
          \/ \E pc \in WorkerPCs : worker' = [worker EXCEPT ![w].pc = pc]
      BY <1>6 DEF Edit, WorkerPCs
    <3>. QED
      BY <1>6, <3>1, LeaveTypes DEF Edit
  <2>2. replies' \in [Updates -> Nat] /\ lost' \in [Updates -> Nat]
    <3>1. worker[w].cur \in Updates
      BY <1>0, <1>6 DEF Edit
    <3>. QED
      BY <1>6, <3>1, SentTypes DEF Edit
  <2>3. faults' \in 0..MaxFaults
    BY <1>6, FailTypes DEF Edit
  <2>. QED
    BY <1>6, <2>1, <2>2, <2>3 DEF Edit, TypeOK, WorkerType, pollVars, rowVars, fixed
<1>7. CASE Fallback(w)
  <2>1. WorkersOK
    BY <1>7, LeaveTypes DEF Fallback
  <2>2. replies' \in [Updates -> Nat] /\ lost' \in [Updates -> Nat]
    <3>1. worker[w].cur \in Updates
      BY <1>0, <1>7 DEF Fallback
    <3>. QED
      BY <1>7, <3>1, SentTypes DEF Fallback
  <2>3. faults' \in 0..MaxFaults
    BY <1>7, FailTypes DEF Fallback
  <2>. QED
    BY <1>7, <2>1, <2>2, <2>3 DEF Fallback, TypeOK, WorkerType, pollVars, rowVars, fixed
<1>8. CASE Release(w)
  <2>1. WorkersOK
    BY <1>8, LeaveTypes DEF Release
  <2>2. claimed' \in [Updates -> BOOLEAN] /\ status' \in [Updates -> Statuses]
    BY <1>8 DEF Release, Released, TypeOK, Statuses, rowVars
  <2>3. faults' \in 0..MaxFaults
    BY <1>8, FailTypes DEF Release
  <2>. QED
    BY <1>8, <2>1, <2>2, <2>3 DEF Release, TypeOK, WorkerType, pollVars, histVars, fixed
<1>. QED
  BY <1>1, <1>2, <1>3, <1>4, <1>5, <1>6, <1>7, <1>8 DEF WorkerStep

-----------------------------------------------------------------------------
(* Rows only move forward, so what was passed stays passed.                *)

\* A step never removes a row, makes a row pending only when it inserts it,
\* and forgets no failed insert.
RowsMove ==
    /\ missed \subseteq missed' /\ missed' \subseteq Updates
    /\ \A u \in Updates : status[u] # "none" => status'[u] # "none"
    /\ \A u \in Updates : status'[u] = "pending" => status[u] \in {"none", "pending"}

\* The insert of one row is such a step.
LEMMA EnqueueMoves ==
  ASSUME TypeOK, NEW u \in Updates, Enqueue(u) \/ UNCHANGED status
  PROVE  /\ \A v \in Updates : status[v] # "none" => status'[v] # "none"
         /\ \A v \in Updates : status'[v] = "pending" => status[v] \in {"none", "pending"}
         /\ Enqueue(u) => status'[u] # "none"
BY DEF TypeOK, Enqueue

\* A write of any other status is one, to a row that is there.
LEMMA MarkMoves ==
  ASSUME TypeOK, NEW u \in Updates, NEW s, s \notin {"none", "pending"},
         status' = [status EXCEPT ![u] = s]
  PROVE  /\ \A v \in Updates : status[v] # "none" => status'[v] # "none"
         /\ \A v \in Updates : status'[v] = "pending" => status[v] \in {"none", "pending"}
BY DEF TypeOK

\* So every step of the inbox is.
LEMMA StepRows ==
  ASSUME IInv, Next
  PROVE  RowsMove
<1>. TypeOK
  BY DEF IInv
<1>0. missed \subseteq Updates
  BY DEF TypeOK
<1>1. CASE Arrive \/ Restart \/ PollRead \/ PollGet \/ PollScan \/ PollAdvance
  BY <1>0, <1>1 DEF Arrive, Restart, PollRead, PollGet, PollScan, PollAdvance, rowVars, RowsMove
<1>2. CASE PollEnqueue
  <2>1. poller.batch[poller.next] \in Updates
    BY <1>2, BatchFacts DEF PollEnqueue
  <2>. QED
    BY <1>0, <1>2, <2>1, EnqueueMoves DEF PollEnqueue, RowsMove
<1>3. ASSUME NEW u \in Updates, WebhookDeliver(u)
      PROVE  RowsMove
  BY <1>0, <1>3, EnqueueMoves DEF WebhookDeliver, RowsMove
<1>4. ASSUME NEW w \in Workers, Process(w)
      PROVE  RowsMove
  <2>. DEFINE u == Head(worker[w].list)
  <2>1. u \in Updates
    BY <1>4 DEF Process, TypeOK
  <2>2. \/ status' = [status EXCEPT ![u] = "skipped"]
        \/ UNCHANGED status
    BY <1>4 DEF Process, Skipped, TypeOK
  <2>. HIDE DEF u
  <2>. QED
    BY <1>0, <1>4, <2>1, <2>2, MarkMoves DEF Process, RowsMove
<1>5. ASSUME NEW w \in Workers, ClaimReply(w) \/ Release(w)
      PROVE  RowsMove
  <2>1. worker[w].cur \in Updates
    BY <1>5 DEF ClaimReply, Release, TypeOK
  <2>2. \/ status' = [status EXCEPT ![worker[w].cur] = "done"]
        \/ status' = [status EXCEPT ![worker[w].cur] = "failed"]
        \/ UNCHANGED status
    BY <1>5 DEF ClaimReply, Release, Released, rowVars
  <2>. QED
    BY <1>0, <1>5, <2>1, <2>2, MarkMoves DEF ClaimReply, Release, RowsMove
<1>6. ASSUME NEW w \in Workers,
             WorkerRead(w) \/ RunEngine(w) \/ Send(w) \/ Edit(w) \/ Fallback(w)
      PROVE  RowsMove
  BY <1>0, <1>6 DEF WorkerRead, RunEngine, Send, Edit, Fallback, rowVars, RowsMove
<1>. QED
  BY <1>1, <1>2, <1>3, <1>4, <1>5, <1>6 DEF Next, PollStep, WorkerStep

\* Then a recorded update stays recorded, and a passed one passed.
LEMMA PassedStays ==
  ASSUME TypeOK, RowsMove, NEW u \in Updates
  PROVE  /\ Recorded(u) => Recorded(u)'
         /\ Passed(u) => Passed(u)'
<1>1. Recorded(u) => Recorded(u)'
  BY DEF Recorded, RowsMove
<1>2. ScanFilled(u) => ScanFilled(u)'
  <2>. DEFINE A == {v \in missed : v < u}
              B == {v \in missed' : v < u}
  <2>1. A \subseteq B /\ B \subseteq Updates
    BY DEF RowsMove
  <2>. HIDE DEF A, B
  <2>2. IsFiniteSet(A) /\ IsFiniteSet(B)
    BY <2>1, UpdatesFacts
  <2>3. Cardinality(A) <= Cardinality(B) /\ Cardinality(A) \in Nat /\ Cardinality(B) \in Nat
    BY <2>1, <2>2, FS_Subset, FS_CardinalityType
  <2>4. ScanFilled(u) <=> (Cardinality(A) >= ScanLimit)
    BY DEF ScanFilled, A
  <2>5. ScanFilled(u)' <=> (Cardinality(B) >= ScanLimit)
    BY DEF ScanFilled, B
  <2>6. ScanLimit \in Nat
    BY LimitsAssumption
  <2>. QED
    BY <2>3, <2>4, <2>5, <2>6
<1>3. ASSUME Passed(u), status'[u] = "pending"
      PROVE  u \in missed' \/ ScanFilled(u)'
  BY <1>2, <1>3 DEF Passed, Recorded, RowsMove
<1>. QED
  BY <1>1, <1>3 DEF Passed

-----------------------------------------------------------------------------
(* The poll loop's invariant.                                              *)

\* The elements of the batch are updates.
LEMMA BatchTypes ==
  ASSUME TypeOK
  PROVE  /\ \A i \in 1..Len(poller.batch) : poller.batch[i] \in Updates
         /\ Len(poller.batch) \in Nat
BY DEF TypeOK

\* The parts of PollInv that only speak of rows.
LEMMA RowsInv ==
  ASSUME IInv, RowsMove, UNCHANGED <<webhook, forgotten>>
  PROVE  /\ \A u \in Updates : Passed(u) => Passed(u)'
         /\ \A u \in Updates : Recorded(u) => Recorded(u)'
         /\ ~webhook' => \A u \in forgotten' : Passed(u)'
         /\ NoUpdateLost'
<1>1. TypeOK /\ PollInv /\ NoUpdateLost /\ forgotten \subseteq Updates
  BY DEF IInv, TypeOK
<1>2. /\ \A u \in Updates : Passed(u) => Passed(u)'
      /\ \A u \in Updates : Recorded(u) => Recorded(u)'
  BY <1>1, PassedStays
<1>3. ASSUME ~webhook', NEW u \in forgotten'
      PROVE  Passed(u)'
  BY <1>1, <1>2, <1>3 DEF PollInv
<1>4. ASSUME NEW u \in forgotten'
      PROVE  status'[u] # "none" \/ u \in missed'
  BY <1>1, <1>2, <1>4 DEF NoUpdateLost, Recorded
<1>. QED
  BY <1>2, <1>3, <1>4 DEF NoUpdateLost

\* A step that leaves the poll loop where it is, or starts it over.
LEMMA PollStays ==
  ASSUME IInv, RowsMove, UNCHANGED <<webhook, forgotten, high>>,
         poller' = poller \/ poller' = Polling
  PROVE  PollInv' /\ NoUpdateLost'
<1>1. TypeOK /\ PollInv
  BY DEF IInv
<1>2. /\ \A u \in Updates : Passed(u) => Passed(u)'
      /\ \A u \in Updates : Recorded(u) => Recorded(u)'
      /\ ~webhook' => \A u \in forgotten' : Passed(u)'
      /\ NoUpdateLost'
  BY RowsInv
<1>3. CASE poller' = Polling
  BY <1>1, <1>2, <1>3 DEF PollInv, Polling
<1>4. CASE poller' = poller
  <2>. DEFINE b == poller.batch
  <2>1. \A i \in 1..Len(b) : b[i] \in Updates
    BY <1>1, BatchTypes
  <2>2. poller.pc = "enqueue" => \A i \in 1..(poller.next - 1) : Recorded(b[i])'
    <3>1. poller.pc = "enqueue" => \A i \in 1..(poller.next - 1) : i \in 1..Len(b) /\ Recorded(b[i])
      BY <1>1, BatchTypes DEF PollInv
    <3>. QED
      BY <1>2, <1>4, <2>1, <3>1
  <2>3. poller.pc = "scan" => \A i \in 1..Len(b) : Recorded(b[i])'
    BY <1>1, <1>2, <1>4, <2>1 DEF PollInv
  <2>4. poller.pc \in {"enqueue", "scan"} =>
          /\ b # <<>>
          /\ \A i, j \in 1..Len(b) : i < j => b[i] < b[j]
          /\ \A u \in Updates : u <= b[Len(b)] => Passed(u)' \/ \E i \in 1..Len(b) : b[i] = u
    BY <1>1, <1>2 DEF PollInv
  <2>5. /\ webhook' => high' = 0 /\ poller' = Polling
        /\ \A u \in Updates : u <= high' => Passed(u)'
        /\ poller'.pc \in {"get", "advance"} => \A u \in Updates : u <= poller'.ack => Passed(u)'
        /\ poller'.pc \in {"read", "get"} => poller'.next = 1
        /\ poller'.pc = "enqueue" => poller'.next \in 1..Len(poller'.batch)
    BY <1>1, <1>2, <1>4 DEF PollInv
  <2>. QED
    BY <1>2, <1>4, <2>2, <2>3, <2>4, <2>5 DEF PollInv
<1>. QED
  BY <1>3, <1>4

\* The webhook forgets an update once its row is in.
LEMMA WebhookKeepsPoll ==
  ASSUME IInv, RowsMove, NEW u \in Updates, WebhookDeliver(u)
  PROVE  PollInv' /\ NoUpdateLost'
<1>1. TypeOK /\ PollInv /\ NoUpdateLost /\ forgotten \subseteq Updates
  BY DEF IInv, TypeOK
<1>2. /\ \A v \in Updates : Passed(v) => Passed(v)'
      /\ \A v \in Updates : Recorded(v) => Recorded(v)'
  BY <1>1, PassedStays
<1>3. webhook /\ webhook' /\ UNCHANGED <<high, poller>>
  BY <1>1 DEF WebhookDeliver, fixed, PollInv
<1>4. PollInv'
  BY <1>1, <1>2, <1>3 DEF PollInv, Polling
<1>5. forgotten' = forgotten \/ (forgotten' = forgotten \cup {u} /\ Enqueue(u))
  BY DEF WebhookDeliver
<1>6. Enqueue(u) => Recorded(u)'
  BY <1>1, EnqueueMoves DEF Recorded
<1>7. \A v \in forgotten : Recorded(v)'
  BY <1>1, <1>2 DEF NoUpdateLost, Recorded
<1>8. \A v \in forgotten' : Recorded(v)'
  BY <1>5, <1>6, <1>7
<1>. QED
  BY <1>4, <1>8 DEF NoUpdateLost, Recorded

\* While the loop is past its first step the transport is long polling.
LEMMA PollsOnly ==
  ASSUME PollInv, poller.pc # "read"
  PROVE  ~webhook /\ \A u \in forgotten : Passed(u)
BY DEF PollInv, Polling

\* The offset that the loop asks with.
LEMMA ReadKeepsPoll ==
  ASSUME IInv, RowsMove, PollRead
  PROVE  PollInv' /\ NoUpdateLost'
<1>1. TypeOK /\ PollInv
  BY DEF IInv
<1>2. /\ UNCHANGED <<webhook, forgotten, high>>
      /\ ~webhook'
      /\ poller' = [poller EXCEPT !.pc = "get", !.ack = poller'.ack]
      /\ poller.next = 1
      /\ poller'.ack \in {0, high}
  BY <1>1 DEF PollRead, fixed, TypeOK, PollInv
<1>3. poller'.pc = "get" /\ poller'.next = 1
  BY <1>1, <1>2 DEF TypeOK
<1>4. /\ \A u \in Updates : Passed(u) => Passed(u)'
      /\ ~webhook' => \A u \in forgotten' : Passed(u)'
      /\ NoUpdateLost'
  BY <1>2, RowsInv
<1>5. \A u \in Updates : ~(u <= 0)
  BY UpdatesFacts DEF Updates
<1>6. \A u \in Updates : u <= poller'.ack => Passed(u)'
  BY <1>1, <1>2, <1>4, <1>5 DEF PollInv
<1>7. \A u \in Updates : u <= high' => Passed(u)'
  BY <1>1, <1>2, <1>4 DEF PollInv
<1>. QED
  BY <1>2, <1>3, <1>4, <1>6, <1>7 DEF PollInv

\* Of what was sent, a batch leaves out what was acknowledged or forgotten,
\* and what is newer than itself.
LEMMA GetKeepsPoll ==
  ASSUME IInv, RowsMove, PollGet
  PROVE  PollInv' /\ NoUpdateLost'
<1>1. TypeOK /\ PollInv /\ NoUpdateLost
  BY DEF IInv
<1>2. ~webhook /\ (\A u \in forgotten : Passed(u)) /\ poller.pc = "get"
  BY <1>1, PollsOnly DEF PollGet
<1>3. ~webhook' /\ UNCHANGED high /\ poller.next = 1
  BY <1>1, <1>2 DEF PollGet, fixed, PollInv
<1>4. \A u \in Updates : Passed(u) => Passed(u)'
  BY <1>1, PassedStays
<1>5. \A u \in Updates : u <= poller.ack => Passed(u)
  BY <1>1, <1>2 DEF PollInv
<1>6. \A u \in forgotten' : Passed(u)'
  <2>1. forgotten' = forgotten \cup {u \in Updates : u <= poller.ack} /\ forgotten \subseteq Updates
    BY <1>1 DEF PollGet, TypeOK
  <2>. QED
    BY <1>2, <1>4, <1>5, <2>1
<1>7. NoUpdateLost'
  BY <1>6 DEF NoUpdateLost, Passed, Recorded
<1>8. \A u \in Updates : u <= high' => Passed(u)'
  BY <1>1, <1>3, <1>4 DEF PollInv
<1>9. CASE poller' = Polling
  BY <1>3, <1>6, <1>7, <1>8, <1>9 DEF PollInv, Polling
<1>10. CASE Fetched # <<>> /\ poller' = [poller EXCEPT !.pc = "enqueue", !.batch = Fetched]
  <2>. DEFINE b == Fetched
  <2>1. poller'.pc = "enqueue" /\ poller'.batch = b /\ poller'.next = 1
    BY <1>1, <1>3, <1>10 DEF TypeOK
  <2>2. /\ b \in Seq(Updates) /\ b # <<>>
        /\ \A i, j \in 1..Len(b) : i < j => b[i] < b[j]
        /\ \A i \in 1..Len(b) : b[i] <= arrived
        /\ \A u \in 1..arrived : u > poller.ack /\ u \notin forgotten =>
               \/ \E i \in 1..Len(b) : b[i] = u
               \/ \A i \in 1..Len(b) : b[i] < u
    BY <1>1, <1>10, FetchedFacts
  <2>. HIDE DEF b
  <2>3. Len(b) \in 1..Len(b) /\ 1 \in 1..Len(b) /\ b[Len(b)] \in Updates
    BY <2>2
  <2>4. ASSUME NEW u \in Updates, u <= b[Len(b)], ~ \E i \in 1..Len(b) : b[i] = u
        PROVE  Passed(u)
    <3>0. u \in Nat /\ b[Len(b)] \in Nat
      BY <2>3, UpdatesFacts
    <3>1. /\ u \in Nat /\ b[Len(b)] \in Nat
          /\ poller.ack \in Nat /\ arrived \in Nat
      <4>1. N \in Nat /\ poller.ack \in 0..N /\ arrived \in 0..N
        BY <1>1, UpdatesAssumption DEF TypeOK
      <4>. QED
        BY <3>0, <4>1
    <3>2. u \in 1..arrived
      BY <2>2, <2>3, <2>4, <3>1 DEF Updates
    <3>3. ~ \A i \in 1..Len(b) : b[i] < u
      BY <2>3, <2>4, <3>1
    <3>4. u <= poller.ack \/ u \in forgotten
      BY <2>2, <2>4, <3>1, <3>2, <3>3
    <3>. QED
      BY <1>2, <1>5, <3>4
  <2>5. \A u \in Updates : u <= b[Len(b)] => Passed(u)' \/ \E i \in 1..Len(b) : b[i] = u
    BY <1>4, <2>4
  <2>6. 1..(poller'.next - 1) = {}
    BY <2>1
  <2>. QED
    BY <1>3, <1>6, <1>7, <1>8, <2>1, <2>2, <2>3, <2>5, <2>6 DEF PollInv
<1>. QED
  BY <1>9, <1>10 DEF PollGet

\* Each insert records an update or misses it.
LEMMA EnqueueKeepsPoll ==
  ASSUME IInv, RowsMove, PollEnqueue
  PROVE  PollInv' /\ NoUpdateLost'
<1>. DEFINE b == poller.batch
            n == poller.next
<1>1. TypeOK /\ PollInv
  BY DEF IInv
<1>2. UNCHANGED <<webhook, forgotten, high>> /\ ~webhook'
  BY <1>1, PollsOnly DEF PollEnqueue, fixed
<1>3. /\ \A u \in Updates : Passed(u) => Passed(u)'
      /\ \A u \in Updates : Recorded(u) => Recorded(u)'
      /\ ~webhook' => \A u \in forgotten' : Passed(u)'
      /\ NoUpdateLost'
  BY <1>2, RowsInv
<1>4. /\ \A i \in 1..Len(b) : b[i] \in Updates
      /\ Len(b) \in Nat /\ n \in 1..Len(b) /\ b # <<>>
      /\ \A i \in 1..(n - 1) : Recorded(b[i])
      /\ \A i, j \in 1..Len(b) : i < j => b[i] < b[j]
      /\ \A u \in Updates : u <= b[Len(b)] => Passed(u) \/ \E i \in 1..Len(b) : b[i] = u
  BY <1>1, BatchTypes DEF PollInv, PollEnqueue
<1>5. \/ poller' = [poller EXCEPT !.pc = "scan"] /\ n = Len(b)
      \/ poller' = [poller EXCEPT !.next = @ + 1] /\ n # Len(b)
  BY DEF PollEnqueue
<1>6. /\ poller'.batch = b
      /\ \/ poller'.pc = "scan" /\ n = Len(b)
         \/ poller'.pc = "enqueue" /\ poller'.next = n + 1 /\ n # Len(b)
  BY <1>1, <1>5 DEF TypeOK, PollEnqueue
<1>7. ASSUME NEW u \in Updates, u = b[n]
      PROVE  Recorded(u)'
  <2>1. CASE Enqueue(u)
    BY <1>1, <2>1, EnqueueMoves DEF Recorded
  <2>2. CASE missed' = missed \cup {u}
    BY <2>2 DEF Recorded
  <2>. QED
    BY <1>7, <2>1, <2>2 DEF PollEnqueue
<1>8. ASSUME NEW i \in 1..n
      PROVE  Recorded(poller.batch[i])'
  <2>1. b[i] \in Updates /\ poller'.batch[i] = b[i]
    BY <1>4, <1>6
  <2>2. i = n \/ i \in 1..(n - 1)
    BY <1>4
  <2>3. \A u \in Updates : u = b[i] => Recorded(u)'
    BY <1>3, <1>4, <1>7, <2>2
  <2>. QED
    BY <2>1, <2>3 DEF Recorded
<1>9. \A u \in Updates : u <= b[Len(b)] => Passed(u)' \/ \E i \in 1..Len(b) : b[i] = u
  BY <1>3, <1>4
<1>10. \A u \in Updates : u <= high' => Passed(u)'
  BY <1>1, <1>2, <1>3 DEF PollInv
<1>11. CASE poller'.pc = "scan" /\ n = Len(b)
  BY <1>2, <1>3, <1>4, <1>6, <1>8, <1>9, <1>10, <1>11 DEF PollInv
<1>12. CASE poller'.pc = "enqueue" /\ poller'.next = n + 1 /\ n # Len(b)
  <2>1. poller'.next \in 1..Len(b) /\ poller'.next - 1 = n
    BY <1>4, <1>12
  <2>. QED
    BY <1>2, <1>3, <1>4, <1>6, <1>8, <1>9, <1>10, <1>12, <2>1 DEF PollInv
<1>. QED
  BY <1>6, <1>11, <1>12

\* What fills the scan before a row fills it before any later row.
LEMMA ScanGrows ==
  ASSUME TypeOK, NEW u \in Updates, NEW v \in Updates, v <= u, ScanFilled(v)
  PROVE  ScanFilled(u)
<1>. DEFINE A == {x \in missed : x < v}
            B == {x \in missed : x < u}
<1>1. A \subseteq B
  <2>1. u \in Nat /\ v \in Nat /\ missed \subseteq Nat
    BY UpdatesFacts DEF TypeOK
  <2>2. ASSUME NEW x \in A
        PROVE  x \in B
    <3>1. x \in missed /\ x \in Nat /\ x < v
      BY <2>1
    <3>. QED
      BY <2>1, <3>1
  <2>. QED
    BY <2>2
<1>2. B \subseteq Updates
  BY DEF TypeOK
<1>3. ScanFilled(v) <=> Cardinality(A) >= ScanLimit
  BY DEF ScanFilled
<1>4. ScanFilled(u) <=> Cardinality(B) >= ScanLimit
  BY DEF ScanFilled
<1>. HIDE DEF A, B
<1>5. IsFiniteSet(A) /\ IsFiniteSet(B)
  BY <1>1, <1>2, UpdatesFacts
<1>6. Cardinality(A) <= Cardinality(B) /\ Cardinality(A) \in Nat /\ Cardinality(B) \in Nat
  BY <1>1, <1>5, FS_Subset, FS_CardinalityType
<1>. QED
  BY <1>3, <1>4, <1>6, LimitsAssumption

\* A full scan of missed rows fills it for what comes after them.
LEMMA ScanOfMissed ==
  ASSUME TypeOK, NEW u \in Updates, NEW s \in Seq(Updates), Len(s) = ScanLimit,
         \A i, j \in 1..Len(s) : i < j => s[i] < s[j],
         \A i \in 1..Len(s) : s[i] \in missed /\ s[i] < u
  PROVE  ScanFilled(u)
<1>. DEFINE X == {v \in missed : v < u}
<1>1. X \subseteq Updates
  BY DEF TypeOK
<1>2. s \in Seq(X)
  <2>1. Len(s) \in Nat /\ s = [i \in 1..Len(s) |-> s[i]]
    OBVIOUS
  <2>2. \A i \in 1..Len(s) : s[i] \in X
    OBVIOUS
  <2>. HIDE DEF X
  <2>. QED
    BY <2>1, <2>2
<1>3. ScanFilled(u) <=> Cardinality(X) >= ScanLimit
  BY DEF ScanFilled
<1>. HIDE DEF X
<1>4. IsFiniteSet(X) /\ X \subseteq Nat
  BY <1>1, UpdatesFacts
<1>5. Cardinality(X) >= Len(s)
  BY <1>2, <1>4, GrowingIsLarge
<1>. QED
  BY <1>3, <1>5

\* advance acknowledges an update only when all up to it was passed: what the
\* scan did not see is done, or was pushed out of it.
LEMMA AckIsPassed ==
  ASSUME IInv, poller.pc = "scan", NEW u \in Updates, u <= AckTo(poller.batch)
  PROVE  Passed(u)
<1>. DEFINE b == poller.batch
            seen == Pending(ScanLimit)
<1>1. TypeOK /\ PollInv
  BY DEF IInv
<1>2. /\ b \in Seq(Updates) /\ b # <<>> /\ Len(b) \in Nat
      /\ \A i \in 1..Len(b) : b[i] \in Updates /\ b[i] \in Nat
  <2>1. b \in Seq(Updates) /\ b # <<>>
    BY <1>1 DEF TypeOK, PollInv
  <2>. HIDE DEF b
  <2>2. \A i \in 1..Len(b) : b[i] \in Updates
    BY <2>1
  <2>3. \A v \in Updates : v \in Nat
    BY UpdatesFacts
  <2>. QED
    BY <2>1, <2>2, <2>3
<1>3. /\ \A i, j \in 1..Len(b) : i < j => b[i] < b[j]
      /\ \A v \in Updates : v <= b[Len(b)] => Passed(v) \/ \E i \in 1..Len(b) : b[i] = v
      /\ \A i \in 1..Len(b) : Recorded(b[i])
  BY <1>1 DEF PollInv
<1>4. /\ seen \in Seq(Updates) /\ Len(seen) \in Nat
      /\ \A i \in 1..Len(seen) : status[seen[i]] = "pending" /\ seen[i] \in Updates /\ seen[i] \in Nat
      /\ \A i, j \in 1..Len(seen) : i < j => seen[i] < seen[j]
      /\ \A v \in Updates : status[v] = "pending" =>
               \/ \E i \in 1..Len(seen) : seen[i] = v
               \/ Len(seen) = ScanLimit /\ \A i \in 1..Len(seen) : seen[i] < v
  <2>1. ScanLimit \in Nat \ {0}
    BY LimitsAssumption
  <2>2. /\ seen \in Seq(Updates)
        /\ \A i \in 1..Len(seen) : status[seen[i]] = "pending"
        /\ \A i, j \in 1..Len(seen) : i < j => seen[i] < seen[j]
        /\ \A v \in Updates : status[v] = "pending" =>
               \/ \E i \in 1..Len(seen) : seen[i] = v
               \/ Len(seen) = ScanLimit /\ \A i \in 1..Len(seen) : seen[i] < v
    BY <2>1, PendingFacts
  <2>. HIDE DEF seen
  <2>3. \A i \in 1..Len(seen) : seen[i] \in Updates
    BY <2>2
  <2>4. \A v \in Updates : v \in Nat
    BY UpdatesFacts
  <2>. QED
    BY <2>2, <2>3, <2>4
<1>5. u \in Nat /\ AckTo(b) # 0
  <2>1. u \in Nat /\ u # 0
    BY UpdatesFacts DEF Updates
  <2>. QED
    BY <2>1
<1>6. PICK i \in 1..Len(b) :
         /\ AckTo(b) = b[i]
         /\ \A j \in 1..i, k \in 1..Len(seen) : seen[k] # b[j]
  BY <1>2, <1>5, AckFacts
<1>. HIDE DEF b, seen
<1>7. u <= b[i] /\ b[i] <= b[Len(b)]
  <2>1. i = Len(b) \/ i < Len(b)
    BY <1>2
  <2>2. Len(b) \in 1..Len(b)
    BY <1>2, <1>6
  <2>. QED
    BY <1>2, <1>3, <1>6, <2>1, <2>2 DEF b
<1>8. u <= b[Len(b)]
  BY <1>2, <1>5, <1>7
<1>. SUFFICES ASSUME ~Passed(u)
              PROVE  FALSE
  OBVIOUS
<1>9. PICK j \in 1..Len(b) : b[j] = u
  BY <1>3, <1>8
<1>10. j \in 1..i
  <2>1. ~(i < j)
    BY <1>2, <1>3, <1>7, <1>9
  <2>. QED
    BY <1>2, <2>1
<1>11. status[u] = "pending" /\ u \notin missed /\ ~ScanFilled(u)
  BY <1>3, <1>9 DEF Passed
<1>12. Len(seen) = ScanLimit /\ \A k \in 1..Len(seen) : seen[k] < u
  BY <1>4, <1>6, <1>9, <1>10, <1>11
<1>13. ASSUME NEW k \in 1..Len(seen)
       PROVE  seen[k] \in missed
  <2>1. seen[k] \in Updates /\ status[seen[k]] = "pending" /\ seen[k] < u /\ seen[k] \in Nat
    BY <1>4, <1>12
  <2>2. seen[k] <= b[Len(b)] /\ seen[k] <= u
    BY <1>2, <1>5, <1>8, <2>1
  <2>3. ASSUME NEW m \in 1..Len(b), b[m] = seen[k]
        PROVE  FALSE
    <3>1. ~(j < m) /\ m # j
      BY <1>3, <1>5, <1>9, <2>1, <2>3
    <3>2. m \in 1..i
      BY <1>2, <1>10, <3>1
    <3>. QED
      BY <1>6, <2>3, <3>2
  <2>4. Passed(seen[k])
    BY <1>3, <2>1, <2>2, <2>3
  <2>5. ~ScanFilled(seen[k])
    BY <1>1, <1>11, <2>1, <2>2, ScanGrows
  <2>. QED
    BY <2>1, <2>4, <2>5 DEF Passed
<1>. QED
  BY <1>1, <1>4, <1>11, <1>12, <1>13, ScanOfMissed

\* The poll loop keeps its invariant as it scans.
LEMMA ScanKeepsPoll ==
  ASSUME IInv, RowsMove, PollScan
  PROVE  PollInv' /\ NoUpdateLost'
<1>1. TypeOK /\ PollInv
  BY DEF IInv
<1>2. /\ UNCHANGED <<webhook, forgotten, high>> /\ ~webhook'
      /\ poller.pc = "scan"
  BY <1>1, PollsOnly DEF PollScan, fixed
<1>3. CASE poller' = Polling
  BY <1>2, <1>3, PollStays
<1>4. CASE poller' = [poller EXCEPT !.pc = "advance", !.ack = AckTo(poller.batch)]
  <2>1. poller'.pc = "advance" /\ poller'.ack = AckTo(poller.batch)
    BY <1>1, <1>4 DEF TypeOK
  <2>2. /\ \A u \in Updates : Passed(u) => Passed(u)'
        /\ ~webhook' => \A u \in forgotten' : Passed(u)'
        /\ NoUpdateLost'
    BY <1>2, RowsInv
  <2>3. \A u \in Updates : u <= poller'.ack => Passed(u)'
    BY <1>2, <2>1, <2>2, AckIsPassed
  <2>4. \A u \in Updates : u <= high' => Passed(u)'
    BY <1>1, <1>2, <2>2 DEF PollInv
  <2>. QED
    BY <1>2, <2>1, <2>2, <2>3, <2>4 DEF PollInv
<1>. QED
  BY <1>3, <1>4 DEF PollScan

\* The cursor is written as acknowledged.
LEMMA AdvanceKeepsPoll ==
  ASSUME IInv, RowsMove, PollAdvance
  PROVE  PollInv' /\ NoUpdateLost'
<1>1. TypeOK /\ PollInv
  BY DEF IInv
<1>2. UNCHANGED <<webhook, forgotten>> /\ poller' = Polling /\ ~webhook' /\ poller.pc = "advance"
  BY <1>1, PollsOnly DEF PollAdvance, fixed
<1>3. /\ \A u \in Updates : Passed(u) => Passed(u)'
      /\ ~webhook' => \A u \in forgotten' : Passed(u)'
      /\ NoUpdateLost'
  BY <1>2, RowsInv
<1>4. high' = high \/ high' = poller.ack
  BY DEF PollAdvance
<1>5. \A u \in Updates : u <= high' => Passed(u)'
  BY <1>1, <1>2, <1>3, <1>4 DEF PollInv
<1>. QED
  BY <1>2, <1>3, <1>5 DEF PollInv, Polling

-----------------------------------------------------------------------------
(* Who owns a reply, and where a prompt is.                                *)

\* The transports do not touch what the workers own; a restart takes it away.
LEMMA TransportKeepsClaims ==
  ASSUME IInv, Arrive \/ Restart \/ PollStep \/ \E u \in Updates : WebhookDeliver(u)
  PROVE  ClaimInv' /\ PromptInv'
<1>1. ClaimInv /\ PromptInv
  BY DEF IInv
<1>2. UNCHANGED <<claimed, ran, replies, lost, kind>>
  BY DEF Arrive, Restart, PollStep, PollRead, PollGet, PollEnqueue, PollScan, PollAdvance,
         WebhookDeliver, rowVars, histVars, fixed
<1>3. worker' = worker \/ worker' = [w \in Workers |-> Idle]
  BY DEF Arrive, Restart, PollStep, PollRead, PollGet, PollEnqueue, PollScan, PollAdvance,
         WebhookDeliver
<1>4. CASE worker' = worker
  BY <1>1, <1>2, <1>4 DEF ClaimInv, PromptInv, Owns
<1>5. CASE worker' = [w \in Workers |-> Idle]
  <2>1. \A w \in Workers : worker'[w].pc = "idle"
    BY <1>5 DEF Idle
  <2>. QED
    BY <1>1, <1>2, <2>1 DEF ClaimInv, PromptInv, Owns, Holding
<1>. QED
  BY <1>3, <1>4, <1>5

\* A worker goes to pc and keeps its row; nobody else moves.
Moves(w, pc) ==
    /\ worker'[w].pc = pc /\ worker'[w].cur = worker[w].cur
    /\ \A v \in Workers : v # w => worker'[v] = worker[v]

\* Leaving a row is a move to where nothing is owned.
LEMMA LeaveMoves ==
  ASSUME TypeOK, NEW w \in Workers, Leave(w)
  PROVE  Moves(w, "idle") \/ Moves(w, "claim")
<1>1. worker \in [Workers -> WorkerType]
  BY DEF TypeOK, WorkerType
<1>2. \A v \in Workers : v # w => worker'[v] = worker[v]
  BY <1>1 DEF Leave
<1>3. worker'[w] = [worker[w] EXCEPT !.pc = IF worker[w].again THEN "claim" ELSE "idle",
                                     !.again = FALSE]
  BY <1>1 DEF Leave
<1>4. worker'[w].cur = worker[w].cur /\ worker'[w].pc \in {"idle", "claim"}
  BY <1>1, <1>3 DEF WorkerType
<1>. QED
  BY <1>2, <1>4 DEF Moves

\* Setting the state is a move.
LEMMA PcMoves ==
  ASSUME TypeOK, NEW w \in Workers, NEW pc, worker' = [worker EXCEPT ![w].pc = pc]
  PROVE  Moves(w, pc)
<1>1. worker \in [Workers -> WorkerType]
  BY DEF TypeOK, WorkerType
<1>. QED
  BY <1>1 DEF Moves, WorkerType

\* A worker that owns nothing and goes on to own nothing.
LEMMA IdleKeepsClaims ==
  ASSUME IInv, NEW w \in Workers, worker'[w].pc \notin Holding,
         \A v \in Workers : v # w => worker'[v] = worker[v],
         UNCHANGED <<claimed, replies, lost, kind>>,
         \A u \in Updates : kind[u] = "prompt" => ran'[u] = ran[u]
  PROVE  ClaimInv' /\ PromptInv'
<1>1. ClaimInv /\ PromptInv
  BY DEF IInv
<1>2. \A v \in Workers : Owns(v)' => v # w /\ Owns(v) /\ worker'[v] = worker[v]
  BY DEF Owns
<1>3. ClaimInv'
  BY <1>1, <1>2 DEF ClaimInv
<1>4. \A v \in Workers : worker'[v].pc \in Holding => worker[v].cur \in Updates /\ worker'[v] = worker[v]
  BY <1>2 DEF Owns, IInv, TypeOK, Holding
<1>5. PromptInv'
  <2>1. ASSUME NEW v \in Workers
        PROVE  /\ worker'[v].pc = "run" => kind'[worker'[v].cur] \in {"prompt", "router"}
               /\ worker'[v].pc \in {"edit", "fallback"} => kind'[worker'[v].cur] = "prompt"
               /\ worker'[v].pc \in {"send", "run", "release"} /\ kind'[worker'[v].cur] = "prompt" =>
                     ran'[worker'[v].cur] = 0
    <3>1. CASE worker'[v].pc \in Holding
      BY <1>1, <1>4, <3>1 DEF PromptInv
    <3>2. CASE worker'[v].pc \notin Holding
      BY <3>2 DEF Holding
    <3>. QED
      BY <3>1, <3>2
  <2>2. \A u \in Updates : kind'[u] = "prompt" => ran'[u] <= (IF claimed'[u] THEN 1 ELSE 0)
    BY <1>1 DEF PromptInv
  <2>. QED
    BY <2>1, <2>2 DEF PromptInv
<1>. QED
  BY <1>3, <1>5

\* A worker that owns its row's reply, or wins it, changes only that row; what
\* is left to show is about that row alone.
LEMMA OwnerKeepsClaims ==
  ASSUME IInv, NEW w \in Workers, NEW u \in Updates, u = worker[w].cur, NEW pc, Moves(w, pc),
         Owns(w) \/ ~claimed[u],
         \A x \in Updates : x # u => /\ claimed'[x] = claimed[x]
                                     /\ replies'[x] = replies[x]
                                     /\ lost'[x] = lost[x]
                                     /\ ran'[x] = ran[x],
         kind' = kind,
         replies'[u] <= 1 + lost'[u],
         ~claimed'[u] => replies'[u] <= lost'[u],
         pc \in Holding => claimed'[u] /\ replies'[u] <= lost'[u],
         pc = "run" => kind[u] \in {"prompt", "router"},
         pc \in {"edit", "fallback"} => kind[u] = "prompt",
         pc \in {"send", "run", "release"} /\ kind[u] = "prompt" => ran'[u] = 0,
         kind[u] = "prompt" => ran'[u] <= (IF claimed'[u] THEN 1 ELSE 0)
  PROVE  ClaimInv' /\ PromptInv'
<1>1. ClaimInv /\ PromptInv
  BY DEF IInv
<1>2. ASSUME NEW v \in Workers, v # w, Owns(v)
      PROVE  worker[v].cur \in Updates /\ worker[v].cur # u
  <2>1. worker[v].cur \in Updates
    BY <1>2 DEF Owns, Holding, IInv, TypeOK
  <2>2. claimed[worker[v].cur]
    BY <1>1, <1>2 DEF ClaimInv
  <2>3. Owns(w) => worker[v].cur # u
    BY <1>1, <1>2 DEF ClaimInv
  <2>. QED
    BY <2>1, <2>2, <2>3
<1>3. \A v \in Workers : v # w => worker'[v] = worker[v] /\ (Owns(v)' <=> Owns(v))
  BY DEF Moves, Owns
<1>4. worker'[w].cur = u /\ worker'[w].pc = pc /\ (Owns(w)' <=> pc \in Holding)
  BY DEF Moves, Owns
<1>5. ASSUME NEW v \in Workers, Owns(v)'
      PROVE  claimed'[worker'[v].cur] /\ replies'[worker'[v].cur] <= lost'[worker'[v].cur]
  <2>1. CASE v = w
    BY <1>4, <1>5, <2>1
  <2>2. CASE v # w
    BY <1>1, <1>2, <1>3, <1>5, <2>2 DEF ClaimInv
  <2>. QED
    BY <2>1, <2>2
<1>6. ASSUME NEW v \in Workers, NEW x \in Workers, v # x, Owns(v)', Owns(x)'
      PROVE  worker'[v].cur # worker'[x].cur
  <2>1. CASE v = w \/ x = w
    BY <1>2, <1>3, <1>4, <1>6, <2>1
  <2>2. CASE v # w /\ x # w
    BY <1>1, <1>3, <1>6, <2>2 DEF ClaimInv
  <2>. QED
    BY <2>1, <2>2
<1>7. ASSUME NEW x \in Updates
      PROVE  /\ replies'[x] <= 1 + lost'[x]
             /\ ~claimed'[x] => replies'[x] <= lost'[x]
             /\ kind'[x] = "prompt" => ran'[x] <= (IF claimed'[x] THEN 1 ELSE 0)
  <2>1. CASE x = u
    BY <2>1
  <2>2. CASE x # u
    BY <1>1, <2>2 DEF ClaimInv, PromptInv
  <2>. QED
    BY <2>1, <2>2
<1>8. ASSUME NEW v \in Workers
      PROVE  /\ worker'[v].pc = "run" => kind'[worker'[v].cur] \in {"prompt", "router"}
             /\ worker'[v].pc \in {"edit", "fallback"} => kind'[worker'[v].cur] = "prompt"
             /\ worker'[v].pc \in {"send", "run", "release"} /\ kind'[worker'[v].cur] = "prompt" =>
                   ran'[worker'[v].cur] = 0
  <2>1. CASE v = w
    BY <1>4, <2>1
  <2>2. CASE v # w /\ Owns(v)
    <3>1. worker[v].cur \in Updates /\ worker[v].cur # u /\ worker'[v] = worker[v]
      BY <1>2, <1>3, <2>2
    <3>. QED
      BY <1>1, <2>2, <3>1 DEF PromptInv
  <2>3. CASE v # w /\ ~Owns(v)
    BY <1>3, <2>3 DEF Owns, Holding
  <2>. QED
    BY <2>1, <2>2, <2>3
<1>9. ClaimInv'
  BY <1>5, <1>6, <1>7 DEF ClaimInv
<1>10. PromptInv'
  BY <1>7, <1>8 DEF PromptInv
<1>. QED
  BY <1>9, <1>10

\* What a message to the user does to the counts: one more reply, or none, and
\* as many lost answers, or one more.
LEMMA SentEffect ==
  ASSUME TypeOK, NEW u \in Updates
  PROVE  /\ replies[u] \in Nat /\ lost[u] \in Nat
         /\ Sent(u) => /\ replies'[u] = replies[u] + 1 /\ lost'[u] = lost[u]
                       /\ \A x \in Updates : x # u => replies'[x] = replies[x] /\ lost'[x] = lost[x]
         /\ SentAnswerLost(u) =>
               /\ replies'[u] = replies[u] + 1 /\ lost'[u] = lost[u] + 1
               /\ \A x \in Updates : x # u => replies'[x] = replies[x] /\ lost'[x] = lost[x]
BY DEF TypeOK, Sent, SentAnswerLost

\* What an owner knows of its row.
LEMMA OwnerFacts ==
  ASSUME IInv, NEW w \in Workers, Owns(w)
  PROVE  LET u == worker[w].cur IN
         /\ u \in Updates /\ claimed[u] /\ replies[u] <= lost[u]
         /\ replies[u] \in Nat /\ lost[u] \in Nat /\ ran[u] \in Nat
         /\ worker[w].pc = "run" => kind[u] \in {"prompt", "router"}
         /\ worker[w].pc \in {"edit", "fallback"} => kind[u] = "prompt"
         /\ worker[w].pc \in {"send", "run", "release"} /\ kind[u] = "prompt" => ran[u] = 0
         /\ kind[u] = "prompt" => ran[u] <= 1
<1>1. TypeOK /\ ClaimInv /\ PromptInv
  BY DEF IInv
<1>2. worker[w].cur \in Updates
  BY <1>1 DEF Owns, Holding, TypeOK
<1>3. claimed[worker[w].cur] /\ replies[worker[w].cur] <= lost[worker[w].cur]
  BY <1>1 DEF ClaimInv
<1>. QED
  BY <1>1, <1>2, <1>3 DEF PromptInv, TypeOK

\* The winner of the claim finds a row nobody owns.
LEMMA ClaimReplyKeepsClaims ==
  ASSUME IInv, NEW w \in Workers, ClaimReply(w)
  PROVE  ClaimInv' /\ PromptInv'
<1>. DEFINE u == worker[w].cur
<1>1. TypeOK /\ ClaimInv /\ PromptInv
  BY DEF IInv
<1>2. UNCHANGED <<replies, lost, ran, kind>> /\ u \in Updates
  BY <1>1 DEF ClaimReply, histVars, fixed, TypeOK
<1>3. CASE Leave(w) /\ UNCHANGED rowVars
  <2>1. Moves(w, "idle") \/ Moves(w, "claim")
    BY <1>1, <1>3, LeaveMoves
  <2>. QED
    BY <1>2, <1>3, <2>1, IdleKeepsClaims DEF Moves, Holding, rowVars
<1>4. CASE /\ Claimable(u)
           /\ claimed' = [claimed EXCEPT ![u] = TRUE]
           /\ worker' = [worker EXCEPT ![w].pc = IF kind[u] = "router" THEN "run" ELSE "send"]
  <2>. DEFINE pc == IF kind[u] = "router" THEN "run" ELSE "send"
  <2>1. Moves(w, pc)
    BY <1>1, <1>4, PcMoves
  <2>2. ~claimed[u] /\ claimed'[u] /\ \A x \in Updates : x # u => claimed'[x] = claimed[x]
    BY <1>1, <1>2, <1>4 DEF Claimable, TypeOK
  <2>3. replies[u] <= lost[u] /\ replies[u] \in Nat /\ lost[u] \in Nat /\ ran[u] \in Nat
    BY <1>1, <1>2, <2>2 DEF ClaimInv, TypeOK
  <2>4. kind[u] = "prompt" => ran'[u] = 0
    BY <1>1, <1>2, <2>2, <2>3 DEF PromptInv
  <2>5. pc \in {"run", "send"} /\ (pc = "run" => kind[u] = "router")
    OBVIOUS
  <2>6. replies'[u] <= lost'[u] /\ replies'[u] <= 1 + lost'[u]
    BY <1>2, <2>3
  <2>. HIDE DEF pc, u
  <2>. QED
    BY <1>2, <2>1, <2>2, <2>4, <2>5, <2>6, OwnerKeepsClaims DEF u
<1>. QED
  BY <1>3, <1>4 DEF ClaimReply

\* A prompt runs once behind its claim; a router command is sent after it ran.
LEMMA RunEngineKeepsClaims ==
  ASSUME IInv, NEW w \in Workers, RunEngine(w)
  PROVE  ClaimInv' /\ PromptInv'
<1>. DEFINE u == worker[w].cur
            pc == IF kind[u] = "prompt" THEN "edit" ELSE "send"
<1>1. TypeOK /\ Owns(w)
  BY DEF IInv, RunEngine, Owns, Holding
<1>2. /\ u \in Updates /\ claimed[u] /\ replies[u] <= lost[u]
      /\ replies[u] \in Nat /\ lost[u] \in Nat /\ ran[u] \in Nat
      /\ kind[u] = "prompt" => ran[u] = 0
  BY <1>1, OwnerFacts DEF RunEngine
<1>3. Moves(w, pc)
  BY <1>1, PcMoves DEF RunEngine
<1>4. ran'[u] = ran[u] + 1 /\ \A x \in Updates : x # u => ran'[x] = ran[x]
  BY <1>1, <1>2 DEF RunEngine, TypeOK
<1>5. UNCHANGED <<claimed, replies, lost, kind>>
  BY DEF RunEngine, rowVars, fixed
<1>6. /\ pc \in {"edit", "send"}
      /\ pc = "edit" <=> kind[u] = "prompt"
      /\ kind[u] = "prompt" => ran'[u] <= 1
      /\ replies'[u] <= 1 + lost'[u] /\ replies'[u] <= lost'[u]
  BY <1>2, <1>4, <1>5
<1>. HIDE DEF u, pc
<1>. QED
  BY <1>1, <1>2, <1>3, <1>4, <1>5, <1>6, OwnerKeepsClaims DEF u

\* A message that counts as a reply is sent by the owner, who leaves the row
\* claimed or knows that the answer was lost.
LEMMA SendKeepsClaims ==
  ASSUME IInv, NEW w \in Workers, Send(w)
  PROVE  ClaimInv' /\ PromptInv'
<1>. DEFINE u == worker[w].cur
<1>1. TypeOK /\ Owns(w)
  BY DEF IInv, Send, Owns, Holding
<1>2. /\ u \in Updates /\ claimed[u] /\ replies[u] <= lost[u]
      /\ replies[u] \in Nat /\ lost[u] \in Nat /\ ran[u] \in Nat
      /\ kind[u] = "prompt" => ran[u] = 0
  BY <1>1, OwnerFacts DEF Send
<1>3. UNCHANGED <<claimed, ran, kind>>
  BY DEF Send, rowVars, fixed
<1>4. CASE /\ kind[u] = "prompt" /\ UNCHANGED <<replies, lost>>
           /\ worker' = [worker EXCEPT ![w].pc = "run"]
  <2>1. Moves(w, "run")
    BY <1>1, <1>4, PcMoves
  <2>2. replies'[u] <= lost'[u] /\ replies'[u] <= 1 + lost'[u]
    BY <1>2, <1>4
  <2>. HIDE DEF u
  <2>. QED
    BY <1>1, <1>2, <1>3, <1>4, <2>1, <2>2, OwnerKeepsClaims DEF u
<1>5. CASE kind[u] # "prompt" /\ Sent(u) /\ Leave(w)
  <2>1. PICK pc \in {"idle", "claim"} : Moves(w, pc)
    BY <1>1, <1>5, LeaveMoves
  <2>2. /\ replies'[u] <= 1 + lost'[u]
        /\ \A x \in Updates : x # u => replies'[x] = replies[x] /\ lost'[x] = lost[x]
    BY <1>1, <1>2, <1>5, SentEffect
  <2>. HIDE DEF u
  <2>. QED
    BY <1>1, <1>2, <1>3, <1>5, <2>1, <2>2, OwnerKeepsClaims DEF u, Holding
<1>6. CASE /\ UNCHANGED <<replies, lost>> \/ (kind[u] # "prompt" /\ SentAnswerLost(u))
           /\ worker' = [worker EXCEPT ![w].pc = "release"]
  <2>1. Moves(w, "release")
    BY <1>1, <1>6, PcMoves
  <2>2. /\ replies'[u] <= lost'[u] /\ replies'[u] <= 1 + lost'[u]
        /\ \A x \in Updates : x # u => replies'[x] = replies[x] /\ lost'[x] = lost[x]
    BY <1>1, <1>2, <1>6, SentEffect
  <2>. HIDE DEF u
  <2>. QED
    BY <1>1, <1>2, <1>3, <2>1, <2>2, OwnerKeepsClaims DEF u
<1>. QED
  BY <1>4, <1>5, <1>6 DEF Send

\* An edit, and the message that takes its place, go the same way.
LEMMA EditKeepsClaims ==
  ASSUME IInv, NEW w \in Workers, Edit(w) \/ Fallback(w)
  PROVE  ClaimInv' /\ PromptInv'
<1>. DEFINE u == worker[w].cur
<1>1. TypeOK /\ Owns(w)
  BY DEF IInv, Edit, Fallback, Owns, Holding
<1>2. /\ u \in Updates /\ claimed[u] /\ replies[u] <= lost[u]
      /\ replies[u] \in Nat /\ lost[u] \in Nat /\ ran[u] \in Nat
      /\ kind[u] = "prompt" /\ ran[u] <= 1
  BY <1>1, OwnerFacts DEF Edit, Fallback
<1>3. UNCHANGED <<claimed, ran, kind>>
  BY DEF Edit, Fallback, rowVars, fixed
<1>4. CASE (Sent(u) \/ SentAnswerLost(u) \/ UNCHANGED <<replies, lost>>) /\ Leave(w)
  <2>1. PICK pc \in {"idle", "claim"} : Moves(w, pc)
    BY <1>1, <1>4, LeaveMoves
  <2>2. /\ replies'[u] <= 1 + lost'[u]
        /\ \A x \in Updates : x # u => replies'[x] = replies[x] /\ lost'[x] = lost[x]
    BY <1>1, <1>2, <1>4, SentEffect
  <2>. HIDE DEF u
  <2>. QED
    BY <1>1, <1>2, <1>3, <2>1, <2>2, OwnerKeepsClaims DEF u, Holding
<1>5. CASE /\ UNCHANGED <<replies, lost>> \/ SentAnswerLost(u)
           /\ worker' = [worker EXCEPT ![w].pc = "fallback"]
  <2>1. Moves(w, "fallback")
    BY <1>1, <1>5, PcMoves
  <2>2. /\ replies'[u] <= lost'[u] /\ replies'[u] <= 1 + lost'[u]
        /\ \A x \in Updates : x # u => replies'[x] = replies[x] /\ lost'[x] = lost[x]
    BY <1>1, <1>2, <1>5, SentEffect
  <2>. HIDE DEF u
  <2>. QED
    BY <1>1, <1>2, <1>3, <2>1, <2>2, OwnerKeepsClaims DEF u
<1>. QED
  BY <1>4, <1>5 DEF Edit, Fallback

\* A claim is given back by its owner, for a row without an unnoticed reply.
LEMMA ReleaseKeepsClaims ==
  ASSUME IInv, NEW w \in Workers, Release(w)
  PROVE  ClaimInv' /\ PromptInv'
<1>. DEFINE u == worker[w].cur
<1>1. TypeOK /\ Owns(w) /\ Leave(w)
  BY DEF IInv, Release, Owns, Holding
<1>2. /\ u \in Updates /\ claimed[u] /\ replies[u] <= lost[u]
      /\ replies[u] \in Nat /\ lost[u] \in Nat /\ ran[u] \in Nat
      /\ kind[u] = "prompt" => ran[u] = 0
  BY <1>1, OwnerFacts DEF Release
<1>3. UNCHANGED <<replies, lost, ran, kind>>
  BY DEF Release, histVars, fixed
<1>4. \A x \in Updates : x # u => claimed'[x] = claimed[x]
  BY <1>1 DEF Release, rowVars, TypeOK
<1>5. PICK pc \in {"idle", "claim"} : Moves(w, pc)
  BY <1>1, LeaveMoves
<1>6. replies'[u] <= lost'[u] /\ replies'[u] <= 1 + lost'[u]
  BY <1>2, <1>3
<1>. HIDE DEF u
<1>. QED
  BY <1>1, <1>2, <1>3, <1>4, <1>5, <1>6, OwnerKeepsClaims DEF u, Holding

\* A worker that has read the pending rows, or taken the next one, owns
\* nothing, and no prompt has run.
LEMMA ReadKeepsClaims ==
  ASSUME IInv, NEW w \in Workers, WorkerRead(w) \/ Process(w)
  PROVE  ClaimInv' /\ PromptInv'
<1>1. TypeOK
  BY DEF IInv
<1>2. UNCHANGED <<claimed, replies, lost, kind>>
  BY DEF WorkerRead, Process, histVars, rowVars, fixed
<1>3. \A v \in Workers : v # w => worker'[v] = worker[v]
  BY <1>1 DEF WorkerRead, Process, TypeOK
<1>4. worker'[w].pc \in {"idle", "claim"}
  <2>1. worker \in [Workers -> WorkerType]
    BY <1>1 DEF TypeOK, WorkerType
  <2>2. CASE WorkerRead(w)
    BY <2>1, <2>2 DEF WorkerRead, WorkerType
  <2>3. CASE Process(w)
    BY <2>1, <2>3 DEF Process, WorkerType
  <2>. QED
    BY <2>2, <2>3
<1>5. \A u \in Updates : kind[u] = "prompt" => ran'[u] = ran[u]
  BY <1>1 DEF WorkerRead, Process, histVars, TypeOK
<1>. QED
  BY <1>2, <1>3, <1>4, <1>5, IdleKeepsClaims DEF Holding

-----------------------------------------------------------------------------
(* The inductive invariant and the theorems.                               *)

\* The invariant holds at the start.
LEMMA InitInv == Init => IInv
<1>. SUFFICES ASSUME Init
              PROVE  IInv
  OBVIOUS
<1>. USE UpdatesAssumption, FaultsAssumption
<1>1. 0 \in 0..N /\ 0 \in 0..MaxFaults
  OBVIOUS
<1>2. TypeOK
  <2>1. webhook \in BOOLEAN /\ kind \in [Updates -> Kinds]
    BY DEF Init
  <2>2. poller \in PollerType
    BY <1>1 DEF Init, Polling, PollerType, PollPCs
  <2>3. /\ worker \in [Workers -> WorkerType]
        /\ \A w \in Workers : worker[w].pc # "idle" => worker[w].cur \in Updates
    BY <1>1 DEF Init, Idle, WorkerType, WorkerPCs
  <2>. QED
    BY <1>1, <2>1, <2>2, <2>3 DEF Init, TypeOK, PollerType, WorkerType, Statuses
<1>3. \A w \in Workers : worker[w].pc = "idle"
  BY DEF Init, Idle
<1>4. ClaimInv /\ PromptInv
  BY <1>3 DEF Init, ClaimInv, PromptInv, Owns, Holding
<1>5. \A u \in Updates : ~(u <= 0)
  BY UpdatesFacts DEF Updates
<1>6. PollInv /\ NoUpdateLost
  BY <1>5 DEF Init, PollInv, NoUpdateLost, Polling
<1>. QED
  BY <1>2, <1>4, <1>6 DEF IInv

\* Every step keeps it.
LEMMA StepInv == IInv /\ [Next]_vars => IInv'
<1>. SUFFICES ASSUME IInv, [Next]_vars
              PROVE  IInv'
  OBVIOUS
<1>1. CASE Arrive \/ Restart \/ PollStep \/ \E u \in Updates : WebhookDeliver(u)
  <2>1. Next
    BY <1>1 DEF Next
  <2>2. RowsMove
    BY <2>1, StepRows
  <2>3. TypeOK' /\ ClaimInv' /\ PromptInv'
    BY <1>1, TransportTypes, TransportKeepsClaims
  <2>4. ASSUME Arrive \/ Restart
        PROVE  PollInv' /\ NoUpdateLost'
    BY <2>2, <2>4, PollStays DEF Arrive, Restart, fixed
  <2>5. ASSUME PollStep
        PROVE  PollInv' /\ NoUpdateLost'
    BY <2>2, <2>5, ReadKeepsPoll, GetKeepsPoll, EnqueueKeepsPoll, ScanKeepsPoll, AdvanceKeepsPoll
    DEF PollStep
  <2>6. ASSUME \E u \in Updates : WebhookDeliver(u)
        PROVE  PollInv' /\ NoUpdateLost'
    BY <2>2, <2>6, WebhookKeepsPoll
  <2>7. PollInv' /\ NoUpdateLost'
    BY <1>1, <2>4, <2>5, <2>6
  <2>. QED
    BY <2>3, <2>7 DEF IInv
<1>2. ASSUME NEW w \in Workers, WorkerStep(w)
      PROVE  IInv'
  <2>1. Next
    BY <1>2 DEF Next
  <2>2. RowsMove
    BY <2>1, StepRows
  <2>3. TypeOK'
    BY <1>2, WorkerTypes
  <2>4. UNCHANGED <<webhook, forgotten, high, poller>>
    BY <1>2 DEF WorkerStep, WorkerRead, Process, ClaimReply, RunEngine, Send, Edit, Fallback,
                Release, pollVars, fixed
  <2>5. PollInv' /\ NoUpdateLost'
    BY <2>2, <2>4, PollStays
  <2>6. ClaimInv' /\ PromptInv'
    BY <1>2, ReadKeepsClaims, ClaimReplyKeepsClaims, RunEngineKeepsClaims, SendKeepsClaims,
       EditKeepsClaims, ReleaseKeepsClaims DEF WorkerStep
  <2>. QED
    BY <2>3, <2>5, <2>6 DEF IInv
<1>3. CASE UNCHANGED vars
  <2>1. UNCHANGED <<webhook, kind, arrived, forgotten, status, claimed, high, poller, worker,
                    ran, replies, missed, lost, faults>>
    BY <1>3 DEF vars, rowVars, pollVars, histVars, fixed
  <2>2. TypeOK' /\ RowsMove
    BY <2>1 DEF IInv, TypeOK, RowsMove
  <2>3. PollInv' /\ NoUpdateLost'
    BY <2>1, <2>2, PollStays
  <2>4. ClaimInv' /\ PromptInv'
    BY <2>1 DEF IInv, ClaimInv, PromptInv, Owns
  <2>. QED
    BY <2>2, <2>3, <2>4 DEF IInv
<1>. QED
  BY <1>1, <1>2, <1>3 DEF Next

\* The invariant is one of the specification.
LEMMA AlwaysInv == Spec => []IInv
  BY InitInv, StepInv, PTL DEF Spec

\* Every variable stays in its type, whatever fails and restarts.
THEOREM TypeCorrect == Spec => []TypeOK
<1>1. IInv => TypeOK
  BY DEF IInv
<1>. QED
  BY <1>1, AlwaysInv, PTL

\* ClaimReply and FailAndReopen: at most one worker owns an update's reply,
\* and the user gets a second one only for an answer the bot did not get.
THEOREM OneOwnerOneReply == Spec => []AtMostOneReply
<1>1. ASSUME IInv
      PROVE  AtMostOneReply
  <2>1. ClaimInv
    BY <1>1 DEF IInv
  <2>2. ASSUME NEW u \in Updates
        PROVE  Cardinality({w \in Workers : worker[w].cur = u /\ worker[w].pc \in Holding}) <= 1
    <3>. DEFINE O == {w \in Workers : worker[w].cur = u /\ worker[w].pc \in Holding}
    <3>1. \A v, w \in O : v = w
      BY <2>1 DEF ClaimInv, Owns
    <3>. HIDE DEF O
    <3>2. ASSUME O = {}
          PROVE  Cardinality(O) = 0
      BY <3>2, FS_EmptySet
    <3>3. ASSUME NEW w \in O
          PROVE  Cardinality(O) = 1
      <4>1. O = {w}
        BY <3>1
      <4>. QED
        BY <4>1, FS_Singleton
    <3>4. Cardinality(O) <= 1
      BY <3>2, <3>3, FS_EmptySet
    <3>. QED
      BY <3>4 DEF O
  <2>. QED
    BY <2>1, <2>2 DEF AtMostOneReply, ClaimInv
<1>. QED
  BY <1>1, AlwaysInv, PTL

\* Process claims a prompt and sends its placeholder before the engine runs:
\* a prompt runs at most once, however often it is delivered.
THEOREM PromptsRunOnce == Spec => []PromptRunsOnce
<1>1. ASSUME IInv
      PROVE  PromptRunsOnce
  <2>1. PromptInv /\ ran \in [Updates -> Nat]
    BY <1>1 DEF IInv, TypeOK
  <2>. QED
    BY <2>1 DEF PromptInv, PromptRunsOnce
<1>. QED
  BY <1>1, AlwaysInv, PTL

\* What the Bot API has forgotten is a row, or its insert failed in the poll
\* loop.
THEOREM NothingIsLost == Spec => []NoUpdateLost
<1>1. IInv => NoUpdateLost
  BY DEF IInv
<1>. QED
  BY <1>1, AlwaysInv, PTL

\* advance leaves the cursor behind every pending row that the scan can show.
THEOREM CursorStaysBehind == Spec => []CursorBehindPending
<1>1. ASSUME IInv
      PROVE  CursorBehindPending
  <2>1. ASSUME NEW u \in Updates, status[u] = "pending", ~(high < u)
        PROVE  u \in missed \/ ScanFilled(u)
    <3>1. u \in Nat /\ high \in Nat
      <4>1. N \in Nat /\ high \in 0..N
        BY <1>1, UpdatesAssumption DEF IInv, TypeOK
      <4>. QED
        BY <4>1, UpdatesFacts
    <3>2. u <= high
      BY <2>1, <3>1
    <3>. QED
      BY <1>1, <2>1, <3>2 DEF IInv, PollInv, Passed
  <2>. QED
    BY <2>1 DEF CursorBehindPending
<1>. QED
  BY <1>1, AlwaysInv, PTL

-----------------------------------------------------------------------------
(* The cursor moves forward.                                                *)

\* What the Bot API may deliver again, up to an update.
Redelivered(u) == {v \in Updates : v <= u /\ v \notin forgotten}

\* ... is not more than one answer of getUpdates.
Few(u) == Cardinality(Redelivered(u)) <= BatchMax

\* What a poll loop that starts over from zero gets: the Bot API forgets from
\* the front, and a batch that does not begin behind the cursor reaches it.
CursorInv ==
    ~webhook =>
        LET b == poller.batch IN
        /\ \A u \in forgotten, v \in Updates : v < u => v \in forgotten
        /\ high <= arrived /\ Few(high)
        /\ poller.pc = "get" => poller.ack \in {0, high}
        /\ poller.pc \in {"enqueue", "scan"} =>
              /\ b[Len(b)] <= arrived /\ Few(b[Len(b)])
              /\ high < b[1] \/ \E i \in 1..Len(b) : b[i] = high
        /\ poller.pc = "advance" =>
              /\ poller.ack <= arrived /\ Few(poller.ack)
              /\ missed = {} => high <= poller.ack

\* Numbers that the poll loop handles.
LEMMA CursorTypes ==
  ASSUME TypeOK
  PROVE  /\ N \in Nat /\ arrived \in Nat /\ high \in Nat /\ poller.ack \in Nat
         /\ BatchMax \in Nat \ {0} /\ arrived <= N
         /\ \A u \in 1..arrived : u \in Updates
         /\ \A u \in Updates : u \in Nat /\ u # 0
         /\ high # 0 => high \in Updates
         /\ poller.batch \in Seq(Updates)
BY UpdatesAssumption, LimitsAssumption DEF TypeOK, Updates

\* A batch in flight begins and ends with an update.
LEMMA BatchEnds ==
  ASSUME TypeOK, PollInv, poller.pc \in {"enqueue", "scan"}
  PROVE  LET b == poller.batch IN
         /\ Len(b) \in Nat /\ 1 \in 1..Len(b) /\ Len(b) \in 1..Len(b)
         /\ \A i \in 1..Len(b) : b[i] \in Updates /\ b[i] \in Nat
         /\ b[1] \in Nat /\ b[Len(b)] \in Nat
         /\ \A i, j \in 1..Len(b) : i < j => b[i] < b[j]
<1>. DEFINE b == poller.batch
<1>1. b \in Seq(Updates) /\ b # <<>> /\ \A i, j \in 1..Len(b) : i < j => b[i] < b[j]
  BY DEF TypeOK, PollInv
<1>. HIDE DEF b
<1>2. \A i \in 1..Len(b) : b[i] \in Updates
  BY <1>1
<1>3. \A u \in Updates : u \in Nat
  BY UpdatesFacts
<1>4. Len(b) \in Nat /\ 1 \in 1..Len(b) /\ Len(b) \in 1..Len(b)
  BY <1>1
<1>. QED
  BY <1>1, <1>2, <1>3, <1>4 DEF b

\* Fewer updates are redelivered up to an earlier one, and when more have been
\* forgotten.
LEMMA FewShrinks ==
  ASSUME TypeOK, NEW u \in Nat, NEW v \in Nat, v <= u, Few(u), forgotten \subseteq forgotten'
  PROVE  Few(v) /\ Few(v)'
<1>. DEFINE R == Redelivered(u)
            A == Redelivered(v)
            B == Redelivered(v)'
<1>1. A \subseteq R /\ B \subseteq A
  BY CursorTypes DEF Redelivered
<1>2. IsFiniteSet(R)
  BY UpdatesFacts DEF Redelivered
<1>3. Cardinality(R) <= BatchMax
  BY DEF Few
<1>. HIDE DEF R, A, B
<1>4. /\ IsFiniteSet(A) /\ IsFiniteSet(B)
      /\ Cardinality(A) <= Cardinality(R) /\ Cardinality(B) <= Cardinality(R)
  BY <1>1, <1>2, FS_Subset
<1>5. Cardinality(A) \in Nat /\ Cardinality(B) \in Nat /\ Cardinality(R) \in Nat /\ BatchMax \in Nat
  BY <1>2, <1>4, FS_CardinalityType, CursorTypes
<1>. QED
  BY <1>3, <1>4, <1>5 DEF Few, A, B

\* A finite set that a sequence lists has at most as many elements as it.
LEMMA ListedIsSmall ==
  ASSUME NEW X, IsFiniteSet(X), NEW s, Len(s) \in Nat, \A x \in X : \E i \in 1..Len(s) : s[i] = x
  PROVE  Cardinality(X) <= Len(s)
<1>. DEFINE I == 1..Len(s)
            f == [x \in X |-> CHOOSE i \in I : s[i] = x]
<1>1. IsFiniteSet(I) /\ Cardinality(I) = Len(s)
  <2>1. 1 \in Int /\ Len(s) \in Int
    OBVIOUS
  <2>2. IsFiniteSet(I) /\ Cardinality(I) = IF 1 > Len(s) THEN 0 ELSE Len(s) - 1 + 1
    BY ONLY <2>1, FS_Interval
  <2>. QED
    BY <2>2
<1>2. f \in [X -> I] /\ \A x \in X : s[f[x]] = x
  OBVIOUS
<1>. HIDE DEF I, f
<1>3. Cardinality(X) \in Nat
  BY FS_CardinalityType
<1>4. ASSUME Cardinality(I) < Cardinality(X)
      PROVE  FALSE
  <2>1. PICK x, y \in X : x # y /\ f[x] = f[y]
    BY <1>1, <1>2, <1>4, FS_PigeonHole
  <2>. QED
    BY <1>2, <2>1
<1>. QED
  BY <1>1, <1>3, <1>4

\* A step that leaves the loop where it is, or starts it over.
LEMMA CursorStays ==
  ASSUME IInv, CursorInv, UNCHANGED <<webhook, forgotten, high>>,
         arrived' \in Nat, arrived <= arrived', missed \subseteq missed',
         poller' = poller \/ poller' = Polling
  PROVE  CursorInv'
<1>0. TypeOK /\ PollInv
  BY DEF IInv
<1>1. \A u : Few(u)' = Few(u)
  BY DEF Few, Redelivered
<1>2. CASE webhook
  BY <1>2 DEF CursorInv
<1>3. CASE ~webhook
  <2>1. high <= arrived'
    BY <1>0, <1>3, CursorTypes DEF CursorInv
  <2>2. CASE poller' = Polling
    BY <1>1, <1>3, <2>1, <2>2 DEF CursorInv, Polling
  <2>3. CASE poller' = poller
    <3>. DEFINE b == poller.batch
    <3>1. poller.pc \in {"enqueue", "scan"} => b[Len(b)] <= arrived'
      <4>1. ASSUME poller.pc \in {"enqueue", "scan"}
            PROVE  b[Len(b)] \in Nat
        BY <1>0, <4>1, BatchEnds
      <4>. QED
        BY <1>0, <1>3, <4>1, CursorTypes DEF CursorInv
    <3>2. poller.pc = "advance" => poller.ack <= arrived'
      BY <1>0, <1>3, CursorTypes DEF CursorInv
    <3>. QED
      BY <1>1, <1>3, <2>1, <2>3, <3>1, <3>2 DEF CursorInv
  <2>. QED
    BY <2>2, <2>3
<1>. QED
  BY <1>2, <1>3

\* getUpdates: what it forgets is at the front, and what it answers with
\* reaches the cursor.
LEMMA GetKeepsCursor ==
  ASSUME IInv, CursorInv, PollGet
  PROVE  CursorInv'
<1>0. TypeOK /\ PollInv /\ poller.pc = "get" /\ ~webhook
  BY PollsOnly DEF IInv, PollGet
<1>1. /\ N \in Nat /\ arrived \in Nat /\ high \in Nat /\ poller.ack \in Nat /\ BatchMax \in Nat \ {0}
      /\ \A u \in Updates : u \in Nat /\ u # 0
  BY <1>0, CursorTypes
<1>2. /\ forgotten' = forgotten \cup {u \in Updates : u <= poller.ack}
      /\ forgotten \subseteq Updates
      /\ UNCHANGED <<webhook, arrived, high>>
  BY <1>0 DEF PollGet, fixed, TypeOK
<1>3. \A u \in forgotten', v \in Updates : v < u => v \in forgotten'
  BY <1>0, <1>1, <1>2 DEF CursorInv
<1>4. high' <= arrived' /\ Few(high)'
  <2>1. Few(high)'
    BY <1>0, <1>1, <1>2, FewShrinks DEF CursorInv
  <2>. QED
    BY <1>0, <1>2, <2>1 DEF CursorInv
<1>5. CASE poller' = Polling
  BY <1>3, <1>4, <1>5 DEF CursorInv, Polling
<1>6. CASE Fetched # <<>> /\ poller' = [poller EXCEPT !.pc = "enqueue", !.batch = Fetched]
  <2>0. PICK b : b = Fetched
    OBVIOUS
  <2>. DEFINE H == Redelivered(high)
  <2>1. poller'.pc = "enqueue" /\ poller'.batch = b
    BY <1>0, <1>6, <2>0 DEF TypeOK
  <2>2. /\ b \in Seq(Updates) /\ Len(b) <= BatchMax /\ b # <<>>
        /\ \A i, j \in 1..Len(b) : i < j => b[i] < b[j]
        /\ \A i \in 1..Len(b) : b[i] <= arrived /\ b[i] > poller.ack /\ b[i] \notin forgotten
        /\ \A u \in 1..arrived : u > poller.ack /\ u \notin forgotten =>
               \/ \E i \in 1..Len(b) : b[i] = u
               \/ Len(b) = BatchMax /\ \A i \in 1..Len(b) : b[i] < u
    BY <1>0, <1>6, <2>0, FetchedFacts
  <2>3. Len(b) \in Nat /\ 1 \in 1..Len(b) /\ Len(b) \in 1..Len(b)
    BY <2>2
  <2>4. \A i \in 1..Len(b) : b[i] \in Updates /\ b[i] \in Nat /\ b[i] # 0
    BY <1>1, <2>2
  <2>5. Few(b[Len(b)])'
    <3>. DEFINE L == {v \in Updates : v <= b[Len(b)] /\ v \notin forgotten'}
    <3>1. L \subseteq Updates
      OBVIOUS
    <3>2. ASSUME NEW u \in L
          PROVE  \E i \in 1..Len(b) : b[i] = u
      <4>1. u \in Updates /\ u \in Nat /\ u # 0 /\ u <= b[Len(b)] /\ u \notin forgotten'
        BY <1>1, <3>1
      <4>2. u > poller.ack /\ u \notin forgotten
        BY <1>1, <1>2, <4>1
      <4>3. u \in 1..arrived
        BY <1>1, <2>2, <2>3, <2>4, <4>1
      <4>4. ~ \A i \in 1..Len(b) : b[i] < u
        BY <2>3, <2>4, <4>1
      <4>. QED
        BY <2>2, <4>2, <4>3, <4>4
    <3>. HIDE DEF L
    <3>3. IsFiniteSet(L)
      BY <3>1, UpdatesFacts
    <3>4. Cardinality(L) <= Len(b) /\ Cardinality(L) \in Nat
      BY <2>3, <3>2, <3>3, ListedIsSmall, FS_CardinalityType
    <3>. QED
      BY <1>1, <2>2, <2>3, <3>4 DEF Few, Redelivered, L
  <2>6. high < b[1] \/ \E i \in 1..Len(b) : b[i] = high
    <3>. SUFFICES ASSUME ~(high < b[1]), ~ \E i \in 1..Len(b) : b[i] = high
                  PROVE  FALSE
      OBVIOUS
    <3>1. b[1] \in Updates /\ b[1] \in Nat /\ b[1] # 0 /\ b[1] > poller.ack /\ b[1] \notin forgotten
          /\ b[1] # high /\ b[1] < high
      BY <1>1, <2>2, <2>3, <2>4
    <3>2. poller.ack = 0
      BY <1>0, <1>1, <3>1 DEF CursorInv
    <3>3. high \in Updates /\ high \in 1..arrived
      BY <1>0, <1>1, <3>1, CursorTypes DEF CursorInv
    <3>4. high \notin forgotten
      BY <1>0, <3>1, <3>3 DEF CursorInv
    <3>5. Len(b) = BatchMax /\ \A i \in 1..Len(b) : b[i] < high
      BY <1>1, <2>2, <3>1, <3>2, <3>3, <3>4
    <3>. DEFINE G == H \ {high}
    <3>6. H \subseteq Updates /\ high \in H
      BY <1>1, <3>3, <3>4 DEF Redelivered
    <3>7. \A i \in 1..Len(b) : b[i] \in G
      <4>1. ASSUME NEW i \in 1..Len(b)
            PROVE  b[i] \in H /\ b[i] # high
        BY <1>1, <2>2, <2>4, <3>5 DEF Redelivered
      <4>. QED
        BY <4>1
    <3>. HIDE DEF H
    <3>8. IsFiniteSet(H) /\ IsFiniteSet(G) /\ G \subseteq Nat
      BY <3>6, UpdatesFacts
    <3>9. Cardinality(H) \in Nat /\ Cardinality(G) = Cardinality(H) - 1
      BY <3>6, <3>8, FS_RemoveElement, FS_CardinalityType
    <3>. HIDE DEF G
    <3>10. b \in Seq(G)
      BY <2>2, <3>7
    <3>11. Cardinality(G) >= Len(b)
      BY <2>2, <3>8, <3>10, GrowingIsLarge
    <3>12. Cardinality(H) <= BatchMax
      BY <1>0 DEF CursorInv, Few, H
    <3>. QED
      BY <1>1, <3>5, <3>9, <3>11, <3>12
  <2>7. b[Len(b)] <= arrived'
    BY <1>2, <2>2, <2>3
  <2>. QED
    BY <1>2, <1>3, <1>4, <2>1, <2>5, <2>6, <2>7 DEF CursorInv, Few, Redelivered
<1>. QED
  BY <1>5, <1>6 DEF PollGet

\* What advance acknowledges is the last of the batch, or a pending row follows.
LEMMA AckStops ==
  ASSUME TypeOK, PollInv, poller.pc = "scan", AckTo(poller.batch) # 0
  PROVE  \E i \in 1..Len(poller.batch) :
            /\ AckTo(poller.batch) = poller.batch[i]
            /\ i = Len(poller.batch) \/ status[poller.batch[i + 1]] = "pending"
<1>. DEFINE b == poller.batch
            seen == Pending(ScanLimit)
<1>1. b \in Seq(Updates) /\ b # <<>>
  BY DEF TypeOK, PollInv
<1>2. \A k \in 1..Len(seen) : status[seen[k]] = "pending"
  BY PendingFacts, LimitsAssumption
<1>3. \E i \in 1..Len(b) :
         /\ AckTo(b) = b[i]
         /\ \A j \in 1..i, k \in 1..Len(seen) : seen[k] # b[j]
         /\ i = Len(b) \/ \E k \in 1..Len(seen) : seen[k] = b[i + 1]
  BY <1>1, AckFacts
<1>. QED
  BY <1>2, <1>3

\* advance stops behind a pending row, and no pending row is behind the cursor
\* while no insert has failed.
LEMMA ScanKeepsCursor ==
  ASSUME IInv, CursorInv, PollScan
  PROVE  CursorInv'
<1>. DEFINE b == poller.batch
            a == AckTo(b)
<1>0. TypeOK /\ PollInv /\ poller.pc = "scan" /\ ~webhook
  BY PollsOnly DEF IInv, PollScan
<1>1. UNCHANGED <<webhook, arrived, forgotten, high, missed>>
  BY DEF PollScan, fixed
<1>2. CASE poller' = Polling
  BY <1>0, <1>1, <1>2, CursorStays, CursorTypes
<1>3. CASE a # 0 /\ poller' = [poller EXCEPT !.pc = "advance", !.ack = a]
  <2>1. poller'.pc = "advance" /\ poller'.ack = a
    BY <1>0, <1>3 DEF TypeOK
  <2>2. /\ Len(b) \in Nat /\ 1 \in 1..Len(b) /\ Len(b) \in 1..Len(b)
        /\ \A i \in 1..Len(b) : b[i] \in Updates /\ b[i] \in Nat
        /\ \A i, j \in 1..Len(b) : i < j => b[i] < b[j]
    BY <1>0, BatchEnds
  <2>3. PICK i \in 1..Len(b) : a = b[i] /\ (i = Len(b) \/ status[b[i + 1]] = "pending")
    BY <1>0, <1>3, AckStops
  <2>4. a \in Nat /\ a <= b[Len(b)]
    BY <2>2, <2>3
  <2>5. a <= arrived /\ Few(a)
    <3>1. PICK e, z : e = b[Len(b)] /\ z = a
      OBVIOUS
    <3>2. e \in Nat /\ z \in Nat /\ z <= e
      BY <2>2, <2>4, <3>1
    <3>3. e <= arrived /\ Few(e)
      BY <1>0, <3>1 DEF CursorInv
    <3>4. z <= arrived /\ Few(z)
      BY <1>0, <1>1, <3>2, <3>3, FewShrinks, CursorTypes
    <3>. QED
      BY <3>1, <3>4
  <2>6. ASSUME missed = {}
        PROVE  high <= a
    <3>1. high \in Nat
      BY <1>0, CursorTypes
    <3>2. CASE high < b[1]
      BY <2>2, <2>3, <3>1, <3>2
    <3>3. ASSUME NEW k \in 1..Len(b), b[k] = high
          PROVE  high <= a
      <4>1. CASE k <= i
        BY <2>2, <2>3, <3>3, <4>1
      <4>2. CASE ~(k <= i)
        <5>1. i + 1 \in 1..Len(b) /\ i + 1 <= k /\ status[b[i + 1]] = "pending"
          BY <2>2, <2>3, <4>2
        <5>2. b[i + 1] \in Updates /\ b[i + 1] <= high
          BY <2>2, <3>3, <5>1
        <5>3. Passed(b[i + 1])
          BY <1>0, <5>2 DEF PollInv
        <5>4. ScanFilled(b[i + 1])
          BY <2>6, <5>1, <5>3 DEF Passed
        <5>5. {v \in missed : v < b[i + 1]} = {}
          BY <2>6
        <5>6. 0 >= ScanLimit
          BY <5>4, <5>5, FS_EmptySet DEF ScanFilled
        <5>. QED
          BY <5>6, LimitsAssumption
      <4>. QED
        BY <4>1, <4>2
    <3>. QED
      BY <1>0, <3>2, <3>3 DEF CursorInv
  <2>7. \A u : Few(u)' = Few(u)
    BY <1>1 DEF Few, Redelivered
  <2>. QED
    BY <1>0, <1>1, <2>1, <2>5, <2>6, <2>7 DEF CursorInv
<1>. QED
  BY <1>2, <1>3 DEF PollScan

\* Every step keeps it.
LEMMA StepCursor == IInv /\ CursorInv /\ [Next]_vars => CursorInv'
<1>. SUFFICES ASSUME IInv, CursorInv, [Next]_vars
              PROVE  CursorInv'
  OBVIOUS
<1>0. TypeOK /\ PollInv /\ arrived \in Nat
  BY CursorTypes DEF IInv
<1>1. CASE Arrive \/ Restart \/ UNCHANGED vars
  BY <1>0, <1>1, CursorStays DEF Arrive, Restart, vars, rowVars, pollVars, histVars, fixed
<1>2. CASE PollRead
  <2>1. /\ UNCHANGED <<webhook, arrived, forgotten, high, missed>>
        /\ poller' = [poller EXCEPT !.pc = "get", !.ack = poller'.ack]
        /\ poller'.ack \in {0, high} /\ ~webhook
    BY <1>0, <1>2 DEF PollRead, fixed, TypeOK
  <2>2. poller'.pc = "get"
    BY <1>0, <2>1 DEF TypeOK
  <2>3. \A u : Few(u)' = Few(u)
    BY <2>1 DEF Few, Redelivered
  <2>. QED
    BY <2>1, <2>2, <2>3 DEF CursorInv
<1>3. CASE PollGet
  BY <1>3, GetKeepsCursor
<1>4. CASE PollEnqueue
  <2>1. /\ UNCHANGED <<webhook, arrived, forgotten, high>>
        /\ poller.pc = "enqueue" /\ poller'.pc \in {"enqueue", "scan"}
        /\ poller'.batch = poller.batch
    BY <1>0, <1>4 DEF PollEnqueue, fixed, TypeOK
  <2>2. \A u : Few(u)' = Few(u)
    BY <2>1 DEF Few, Redelivered
  <2>. QED
    BY <2>1, <2>2 DEF CursorInv
<1>5. CASE PollScan
  BY <1>5, ScanKeepsCursor
<1>6. CASE PollAdvance
  <2>1. /\ UNCHANGED <<webhook, arrived, forgotten>> /\ poller' = Polling
        /\ high' = high \/ high' = poller.ack
        /\ poller.pc = "advance" /\ ~webhook
    BY <1>0, <1>6, PollsOnly DEF PollAdvance, fixed
  <2>2. \A u : Few(u)' = (Cardinality({v \in Updates : v <= u' /\ v \notin forgotten}) <= BatchMax)
    BY <2>1 DEF Few, Redelivered
  <2>3. Few(high)' /\ high' <= arrived'
    BY <2>1 DEF CursorInv, Few, Redelivered
  <2>. QED
    BY <2>1, <2>3 DEF CursorInv, Polling
<1>7. ASSUME NEW u \in Updates, WebhookDeliver(u)
      PROVE  CursorInv'
  BY <1>7 DEF WebhookDeliver, fixed, CursorInv
<1>8. ASSUME NEW w \in Workers, WorkerStep(w)
      PROVE  CursorInv'
  <2>1. UNCHANGED <<webhook, arrived, forgotten, high, poller, missed>>
    BY <1>8 DEF WorkerStep, WorkerRead, Process, ClaimReply, RunEngine, Send, Edit, Fallback,
                Release, pollVars, fixed
  <2>. QED
    BY <1>0, <2>1, CursorStays
<1>. QED
  BY <1>1, <1>2, <1>3, <1>4, <1>5, <1>6, <1>7, <1>8 DEF Next, PollStep

\* HighWater reads a failing query as zero and the poll loop starts over, but
\* the cursor that AdvanceHighWater writes is never behind the one before, as
\* long as no insert of the poll loop has failed.
THEOREM CursorOnlyAdvances == Spec => CursorMonotone
<1>1. Init => CursorInv
  <2>. SUFFICES ASSUME Init
                PROVE  CursorInv
    OBVIOUS
  <2>1. forgotten = {} /\ high = 0 /\ arrived = 0 /\ poller = Polling
    BY DEF Init
  <2>2. Redelivered(0) = {}
    BY UpdatesFacts DEF Redelivered, Updates
  <2>3. Few(0)
    BY <2>2, FS_EmptySet, LimitsAssumption DEF Few
  <2>. QED
    BY <2>1, <2>3 DEF CursorInv, Polling
<1>2. ASSUME IInv, CursorInv, [Next]_vars
      PROVE  [high' >= high \/ missed # {}]_high
  <2>1. high \in Nat /\ TypeOK /\ PollInv
    BY <1>2, CursorTypes DEF IInv
  <2>2. CASE PollAdvance
    <3>1. ~webhook /\ poller.pc = "advance" /\ (high' = high \/ high' = poller.ack)
      BY <2>1, <2>2, PollsOnly DEF PollAdvance
    <3>2. missed = {} => high' >= high
      BY <1>2, <2>1, <3>1, CursorTypes DEF CursorInv
    <3>. QED
      BY <3>2
  <2>3. CASE ~PollAdvance
    <3>1. ASSUME NEW w \in Workers, WorkerStep(w)
          PROVE  UNCHANGED high
      BY <3>1 DEF WorkerStep, WorkerRead, Process, ClaimReply, RunEngine, Send, Edit, Fallback,
                  Release, pollVars
    <3>2. UNCHANGED high
      BY <1>2, <2>3, <3>1 DEF Next, Arrive, Restart, PollStep, PollRead, PollGet, PollEnqueue,
                              PollScan, WebhookDeliver, vars, pollVars
    <3>. QED
      BY <3>2
  <2>. QED
    BY <2>2, <2>3
<1>3. Spec => []CursorInv
  BY <1>1, AlwaysInv, StepCursor, PTL DEF Spec
<1>. QED
  BY <1>2, <1>3, AlwaysInv, PTL DEF Spec, CursorMonotone

==============================================================================
