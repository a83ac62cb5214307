--------------------------- MODULE SchedulerProofs ---------------------------
(***************************************************************************)
(* Proofs about the command scheduler, for any number of commands, chats,  *)
(* ids and restarts: type correctness, one loop per schedule, honest       *)
(* replies and no loop for a chat outside the allowlist.                   *)
(***************************************************************************)
EXTENDS Scheduler, FiniteSetTheorems, WellFoundedInduction, TLAPS

-----------------------------------------------------------------------------
(* The inductive invariant.                                                *)

\* A Register that saved its row and has not replied.
Saved(c) == call[c].pc \in {"saved", "added"} /\ call[c].durable

\* What holds in any case.  Ids are given out in order, only while a persister
\* is wired, two commands never hold the same one, and a row that was saved
\* stays until its fate is known.
TableInv ==
    /\ \A i \in Ids : rows[i] # NoChat => i \in 1..lastId
    /\ \A i \in Ids : fate[i] \in {"scheduled", "unscheduled"} => i \in 1..lastId
    /\ \A c \in Calls : Saved(c) => /\ Persistent
                                    /\ call[c].id \in 1..lastId
                                    /\ fate[call[c].id] = "none" => rows[call[c].id] # NoChat
    /\ \A c, d \in Calls : c # d /\ Saved(c) /\ Saved(d) => call[c].id # call[d].id
    /\ \A i \in Ids : /\ fate[i] = "scheduled" => rows[i] # NoChat
                      /\ fate[i] = "unscheduled" => rows[i] = NoChat

\* Only chats that this process allows have jobs or may add one.
ChatInv ==
    /\ \A k \in 1..Len(crons) : crons[k].chat \in allowed
    /\ \A c \in Calls : call[c].pc = "saved" => ChatOf[c] \in allowed

\* What holds unless a Register overlapped the boot: nothing is there before
\* Start adds it, the job of an id is the one cronJob of that id that goes on,
\* each cronJob has one loop, and a saved row is not a job yet.
OrderInv ==
    /\ boot \in {"pool", "wired", "listed"} => crons = <<>> /\ jobs = NoJobs
    /\ boot # "up" => loops = <<>>
    /\ boot = "listed" => listed = rows
    /\ \A k \in 1..Len(crons) : ~crons[k].stopped => jobs[crons[k].id] = k
    /\ \A l, m \in 1..Len(loops) : loops[l] = loops[m] => l = m
    /\ \A i \in Ids : jobs[i] # 0 => i \in 1..lastId /\ fate[i] # "unscheduled"
    /\ \A c \in Calls :
          /\ call[c].pc \in {"saved", "added"} => boot = "up"
          /\ call[c].pc = "saved" => /\ call[c].durable
                                     /\ jobs[call[c].id] = 0
                                     /\ fate[call[c].id] # "unscheduled"

IInv == TypeOK /\ TableInv /\ ChatInv /\ (~overlap => OrderInv)

-----------------------------------------------------------------------------
(* Facts about numbers and about ids in order.                             *)

\* Every non-empty set of naturals has a least element.
LEMMA LeastNumber ==
  ASSUME NEW T, T \subseteq Nat, T # {}
  PROVE  \E m \in T : \A y \in T : m <= y
<1>. DEFINE R == {ss \in Nat \X Nat : ss[1] < ss[2]}
<1>1. IsWellFoundedOn(R, Nat)
  BY NatLessThanWellFounded DEF OpToRel
<1>. HIDE DEF R
<1>2. PICK x \in T : \A y \in T : ~ (<<y, x>> \in R)
  BY <1>1, WFMin
<1>3. \A y \in T : ~(y < x)
  BY <1>2 DEF R
<1>. QED
  BY <1>3

\* Ranks are numbers up to the size of the set, grow with the element, and
\* each of them is somebody's.
LEMMA RankFacts ==
  ASSUME NEW S, S \subseteq Nat, IsFiniteSet(S)
  PROVE  /\ Cardinality(S) \in Nat
         /\ \A u \in S : Rank(u, S) \in 1..Cardinality(S)
         /\ \A u, v \in S : u < v => Rank(u, S) < Rank(v, S)
         /\ \A i \in 1..Cardinality(S) : \E u \in S : Rank(u, S) = i
<1>. DEFINE U(u) == {v \in S : v <= u}
<1>1. Cardinality(S) \in Nat
  BY FS_CardinalityType
<1>2. ASSUME NEW u \in S
      PROVE  IsFiniteSet(U(u)) /\ Cardinality(U(u)) \in 1..Cardinality(S)
  <2>1. U(u) \subseteq S /\ u \in U(u)
    OBVIOUS
  <2>. HIDE DEF U
  <2>2. IsFiniteSet(U(u)) /\ Cardinality(U(u)) <= Cardinality(S)
    BY <2>1, FS_Subset
  <2>3. Cardinality(U(u)) \in Nat /\ Cardinality(U(u)) # 0
    BY <2>1, <2>2, FS_CardinalityType, FS_EmptySet
  <2>. QED
    BY <1>1, <2>2, <2>3
<1>3. ASSUME NEW u \in S, NEW v \in S, u < v
      PROVE  Cardinality(U(u)) < Cardinality(U(v))
  <2>. u \in Nat /\ v \in Nat
    OBVIOUS
  <2>1. U(u) \cup {v} \subseteq U(v) /\ v \notin U(u)
    <3>1. v \notin U(u)
      BY <1>3
    <3>2. ASSUME NEW x \in U(u)
          PROVE  x \in S /\ x <= v
      <4>. x \in S /\ x \in Nat /\ x <= u
        OBVIOUS
      <4>. QED
        BY <1>3
    <3>3. v \in U(v)
      OBVIOUS
    <3>. QED
      BY <3>1, <3>2, <3>3
  <2>2. /\ IsFiniteSet(U(u)) /\ Cardinality(U(u)) \in Nat
        /\ IsFiniteSet(U(v)) /\ Cardinality(U(v)) \in Nat
    BY <1>1, <1>2
  <2>. HIDE DEF U
  <2>3. Cardinality(U(u) \cup {v}) = Cardinality(U(u)) + 1
    BY <2>1, <2>2, FS_AddElement
  <2>4. Cardinality(U(u) \cup {v}) <= Cardinality(U(v))
    BY <2>1, <2>2, FS_Subset
  <2>. QED
    BY <2>2, <2>3, <2>4
<1>4. ASSUME NEW i \in 1..Cardinality(S)
      PROVE  \E u \in S : Cardinality(U(u)) = i
  <2>. SUFFICES ASSUME \A u \in S : Cardinality(U(u)) # i
                PROVE  FALSE
    OBVIOUS
  <2>. DEFINE T == (1..Cardinality(S)) \ {i}
              f == [u \in S |-> Cardinality(U(u))]
  <2>1. IsFiniteSet(1..Cardinality(S)) /\ Cardinality(1..Cardinality(S)) = Cardinality(S)
    <3>1. 1 \in Int /\ Cardinality(S) \in Int
      BY <1>1
    <3>2. /\ IsFiniteSet(1..Cardinality(S))
          /\ Cardinality(1..Cardinality(S)) = IF 1 > Cardinality(S) THEN 0 ELSE Cardinality(S) - 1 + 1
      BY ONLY <3>1, FS_Interval
    <3>. QED
      BY <1>1, <3>2
  <2>2. IsFiniteSet(T) /\ Cardinality(T) = Cardinality(S) - 1
    BY <2>1, FS_RemoveElement
  <2>3. f \in [S -> T]
    BY <1>2
  <2>4. Cardinality(T) < Cardinality(S)
    BY <1>1, <2>2
  <2>. HIDE DEF T, f
  <2>5. PICK x, y \in S : x # y /\ f[x] = f[y]
    BY <2>2, <2>3, <2>4, FS_PigeonHole
  <2>6. Cardinality(U(x)) = Cardinality(U(y))
    BY <2>5 DEF f
  <2>7. x < y \/ y < x
    BY <2>5
  <2>8. Cardinality(U(x)) \in Nat /\ Cardinality(U(y)) \in Nat
    BY <1>2
  <2>. QED
    BY <1>3, <2>6, <2>7, <2>8
<1>. QED
  BY <1>1, <1>2, <1>3, <1>4 DEF Rank

\* Ids are numbers, and sets of them are finite.
LEMMA IdsFacts ==
  /\ \A i \in Ids : i \in Nat
  /\ \A S : S \subseteq Ids => IsFiniteSet(S) /\ S \subseteq Nat
<1>1. MaxId \in Nat
  BY BoundsAssumption
<1>2. IsFiniteSet(Ids)
  <2>1. 0 \in Int /\ MaxId \in Int
    BY <1>1
  <2>2. IsFiniteSet(0..MaxId)
    BY ONLY <2>1, FS_Interval
  <2>. QED
    BY <2>2 DEF Ids
<1>3. ASSUME NEW S, S \subseteq Ids
      PROVE  IsFiniteSet(S)
  BY <1>2, <1>3, FS_Subset
<1>4. \A i \in Ids : i \in Nat
  BY <1>1 DEF Ids
<1>. QED
  BY <1>3, <1>4

\* The position of an id and the id at a position are inverse.
LEMMA AtFacts ==
  ASSUME NEW S, S \subseteq Ids
  PROVE  /\ Cardinality(S) \in Nat
         /\ \A i \in S : Rank(i, S) \in 1..Cardinality(S) /\ At(Rank(i, S), S) = i
         /\ \A k \in 1..Cardinality(S) : At(k, S) \in S /\ Rank(At(k, S), S) = k
<1>1. IsFiniteSet(S) /\ S \subseteq Nat
  BY IdsFacts
<1>2. /\ Cardinality(S) \in Nat
      /\ \A u \in S : Rank(u, S) \in 1..Cardinality(S)
      /\ \A u, v \in S : u < v => Rank(u, S) < Rank(v, S)
      /\ \A i \in 1..Cardinality(S) : \E u \in S : Rank(u, S) = i
  BY <1>1, RankFacts
<1>3. \A k \in 1..Cardinality(S) : At(k, S) \in S /\ Rank(At(k, S), S) = k
  BY <1>2 DEF At
<1>4. ASSUME NEW i \in S
      PROVE  At(Rank(i, S), S) = i
  <2>. DEFINE a == At(Rank(i, S), S)
  <2>1. a \in S /\ Rank(a, S) = Rank(i, S)
    BY <1>2, <1>3
  <2>. HIDE DEF a
  <2>2. a \in Nat /\ i \in Nat /\ Rank(i, S) \in Nat
    BY <1>1, <1>2, <2>1
  <2>3. ~(a < i) /\ ~(i < a)
    BY <1>2, <2>1, <2>2
  <2>4. a = i
    BY <2>2, <2>3
  <2>. QED
    BY <2>4 DEF a
<1>. QED
  BY <1>2, <1>3, <1>4

\* A set of numbers that has an upper bound has a largest one.
LEMMA LargestFacts ==
  ASSUME NEW S, S \subseteq Nat, S # {}, NEW b \in Nat, \A i \in S : i <= b
  PROVE  Largest(S) \in S /\ \A i \in S : i <= Largest(S)
<1>. DEFINE T == {n \in Nat : \A i \in S : i <= n}
<1>1. T \subseteq Nat /\ b \in T
  OBVIOUS
<1>2. \A n \in T : n \in Nat /\ \A i \in S : i <= n
  OBVIOUS
<1>3. \A n \in Nat : (\A i \in S : i <= n) => n \in T
  OBVIOUS
<1>. HIDE DEF T
<1>4. PICK m \in T : \A y \in T : m <= y
  BY <1>1, LeastNumber
<1>5. m \in S
  <2>. SUFFICES ASSUME m \notin S
                PROVE  FALSE
    OBVIOUS
  <2>1. m \in Nat /\ \A i \in S : i \in Nat /\ i <= m /\ i # m
    BY <1>2
  <2>2. m # 0
    <3>1. PICK x \in S : TRUE
      OBVIOUS
    <3>. QED
      BY <2>1, <3>1
  <2>3. m - 1 \in Nat /\ \A i \in S : i <= m - 1
    BY <2>1, <2>2
  <2>4. m <= m - 1
    BY <1>3, <1>4, <2>3
  <2>. QED
    BY <2>1, <2>4
<1>6. \E i \in S : \A j \in S : j <= i
  BY <1>2, <1>5
<1>. QED
  BY <1>6 DEF Largest

\* What an appended sequence holds.
LEMMA AppendFacts ==
  ASSUME NEW T, NEW s \in Seq(T), NEW e \in T
  PROVE  /\ Append(s, e) \in Seq(T)
         /\ Len(s) \in Nat
         /\ Len(Append(s, e)) = Len(s) + 1
         /\ \A k \in 1..Len(s) : Append(s, e)[k] = s[k]
         /\ Append(s, e)[Len(s) + 1] = e
  OBVIOUS

-----------------------------------------------------------------------------
(* What Start's two critical sections do.                                  *)

CronType == [id : Ids, chat : Chats, stopped : BOOLEAN]

\* The first one adds one live cronJob for each row of an allowed chat, at the
\* end of the list, and enters it for the row's id.
LEMMA RehydrateFacts ==
  ASSUME TypeOK, Rehydrate
  PROVE  /\ crons' \in Seq(CronType) /\ Len(crons') >= Len(crons)
         /\ \A k \in 1..Len(crons) : crons'[k] = crons[k]
         /\ \A i \in Rehydratable :
               /\ jobs'[i] \in (Len(crons) + 1)..Len(crons')
               /\ crons'[jobs'[i]] = [id |-> i, chat |-> listed[i], stopped |-> FALSE]
         /\ \A i \in Ids \ Rehydratable : jobs'[i] = jobs[i]
         /\ \A k \in (Len(crons) + 1)..Len(crons') :
               \E i \in Rehydratable : crons'[k].id = i /\ jobs'[i] = k
         /\ jobs' \in [Ids -> 0..Len(crons')]
         /\ next' \in Nat
<1>. DEFINE S == Rehydratable
            n == Cardinality(S)
            L == Len(crons)
            new == [k \in 1..n |-> [id |-> At(k, S), chat |-> listed[At(k, S)], stopped |-> FALSE]]
<1>1. S \subseteq Ids /\ \A i \in S : listed[i] \in Chats
  BY DEF Rehydratable, TypeOK
<1>2. /\ crons \in Seq(CronType) /\ L \in Nat
      /\ jobs \in [Ids -> 0..L]
  BY DEF TypeOK, CronType
<1>3. /\ jobs' = [i \in Ids |-> IF i \in S THEN L + Rank(i, S) ELSE jobs[i]]
      /\ crons' = crons \o new
      /\ next' = Largest(S \cup {next})
  BY DEF Rehydrate
<1>. HIDE DEF S, L
<1>4. /\ n \in Nat
      /\ \A i \in S : Rank(i, S) \in 1..n /\ At(Rank(i, S), S) = i
      /\ \A k \in 1..n : At(k, S) \in S /\ Rank(At(k, S), S) = k
  BY <1>1, AtFacts
<1>. HIDE DEF n
<1>5. new \in Seq(CronType) /\ Len(new) = n
  <2>1. \A k \in 1..n : new[k] \in CronType
    BY <1>1, <1>4 DEF CronType
  <2>. QED
    BY <1>4, <2>1
<1>6. \A k \in 1..n : new[k] = [id |-> At(k, S), chat |-> listed[At(k, S)], stopped |-> FALSE]
  OBVIOUS
<1>. HIDE DEF new
<1>7. /\ crons' \in Seq(CronType) /\ Len(crons') = L + n
      /\ \A k \in 1..L : crons'[k] = crons[k]
      /\ \A k \in 1..n : crons'[L + k] = new[k]
  <2>1. /\ crons \o new \in Seq(CronType)
        /\ Len(crons \o new) = Len(crons) + Len(new)
        /\ \A k \in 1..Len(crons) : (crons \o new)[k] = crons[k]
        /\ \A k \in 1..Len(new) : (crons \o new)[Len(crons) + k] = new[k]
    <3>1. crons \in Seq(CronType) /\ new \in Seq(CronType)
      BY <1>2, <1>5
    <3>2. crons \o new \in Seq(CronType) /\ Len(crons \o new) = Len(crons) + Len(new)
      BY ONLY <3>1
    <3>3. \A k \in 1..Len(crons) : (crons \o new)[k] = crons[k]
      BY ONLY <3>1
    <3>4. \A k \in 1..Len(new) : (crons \o new)[Len(crons) + k] = new[k]
      BY ONLY <3>1
    <3>. QED
      BY ONLY <3>2, <3>3, <3>4
  <2>. QED
    BY <1>3, <1>5, <2>1 DEF L
<1>8. ASSUME NEW i \in S
      PROVE  /\ jobs'[i] = L + Rank(i, S)
             /\ jobs'[i] \in (L + 1)..(L + n)
             /\ crons'[jobs'[i]] = [id |-> i, chat |-> listed[i], stopped |-> FALSE]
  <2>1. jobs'[i] = L + Rank(i, S)
    BY <1>1, <1>3
  <2>2. Rank(i, S) \in 1..n /\ At(Rank(i, S), S) = i
    BY <1>4
  <2>3. crons'[L + Rank(i, S)] = new[Rank(i, S)]
    BY <1>7, <2>2
  <2>. QED
    BY <1>2, <1>4, <1>6, <2>1, <2>2, <2>3
<1>9. \A i \in Ids \ S : jobs'[i] = jobs[i]
  BY <1>3
<1>10. ASSUME NEW k \in (L + 1)..(L + n)
       PROVE  \E i \in S : crons'[k].id = i /\ jobs'[i] = k
  <2>1. k - L \in 1..n /\ L + (k - L) = k
    BY <1>2, <1>4
  <2>2. At(k - L, S) \in S /\ Rank(At(k - L, S), S) = k - L
    BY <1>4, <2>1
  <2>. DEFINE a == At(k - L, S)
  <2>3. a \in S /\ Rank(a, S) = k - L
    BY <2>2
  <2>. HIDE DEF a
  <2>4. jobs'[a] = L + Rank(a, S) /\ crons'[jobs'[a]] = [id |-> a, chat |-> listed[a], stopped |-> FALSE]
    BY <1>8, <2>3
  <2>5. jobs'[a] = k
    BY <2>1, <2>3, <2>4
  <2>6. crons'[k].id = a
    BY <2>4, <2>5
  <2>. QED
    BY <2>3, <2>5, <2>6
<1>11. jobs' \in [Ids -> 0..(L + n)]
  <2>1. ASSUME NEW i \in Ids
        PROVE  jobs'[i] \in 0..(L + n)
    <3>1. CASE i \in S
      <4>1. jobs'[i] \in (L + 1)..(L + n)
        BY <1>8, <3>1
      <4>. QED
        BY <1>2, <1>4, <4>1
    <3>2. CASE i \notin S
      <4>1. jobs'[i] = jobs[i] /\ jobs[i] \in 0..L
        BY <1>2, <1>9, <3>2
      <4>. QED
        BY <1>2, <1>4, <4>1
    <3>. QED
      BY <3>1, <3>2
  <2>. QED
    BY <1>3, <2>1
<1>12. next' \in Nat
  <2>. DEFINE X == S \cup {next}
  <2>1. next \in Nat /\ MaxId \in Nat
    BY BoundsAssumption DEF TypeOK
  <2>2. X \subseteq Nat /\ X # {}
    BY <1>1, <2>1, IdsFacts
  <2>3. \A i \in X : i <= next + MaxId
    <3>1. \A i \in S : i \in 0..MaxId
      BY <1>1 DEF Ids
    <3>. QED
      BY <2>1, <3>1
  <2>. HIDE DEF X
  <2>4. next + MaxId \in Nat
    BY <2>1
  <2>5. Largest(X) \in X
    BY <2>2, <2>3, <2>4, LargestFacts
  <2>. QED
    BY <1>3, <2>2, <2>5 DEF X
<1>13. Len(crons') >= L
  BY <1>2, <1>4, <1>7
<1>. QED
  BY <1>7, <1>8, <1>9, <1>10, <1>11, <1>12, <1>13 DEF S, L

\* The second one launches one loop for each job of the map.
LEMMA LaunchFacts ==
  ASSUME TypeOK, LaunchAll
  PROVE  /\ loops' \in Seq(1..Len(crons)) /\ Len(loops') >= Len(loops)
         /\ \A l \in 1..Len(loops) : loops'[l] = loops[l]
         /\ \A l \in (Len(loops) + 1)..Len(loops') :
               \E i \in Ids : jobs[i] # 0 /\ loops'[l] = jobs[i]
         /\ \A l, m \in (Len(loops) + 1)..Len(loops') : loops'[l] = loops'[m] => l = m
<1>. DEFINE S == {i \in Ids : jobs[i] # 0}
            n == Cardinality(S)
            L == Len(loops)
            new == [k \in 1..n |-> jobs[At(k, S)]]
<1>1. S \subseteq Ids /\ \A i \in S : i \in Ids /\ jobs[i] # 0
  OBVIOUS
<1>2. /\ loops \in Seq(1..Len(crons)) /\ L \in Nat
      /\ jobs \in [Ids -> 0..Len(crons)] /\ Len(crons) \in Nat
      /\ \A i \in Ids : jobs[i] # 0 => crons[jobs[i]].id = i
  BY DEF TypeOK
<1>3. loops' = loops \o new
  BY DEF LaunchAll
<1>. HIDE DEF S, L
<1>4. /\ n \in Nat
      /\ \A k \in 1..n : At(k, S) \in S /\ Rank(At(k, S), S) = k
  BY <1>1, AtFacts
<1>. HIDE DEF n
<1>5. ASSUME NEW k \in 1..n
      PROVE  /\ new[k] = jobs[At(k, S)] /\ At(k, S) \in Ids /\ jobs[At(k, S)] # 0
             /\ new[k] \in 1..Len(crons)
  BY <1>1, <1>2, <1>4
<1>6. new \in Seq(1..Len(crons)) /\ Len(new) = n
  BY <1>4, <1>5
<1>. HIDE DEF new
<1>7. /\ loops' \in Seq(1..Len(crons)) /\ Len(loops') = L + n
      /\ \A l \in 1..L : loops'[l] = loops[l]
      /\ \A k \in 1..n : loops'[L + k] = new[k]
  <2>1. /\ loops \o new \in Seq(1..Len(crons))
        /\ Len(loops \o new) = Len(loops) + Len(new)
        /\ \A k \in 1..Len(loops) : (loops \o new)[k] = loops[k]
        /\ \A k \in 1..Len(new) : (loops \o new)[Len(loops) + k] = new[k]
    <3>1. loops \in Seq(1..Len(crons)) /\ new \in Seq(1..Len(crons))
      BY <1>2, <1>6
    <3>2. loops \o new \in Seq(1..Len(crons)) /\ Len(loops \o new) = Len(loops) + Len(new)
      BY ONLY <3>1
    <3>3. \A k \in 1..Len(loops) : (loops \o new)[k] = loops[k]
      BY ONLY <3>1
    <3>4. \A k \in 1..Len(new) : (loops \o new)[Len(loops) + k] = new[k]
      BY ONLY <3>1
    <3>. QED
      BY ONLY <3>2, <3>3, <3>4
  <2>. QED
    BY <1>3, <1>6, <2>1 DEF L
<1>8. ASSUME NEW l \in (L + 1)..(L + n)
      PROVE  l - L \in 1..n /\ L + (l - L) = l /\ loops'[l] = new[l - L]
  <2>1. l - L \in 1..n /\ L + (l - L) = l
    BY <1>2, <1>4
  <2>. QED
    BY <1>7, <2>1
<1>9. ASSUME NEW l \in (L + 1)..(L + n)
      PROVE  \E i \in Ids : jobs[i] # 0 /\ loops'[l] = jobs[i]
  BY <1>5, <1>8
<1>10. ASSUME NEW l \in (L + 1)..(L + n), NEW m \in (L + 1)..(L + n), loops'[l] = loops'[m]
       PROVE  l = m
  <2>. DEFINE a == At(l - L, S)
              b == At(m - L, S)
  <2>1. a \in Ids /\ b \in Ids /\ jobs[a] # 0 /\ jobs[a] = jobs[b]
    BY <1>5, <1>8, <1>10
  <2>2. a = b
    BY <1>2, <2>1
  <2>3. l - L = m - L
    BY <1>4, <1>8, <2>2
  <2>. QED
    BY <1>2, <1>4, <2>3
<1>11. Len(loops') >= L
  BY <1>2, <1>4, <1>7
<1>. QED
  BY <1>7, <1>9, <1>10, <1>11 DEF L

-----------------------------------------------------------------------------
(* Each step keeps the invariant.                                          *)

\* The table's part depends on the table, the calls and whether a persister
\* is wired; the chats' part on the cronJobs, the allowlist and the calls.
LEMMA TableStays ==
  ASSUME TableInv, UNCHANGED <<rows, lastId, fate, call>>, Persistent => Persistent'
  PROVE  TableInv'
BY DEF TableInv, Saved

\* See TableStays.
LEMMA ChatStays ==
  ASSUME ChatInv, UNCHANGED <<crons, allowed, call>>
  PROVE  ChatInv'
BY DEF ChatInv

\* SetSchedules: nothing was added or started before it.
LEMMA WireStep ==
  ASSUME IInv, Wire
  PROVE  IInv'
<1>1. TypeOK /\ TableInv /\ ChatInv /\ (~overlap => OrderInv)
  BY DEF IInv
<1>2. /\ boot = "pool" /\ boot' = "wired"
      /\ UNCHANGED <<rows, lastId, next, jobs, crons, loops, missed, call, fate, overlap>>
      /\ UNCHANGED <<allowed, listed, degraded, restarts>>
  BY DEF Wire, tableVars, jobVars, loopVars, userVars
<1>3. TypeOK'
  BY <1>1, <1>2 DEF TypeOK, Boots
<1>4. TableInv'
  BY <1>1, <1>2, TableStays DEF Persistent
<1>5. ChatInv'
  BY <1>1, <1>2, ChatStays
<1>6. ASSUME ~overlap'
      PROVE  OrderInv'
  BY <1>1, <1>2, <1>6 DEF OrderInv
<1>. QED
  BY <1>3, <1>4, <1>5, <1>6 DEF IInv

\* ListSchedules: what it returns is the table.
LEMMA ListStep ==
  ASSUME IInv, ListSchedules
  PROVE  IInv'
<1>1. TypeOK /\ TableInv /\ ChatInv /\ (~overlap => OrderInv)
  BY DEF IInv
<1>2. /\ boot = "wired"
      /\ \/ boot' = "listed" /\ listed' = rows /\ UNCHANGED degraded
         \/ boot' = "added" /\ degraded' = TRUE /\ UNCHANGED listed
      /\ UNCHANGED <<rows, lastId, next, jobs, crons, loops, missed, call, fate, overlap>>
      /\ UNCHANGED <<allowed, restarts>>
  BY DEF ListSchedules, tableVars, jobVars, loopVars, userVars
<1>3. TypeOK'
  BY <1>1, <1>2 DEF TypeOK, Boots
<1>4. TableInv'
  BY <1>1, <1>2, TableStays DEF Persistent
<1>5. ChatInv'
  BY <1>1, <1>2, ChatStays
<1>6. ASSUME ~overlap'
      PROVE  OrderInv'
  BY <1>1, <1>2, <1>6 DEF OrderInv
<1>. QED
  BY <1>3, <1>4, <1>5, <1>6 DEF IInv

\* Start's first critical section: it runs on an empty map, so that each row
\* of an allowed chat has one cronJob.
LEMMA RehydrateStep ==
  ASSUME IInv, Rehydrate
  PROVE  IInv'
<1>1. TypeOK /\ TableInv /\ ChatInv /\ (~overlap => OrderInv)
  BY DEF IInv
<1>2. /\ boot = "listed" /\ boot' = "added" /\ listed' = NoRows
      /\ UNCHANGED <<rows, lastId, loops, missed, call, fate, overlap>>
      /\ UNCHANGED <<allowed, degraded, restarts>>
  BY DEF Rehydrate, tableVars, loopVars, userVars
<1>3. /\ crons' \in Seq(CronType) /\ Len(crons') >= Len(crons)
      /\ \A k \in 1..Len(crons) : crons'[k] = crons[k]
      /\ \A i \in Rehydratable :
            /\ jobs'[i] \in (Len(crons) + 1)..Len(crons')
            /\ crons'[jobs'[i]] = [id |-> i, chat |-> listed[i], stopped |-> FALSE]
      /\ \A i \in Ids \ Rehydratable : jobs'[i] = jobs[i]
      /\ \A k \in (Len(crons) + 1)..Len(crons') :
            \E i \in Rehydratable : crons'[k].id = i /\ jobs'[i] = k
      /\ jobs' \in [Ids -> 0..Len(crons')]
      /\ next' \in Nat
  BY <1>1, RehydrateFacts
<1>4. Len(crons) \in Nat /\ Len(crons') \in Nat /\ jobs \in [Ids -> 0..Len(crons)]
  BY <1>1, <1>3 DEF TypeOK
<1>5. TypeOK'
  <2>1. ASSUME NEW i \in Ids, jobs'[i] # 0
        PROVE  crons'[jobs'[i]].id = i /\ ~crons'[jobs'[i]].stopped
    <3>1. CASE i \in Rehydratable
      <4>1. crons'[jobs'[i]] = [id |-> i, chat |-> listed[i], stopped |-> FALSE]
        BY <1>3, <3>1
      <4>. QED
        BY <4>1
    <3>2. CASE i \notin Rehydratable
      <4>1. jobs'[i] = jobs[i] /\ jobs[i] \in 1..Len(crons)
        BY <1>3, <1>4, <2>1, <3>2
      <4>2. crons'[jobs'[i]] = crons[jobs[i]]
        BY <1>3, <4>1
      <4>. QED
        BY <1>1, <2>1, <4>1, <4>2 DEF TypeOK
    <3>. QED
      BY <3>1, <3>2
  <2>2. loops' \in Seq(1..Len(crons'))
    <3>1. /\ loops' = loops /\ loops \in Seq(1..Len(crons))
      BY <1>1, <1>2 DEF TypeOK
    <3>2. Len(loops) \in Nat /\ loops = [l \in 1..Len(loops) |-> loops[l]]
      BY <3>1
    <3>3. \A l \in 1..Len(loops) : loops[l] \in 1..Len(crons)
      BY <3>1
    <3>4. \A l \in 1..Len(loops) : loops[l] \in 1..Len(crons')
      BY <1>3, <1>4, <3>3
    <3>. QED
      BY <3>1, <3>2, <3>4
  <2>3. crons' \in Seq([id : Ids, chat : Chats, stopped : BOOLEAN])
    BY <1>3 DEF CronType
  <2>4. listed' \in [Ids -> Chats \cup {NoChat}]
    BY <1>2 DEF NoRows
  <2>5. boot' \in Boots
    BY <1>2 DEF Boots
  <2>. QED
    BY <1>1, <1>2, <1>3, <2>1, <2>2, <2>3, <2>4, <2>5 DEF TypeOK
<1>6. TableInv'
  BY <1>1, <1>2, TableStays DEF Persistent
<1>7. ChatInv'
  <2>1. ASSUME NEW k \in 1..Len(crons')
        PROVE  crons'[k].chat \in allowed'
    <3>1. CASE k \in 1..Len(crons)
      BY <1>1, <1>2, <1>3, <3>1 DEF ChatInv
    <3>2. CASE k \notin 1..Len(crons)
      <4>1. k \in (Len(crons) + 1)..Len(crons')
        BY <1>4, <3>2
      <4>2. PICK i \in Rehydratable : jobs'[i] = k
        BY <1>3, <4>1
      <4>3. crons'[k] = [id |-> i, chat |-> listed[i], stopped |-> FALSE]
        BY <1>3, <4>2
      <4>. QED
        BY <1>2, <4>3 DEF Rehydratable
    <3>. QED
      BY <3>1, <3>2
  <2>. QED
    BY <1>1, <1>2, <2>1 DEF ChatInv
<1>8. ASSUME ~overlap'
      PROVE  OrderInv'
  <2>1. /\ crons = <<>> /\ jobs = NoJobs /\ loops = <<>> /\ listed = rows
        /\ \A c \in Calls : call[c].pc \notin {"saved", "added"}
    BY <1>1, <1>2, <1>8 DEF OrderInv
  <2>2. Len(crons) = 0
    BY <2>1
  <2>3. ASSUME NEW k \in 1..Len(crons')
        PROVE  jobs'[crons'[k].id] = k
    BY <1>3, <2>2
  <2>4. ASSUME NEW i \in Ids, jobs'[i] # 0
        PROVE  i \in 1..lastId /\ fate[i] # "unscheduled"
    <3>1. i \in Rehydratable
      BY <1>3, <2>1, <2>4 DEF NoJobs
    <3>2. rows[i] \in Chats
      BY <1>1, <2>1, <3>1 DEF Rehydratable, TypeOK
    <3>3. rows[i] # NoChat
      BY <3>2, ChatsAssumption
    <3>. QED
      BY <1>1, <3>3 DEF TableInv
  <2>. QED
    BY <1>2, <2>1, <2>3, <2>4 DEF OrderInv
<1>. QED
  BY <1>5, <1>6, <1>7, <1>8 DEF IInv

\* The second one: the map holds each cronJob once and no loop runs yet.
LEMMA LaunchStep ==
  ASSUME IInv, LaunchAll
  PROVE  IInv'
<1>1. TypeOK /\ TableInv /\ ChatInv /\ (~overlap => OrderInv)
  BY DEF IInv
<1>2. /\ boot = "added" /\ boot' = "up"
      /\ UNCHANGED <<rows, lastId, next, jobs, crons, missed, call, fate, overlap>>
      /\ UNCHANGED <<allowed, listed, degraded, restarts>>
  BY DEF LaunchAll, tableVars, jobVars, userVars
<1>3. /\ loops' \in Seq(1..Len(crons))
      /\ \A l, m \in (Len(loops) + 1)..Len(loops') : loops'[l] = loops'[m] => l = m
  BY <1>1, LaunchFacts
<1>4. TypeOK'
  BY <1>1, <1>2, <1>3 DEF TypeOK, Boots
<1>5. TableInv'
  BY <1>1, <1>2, TableStays DEF Persistent
<1>6. ChatInv'
  BY <1>1, <1>2, ChatStays
<1>7. ASSUME ~overlap'
      PROVE  OrderInv'
  <2>1. Len(loops) = 0
    BY <1>1, <1>2, <1>7 DEF OrderInv
  <2>2. \A l, m \in 1..Len(loops') : loops'[l] = loops'[m] => l = m
    BY <1>3, <2>1
  <2>. QED
    BY <1>1, <1>2, <1>7, <2>2 DEF OrderInv
<1>. QED
  BY <1>4, <1>5, <1>6, <1>7 DEF IInv

\* Register up to the lock: the table gives out an id that nothing bears yet.
LEMMA SaveStep ==
  ASSUME IInv, NEW c \in Calls, SaveSchedule(c)
  PROVE  IInv'
<1>1. TypeOK /\ TableInv /\ ChatInv /\ (~overlap => OrderInv)
  BY DEF IInv
<1>2. /\ call[c].pc = "idle" /\ ChatOf[c] \in allowed
      /\ overlap' = (overlap \/ boot # "up")
      /\ UNCHANGED <<allowed, boot, listed, degraded, restarts>>
      /\ UNCHANGED <<next, jobs, crons, loops, missed, fate>>
  BY DEF SaveSchedule, bootVars, jobVars, loopVars
<1>3. /\ lastId \in Nat /\ MaxId \in Nat /\ Ids = 0..MaxId /\ lastId <= MaxId
      /\ 0 \in Ids
  BY <1>1, BoundsAssumption DEF TypeOK, Ids
<1>4. /\ call' = [call EXCEPT ![c] = call'[c]]
      /\ \/ /\ Persistent /\ lastId < MaxId /\ lastId' = lastId + 1
            /\ rows' = [rows EXCEPT ![lastId + 1] = ChatOf[c]]
            /\ call'[c] = [pc |-> "saved", id |-> lastId + 1, durable |-> TRUE]
         \/ /\ call'[c] = [pc |-> "replied", id |-> 0, durable |-> FALSE]
            /\ UNCHANGED <<rows, lastId>>
         \/ /\ ~Persistent
            /\ call'[c] = [pc |-> "saved", id |-> 0, durable |-> FALSE]
            /\ UNCHANGED <<rows, lastId>>
  BY <1>1 DEF SaveSchedule, Advance, tableVars, TypeOK
<1>5. \A d \in Calls \ {c} : call'[d] = call[d]
  BY <1>1, <1>4 DEF TypeOK
<1>6. \A i \in Ids : i \in Nat
  BY IdsFacts
<1>7. TypeOK'
  <2>. DEFINE CallType == [pc : {"idle", "saved", "added", "replied"}, id : Ids, durable : BOOLEAN]
  <2>0. lastId < MaxId => lastId + 1 \in Ids
    BY <1>3
  <2>1. call'[c] \in CallType
    <3>1. [pc |-> "replied", id |-> 0, durable |-> FALSE] \in CallType
      BY <1>3
    <3>2. [pc |-> "saved", id |-> 0, durable |-> FALSE] \in CallType
      BY <1>3
    <3>3. lastId < MaxId => [pc |-> "saved", id |-> lastId + 1, durable |-> TRUE] \in CallType
      BY <2>0
    <3>. QED
      BY <1>4, <3>1, <3>2, <3>3
  <2>2. call' \in [Calls -> CallType]
    BY <1>1, <1>4, <2>1 DEF TypeOK
  <2>3. rows' \in [Ids -> Chats \cup {NoChat}] /\ lastId' \in Ids
    <3>1. rows \in [Ids -> Chats \cup {NoChat}] /\ lastId \in Ids /\ ChatOf[c] \in Chats
      BY <1>1, ChatsAssumption DEF TypeOK
    <3>2. CASE UNCHANGED <<rows, lastId>>
      BY <3>1, <3>2
    <3>3. CASE /\ lastId < MaxId /\ lastId' = lastId + 1
               /\ rows' = [rows EXCEPT ![lastId + 1] = ChatOf[c]]
      BY <2>0, <3>1, <3>3
    <3>. QED
      BY <1>4, <3>2, <3>3
  <2>4. overlap' \in BOOLEAN
    BY <1>1, <1>2 DEF TypeOK
  <2>. QED
    BY <1>1, <1>2, <2>2, <2>3, <2>4 DEF TypeOK
<1>8. CASE /\ Persistent /\ lastId < MaxId /\ lastId' = lastId + 1
           /\ rows' = [rows EXCEPT ![lastId + 1] = ChatOf[c]]
           /\ call'[c] = [pc |-> "saved", id |-> lastId + 1, durable |-> TRUE]
  <2>. DEFINE e == lastId + 1
  <2>1. e \in Ids /\ e \in Nat /\ e \in 1..lastId' /\ e \notin 1..lastId
    BY <1>3, <1>8
  <2>2. \A i \in Ids : i \in 1..lastId => i \in 1..lastId'
    BY <1>3, <1>8
  <2>3. rows'[e] = ChatOf[c] /\ ChatOf[c] # NoChat
    BY <1>1, <1>8, <2>1, ChatsAssumption DEF TypeOK
  <2>4. \A i \in Ids \ {e} : rows'[i] = rows[i]
    BY <1>1, <1>8 DEF TypeOK
  <2>5. call'[c].pc = "saved" /\ call'[c].id = e /\ call'[c].durable
    BY <1>8
  <2>6. fate[e] \notin {"scheduled", "unscheduled"}
    BY <1>1, <2>1 DEF TableInv
  <2>7. \A d \in Calls : Saved(d) => call[d].id # e
    BY <1>1, <2>1 DEF TableInv
  <2>8. Persistent'
    BY <1>2, <1>8 DEF Persistent
  <2>. HIDE DEF e
  <2>9. ASSUME NEW d \in Calls, d # c
        PROVE  Saved(d)' <=> Saved(d)
    BY <1>5, <2>9 DEF Saved
  <2>10. \A i \in Ids : rows'[i] # NoChat => i \in 1..lastId'
    BY <1>1, <2>1, <2>2, <2>4 DEF TableInv
  <2>11. \A i \in Ids : fate'[i] \in {"scheduled", "unscheduled"} => i \in 1..lastId'
    BY <1>1, <1>2, <2>2 DEF TableInv
  <2>12. ASSUME NEW d \in Calls, Saved(d)'
         PROVE  /\ Persistent' /\ call'[d].id \in 1..lastId'
                /\ fate'[call'[d].id] = "none" => rows'[call'[d].id] # NoChat
    <3>1. CASE d = c
      BY <2>1, <2>3, <2>5, <2>8, <3>1
    <3>2. CASE d # c
      <4>1. Saved(d) /\ call'[d] = call[d] /\ call[d].id \in Ids
        BY <1>1, <1>5, <2>9, <2>12, <3>2 DEF TypeOK
      <4>2. call[d].id \in 1..lastId /\ call[d].id # e
        BY <1>1, <2>7, <4>1 DEF TableInv
      <4>3. fate[call[d].id] = "none" => rows[call[d].id] # NoChat
        BY <1>1, <4>1 DEF TableInv
      <4>. QED
        BY <1>2, <2>2, <2>4, <2>8, <4>1, <4>2, <4>3
    <3>. QED
      BY <3>1, <3>2
  <2>13. ASSUME NEW d \in Calls, NEW f \in Calls, d # f, Saved(d)', Saved(f)'
         PROVE  call'[d].id # call'[f].id
    <3>1. CASE d = c
      BY <1>5, <2>5, <2>7, <2>9, <2>13, <3>1
    <3>2. CASE f = c
      BY <1>5, <2>5, <2>7, <2>9, <2>13, <3>2
    <3>3. CASE d # c /\ f # c
      <4>1. Saved(d) /\ Saved(f) /\ call'[d] = call[d] /\ call'[f] = call[f]
        BY <1>5, <2>9, <2>13, <3>3
      <4>. QED
        BY <1>1, <2>13, <4>1 DEF TableInv
    <3>. QED
      BY <3>1, <3>2, <3>3
  <2>14. ASSUME NEW i \in Ids
         PROVE  /\ fate'[i] = "scheduled" => rows'[i] # NoChat
                /\ fate'[i] = "unscheduled" => rows'[i] = NoChat
    <3>1. CASE i = e
      BY <1>2, <2>6, <3>1
    <3>2. CASE i # e
      BY <1>1, <1>2, <2>4, <3>2 DEF TableInv
    <3>. QED
      BY <3>1, <3>2
  <2>15. TableInv'
    BY <2>10, <2>11, <2>12, <2>13, <2>14 DEF TableInv
  <2>16. ChatInv'
    BY <1>1, <1>2, <1>5 DEF ChatInv
  <2>17. ASSUME ~overlap'
         PROVE  OrderInv'
    <3>1. OrderInv /\ boot = "up"
      BY <1>1, <1>2, <2>17
    <3>2. jobs[e] = 0
      BY <2>1, <3>1 DEF OrderInv
    <3>3. ASSUME NEW d \in Calls, call'[d].pc = "saved"
          PROVE  /\ call'[d].durable /\ jobs[call'[d].id] = 0
                 /\ fate[call'[d].id] # "unscheduled"
      <4>1. CASE d = c
        BY <2>5, <2>6, <3>2, <4>1
      <4>2. CASE d # c
        BY <1>5, <3>1, <3>3, <4>2 DEF OrderInv
      <4>. QED
        BY <4>1, <4>2
    <3>4. \A i \in Ids : jobs[i] # 0 => i \in 1..lastId' /\ fate[i] # "unscheduled"
      BY <2>2, <3>1 DEF OrderInv
    <3>. QED
      BY <1>2, <3>1, <3>3, <3>4 DEF OrderInv
  <2>. QED
    BY <1>7, <2>15, <2>16, <2>17 DEF IInv
<1>9. CASE /\ call'[c] = [pc |-> "replied", id |-> 0, durable |-> FALSE]
           /\ UNCHANGED <<rows, lastId>>
  <2>1. ~Saved(c)' /\ \A d \in Calls : Saved(d)' => Saved(d) /\ call'[d] = call[d]
    BY <1>5, <1>9 DEF Saved
  <2>2. TableInv'
    BY <1>1, <1>2, <1>9, <2>1 DEF TableInv, Persistent
  <2>3. ChatInv'
    BY <1>1, <1>2, <1>5, <1>9 DEF ChatInv
  <2>4. ASSUME ~overlap'
        PROVE  OrderInv'
    <3>1. OrderInv /\ boot = "up" /\ call'[c].pc = "replied"
      <4>1. OrderInv /\ boot = "up"
        BY <1>1, <1>2, <2>4
      <4>2. call'[c].pc = "replied"
        BY <1>9
      <4>. QED
        BY <4>1, <4>2
    <3>2. \A d \in Calls \ {c} : call'[d] = call[d]
      BY <1>5
    <3>3. ASSUME NEW d \in Calls, call'[d].pc = "saved"
          PROVE  /\ call'[d].durable /\ jobs[call'[d].id] = 0
                 /\ fate[call'[d].id] # "unscheduled"
      <4>1. d # c
        BY <3>1, <3>3
      <4>. QED
        BY <3>1, <3>2, <3>3, <4>1 DEF OrderInv
    <3>4. /\ \A k \in 1..Len(crons) : ~crons[k].stopped => jobs[crons[k].id] = k
          /\ \A l, m \in 1..Len(loops) : loops[l] = loops[m] => l = m
          /\ \A i \in Ids : jobs[i] # 0 => i \in 1..lastId /\ fate[i] # "unscheduled"
      BY <3>1 DEF OrderInv
    <3>. QED
      BY <1>2, <1>9, <3>1, <3>3, <3>4 DEF OrderInv
  <2>. QED
    BY <1>7, <2>2, <2>3, <2>4 DEF IInv
<1>10. CASE /\ ~Persistent
            /\ call'[c] = [pc |-> "saved", id |-> 0, durable |-> FALSE]
            /\ UNCHANGED <<rows, lastId>>
  <2>1. ~Saved(c)' /\ \A d \in Calls : Saved(d)' => Saved(d) /\ call'[d] = call[d]
    BY <1>5, <1>10 DEF Saved
  <2>2. TableInv'
    BY <1>1, <1>2, <1>10, <2>1 DEF TableInv, Persistent
  <2>3. ChatInv'
    BY <1>1, <1>2, <1>5, <1>10 DEF ChatInv
  <2>4. overlap'
    BY <1>2, <1>10 DEF Persistent
  <2>. QED
    BY <1>7, <2>2, <2>3, <2>4 DEF IInv
<1>. QED
  BY <1>4, <1>8, <1>9, <1>10

\* Register under the lock: the job of the row it saved is the only one of
\* that id, and its loop the only one of that job.
LEMMA AddStep ==
  ASSUME IInv, NEW c \in Calls, AddJob(c)
  PROVE  IInv'
<1>. DEFINE i == JobId(c)
            L == Len(crons)
            new == [id |-> i, chat |-> ChatOf[c], stopped |-> FALSE]
            CallType == [pc : {"idle", "saved", "added", "replied"}, id : Ids, durable : BOOLEAN]
<1>1. TypeOK /\ TableInv /\ ChatInv /\ (~overlap => OrderInv)
  BY DEF IInv
<1>2. /\ call[c].pc = "saved" /\ i \in Ids
      /\ next' \in {next, i}
      /\ crons' = Append(crons, new) /\ jobs' = [jobs EXCEPT ![i] = L + 1]
      /\ loops' = Append(loops, L + 1)
      /\ call' = [call EXCEPT ![c] = [pc |-> "added", id |-> i, durable |-> call[c].durable]]
      /\ UNCHANGED <<rows, lastId, allowed, boot, listed, degraded, restarts>>
      /\ UNCHANGED <<missed, fate, overlap>>
  BY DEF AddJob, Advance, tableVars, bootVars
<1>3. Persistent => i = call[c].id
  BY DEF JobId
<1>. HIDE DEF i
<1>4. /\ crons \in Seq(CronType) /\ L \in Nat /\ new \in CronType
      /\ loops \in Seq(1..L) /\ jobs \in [Ids -> 0..L]
      /\ call \in [Calls -> CallType]
  <2>1. new \in CronType
    BY <1>2, ChatsAssumption DEF CronType
  <2>2. crons \in Seq(CronType)
    BY <1>1 DEF TypeOK, CronType
  <2>3. L \in Nat
    BY <2>2
  <2>4. loops \in Seq(1..L) /\ jobs \in [Ids -> 0..L]
    BY <1>1 DEF TypeOK
  <2>5. call \in [Calls -> CallType]
    BY <1>1 DEF TypeOK
  <2>. QED
    BY <2>1, <2>2, <2>3, <2>4, <2>5
<1>5. /\ crons' \in Seq(CronType) /\ Len(crons') = L + 1
      /\ \A k \in 1..L : crons'[k] = crons[k]
      /\ crons'[L + 1] = new
  BY <1>2, <1>4, AppendFacts
<1>6. /\ loops' \in Seq(1..(L + 1)) /\ Len(loops) \in Nat /\ Len(loops') = Len(loops) + 1
      /\ \A l \in 1..Len(loops) : loops'[l] = loops[l] /\ loops[l] \in 1..L
      /\ loops'[Len(loops) + 1] = L + 1
  <2>1. Len(loops) \in Nat /\ loops = [l \in 1..Len(loops) |-> loops[l]]
    BY <1>4
  <2>2. \A l \in 1..Len(loops) : loops[l] \in 1..L
    BY <1>4
  <2>3. \A l \in 1..Len(loops) : loops[l] \in 1..(L + 1)
    BY <1>4, <2>2
  <2>4. loops \in Seq(1..(L + 1)) /\ L + 1 \in 1..(L + 1)
    BY <1>4, <2>1, <2>3
  <2>. QED
    BY <1>2, <2>2, <2>4, AppendFacts
<1>7. /\ \A j \in Ids \ {i} : jobs'[j] = jobs[j]
      /\ jobs'[i] = L + 1
      /\ jobs' \in [Ids -> 0..(L + 1)]
  BY <1>2, <1>4
<1>8. /\ \A d \in Calls \ {c} : call'[d] = call[d]
      /\ call'[c].pc = "added" /\ call'[c].id = i /\ call'[c].durable = call[c].durable
      /\ call' \in [Calls -> CallType]
  BY <1>2, <1>4
<1>. HIDE DEF L, new, CallType
<1>9. TypeOK'
  <2>1. ASSUME NEW j \in Ids, jobs'[j] # 0
        PROVE  crons'[jobs'[j]].id = j /\ ~crons'[jobs'[j]].stopped
    <3>1. CASE j = i
      BY <1>5, <1>7, <3>1 DEF new
    <3>2. CASE j # i
      <4>1. jobs'[j] = jobs[j] /\ jobs[j] \in 1..L
        BY <1>4, <1>7, <2>1, <3>2
      <4>2. crons'[jobs'[j]] = crons[jobs[j]]
        BY <1>5, <4>1
      <4>. QED
        BY <1>1, <2>1, <4>1, <4>2 DEF TypeOK
    <3>. QED
      BY <3>1, <3>2
  <2>2. next' \in Nat
    BY <1>1, <1>2, IdsFacts DEF TypeOK
  <2>3. crons' \in Seq([id : Ids, chat : Chats, stopped : BOOLEAN])
    BY <1>5 DEF CronType
  <2>4. call' \in [Calls -> [pc : {"idle", "saved", "added", "replied"}, id : Ids, durable : BOOLEAN]]
    BY <1>8 DEF CallType
  <2>5. jobs' \in [Ids -> 0..Len(crons')] /\ loops' \in Seq(1..Len(crons'))
    BY <1>5, <1>6, <1>7
  <2>. QED
    BY <1>1, <1>2, <2>1, <2>2, <2>3, <2>4, <2>5 DEF TypeOK
<1>10. ASSUME NEW d \in Calls
       PROVE  (Saved(d)' <=> Saved(d)) /\ (Saved(d) => call'[d].id = call[d].id)
  <2>1. CASE d # c
    BY <1>8, <2>1 DEF Saved
  <2>2. CASE d = c
    <3>1. Saved(d)' <=> Saved(d)
      BY <1>2, <1>8, <2>2 DEF Saved
    <3>2. Saved(d) => Persistent
      BY <1>1 DEF TableInv
    <3>. QED
      BY <1>3, <1>8, <2>2, <3>1, <3>2
  <2>. QED
    BY <2>1, <2>2
<1>11. TableInv'
  <2>1. ASSUME NEW d \in Calls, Saved(d)'
        PROVE  /\ Persistent' /\ call'[d].id \in 1..lastId'
               /\ fate'[call'[d].id] = "none" => rows'[call'[d].id] # NoChat
    BY <1>1, <1>2, <1>10, <2>1 DEF TableInv, Persistent
  <2>2. ASSUME NEW d \in Calls, NEW f \in Calls, d # f, Saved(d)', Saved(f)'
        PROVE  call'[d].id # call'[f].id
    BY <1>1, <1>10, <2>2 DEF TableInv
  <2>3. /\ \A j \in Ids : rows'[j] # NoChat => j \in 1..lastId'
        /\ \A j \in Ids : fate'[j] \in {"scheduled", "unscheduled"} => j \in 1..lastId'
        /\ \A j \in Ids : /\ fate'[j] = "scheduled" => rows'[j] # NoChat
                          /\ fate'[j] = "unscheduled" => rows'[j] = NoChat
    BY <1>1, <1>2 DEF TableInv
  <2>. QED
    BY <2>1, <2>2, <2>3 DEF TableInv
<1>12. ChatInv'
  <2>1. ASSUME NEW k \in 1..Len(crons')
        PROVE  crons'[k].chat \in allowed'
    <3>1. CASE k = L + 1
      BY <1>1, <1>2, <1>5, <3>1 DEF ChatInv, new
    <3>2. CASE k # L + 1
      <4>1. k \in 1..L
        BY <1>4, <1>5, <3>2 DEF L
      <4>. QED
        BY <1>1, <1>2, <1>5, <4>1 DEF ChatInv, L
    <3>. QED
      BY <3>1, <3>2
  <2>2. ASSUME NEW d \in Calls, call'[d].pc = "saved"
        PROVE  ChatOf[d] \in allowed'
    BY <1>1, <1>2, <1>8, <2>2 DEF ChatInv
  <2>. QED
    BY <2>1, <2>2 DEF ChatInv
<1>13. ASSUME ~overlap'
       PROVE  OrderInv'
  <2>1. OrderInv /\ boot = "up" /\ Persistent
    BY <1>1, <1>2, <1>13 DEF OrderInv, Persistent
  <2>2. i = call[c].id /\ call[c].durable /\ jobs[i] = 0 /\ fate[i] # "unscheduled" /\ Saved(c)
    BY <1>2, <1>3, <2>1 DEF OrderInv, Saved
  <2>3. i \in 1..lastId
    BY <1>1, <2>2 DEF TableInv
  <2>4. ASSUME NEW k \in 1..Len(crons'), ~crons'[k].stopped
        PROVE  jobs'[crons'[k].id] = k
    <3>1. CASE k = L + 1
      BY <1>5, <1>7, <3>1 DEF new
    <3>2. CASE k # L + 1
      <4>1. k \in 1..L /\ k # 0 /\ crons'[k] = crons[k]
        BY <1>4, <1>5, <3>2 DEF L
      <4>2. jobs[crons[k].id] = k
        BY <2>1, <2>4, <4>1 DEF OrderInv, L
      <4>3. crons[k].id \in Ids
        <5>1. crons[k] \in CronType
          BY <1>4, <4>1 DEF L
        <5>. QED
          BY <5>1 DEF CronType
      <4>. QED
        BY <1>7, <2>2, <4>1, <4>2, <4>3
    <3>. QED
      BY <3>1, <3>2
  <2>5. ASSUME NEW l \in 1..Len(loops'), NEW m \in 1..Len(loops'), loops'[l] = loops'[m]
        PROVE  l = m
    <3>1. \A x \in 1..Len(loops') : x \in 1..Len(loops) \/ x = Len(loops) + 1
      BY <1>6
    <3>2. \A x \in 1..Len(loops) : loops'[x] # L + 1
      <4>1. \A x \in 1..Len(loops) : loops'[x] \in 1..L
        BY <1>6
      <4>. QED
        BY <1>4, <4>1
    <3>3. \A x, y \in 1..Len(loops) : loops'[x] = loops'[y] => x = y
      BY <1>6, <2>1 DEF OrderInv
    <3>. QED
      BY <1>6, <2>5, <3>1, <3>2, <3>3
  <2>6. ASSUME NEW j \in Ids, jobs'[j] # 0
        PROVE  j \in 1..lastId' /\ fate'[j] # "unscheduled"
    BY <1>2, <1>7, <2>1, <2>2, <2>3, <2>6 DEF OrderInv
  <2>7. ASSUME NEW d \in Calls, call'[d].pc = "saved"
        PROVE  /\ call'[d].durable /\ jobs'[call'[d].id] = 0
               /\ fate'[call'[d].id] # "unscheduled"
    <3>1. d # c /\ call'[d] = call[d] /\ call[d].pc = "saved"
      BY <1>8, <2>7
    <3>2. call[d].durable /\ jobs[call[d].id] = 0 /\ fate[call[d].id] # "unscheduled"
      BY <2>1, <3>1 DEF OrderInv
    <3>3. call[d].id # i
      BY <1>1, <2>2, <3>1, <3>2 DEF TableInv, Saved
    <3>4. call[d].id \in Ids
      BY <1>1 DEF TypeOK
    <3>. QED
      BY <1>2, <1>7, <3>1, <3>2, <3>3, <3>4
  <2>. QED
    BY <1>2, <2>1, <2>4, <2>5, <2>6, <2>7 DEF OrderInv
<1>. QED
  BY <1>9, <1>11, <1>12, <1>13 DEF IInv

\* Register's reply: what it says of the row is true when it is said.
LEMMA ReplyStep ==
  ASSUME IInv, NEW c \in Calls, Reply(c)
  PROVE  IInv'
<1>1. TypeOK /\ TableInv /\ ChatInv /\ (~overlap => OrderInv)
  BY DEF IInv
<1>2. /\ call[c].pc = "added" /\ call' = [call EXCEPT ![c].pc = "replied"]
      /\ fate' = IF call[c].durable /\ fate[call[c].id] = "none"
                 THEN [fate EXCEPT ![call[c].id] = "scheduled"] ELSE fate
      /\ UNCHANGED <<rows, lastId, allowed, boot, listed, degraded, restarts>>
      /\ UNCHANGED <<next, jobs, crons, loops, missed, overlap>>
  BY DEF Reply, tableVars, bootVars, jobVars, loopVars
<1>3. call[c].id \in Ids /\ fate \in [Ids -> Fates]
  BY <1>1 DEF TypeOK
<1>4. \A d \in Calls \ {c} : call'[d] = call[d]
  BY <1>1, <1>2 DEF TypeOK
<1>5. call'[c].pc = "replied"
  BY <1>1, <1>2 DEF TypeOK
<1>6. ASSUME NEW j \in Ids
      PROVE  \/ fate'[j] = fate[j]
             \/ /\ j = call[c].id /\ Saved(c)
                /\ fate[j] = "none" /\ fate'[j] = "scheduled"
  BY <1>2, <1>3 DEF Saved
<1>7. TypeOK'
  <2>1. call' \in [Calls -> [pc : {"idle", "saved", "added", "replied"}, id : Ids, durable : BOOLEAN]]
    <3>. DEFINE CallType == [pc : {"idle", "saved", "added", "replied"}, id : Ids, durable : BOOLEAN]
    <3>1. call \in [Calls -> CallType] /\ call[c] \in CallType
      BY <1>1 DEF TypeOK
    <3>2. [call[c] EXCEPT !.pc = "replied"] \in CallType
      BY <3>1
    <3>3. call' = [call EXCEPT ![c] = [call[c] EXCEPT !.pc = "replied"]]
      BY <1>2
    <3>. HIDE DEF CallType
    <3>4. call' \in [Calls -> CallType]
      BY <3>1, <3>2, <3>3
    <3>. QED
      BY <3>4 DEF CallType
  <2>2. fate' \in [Ids -> Fates]
    BY <1>2, <1>3 DEF Fates
  <2>. QED
    BY <1>1, <1>2, <2>1, <2>2 DEF TypeOK
<1>8. ASSUME NEW d \in Calls, Saved(d)'
      PROVE  d # c /\ Saved(d) /\ call'[d] = call[d]
  <2>1. d # c
    BY <1>5, <1>8 DEF Saved
  <2>. QED
    BY <1>4, <1>8, <2>1 DEF Saved
<1>9. TableInv'
  <2>1. ASSUME NEW j \in Ids, fate'[j] \in {"scheduled", "unscheduled"}
        PROVE  j \in 1..lastId'
    BY <1>1, <1>2, <1>6, <2>1 DEF TableInv
  <2>2. ASSUME NEW d \in Calls, Saved(d)'
        PROVE  /\ Persistent' /\ call'[d].id \in 1..lastId'
               /\ fate'[call'[d].id] = "none" => rows'[call'[d].id] # NoChat
    <3>1. Saved(d) /\ call'[d] = call[d] /\ call[d].id \in Ids
      BY <1>1, <1>8, <2>2 DEF TypeOK
    <3>2. fate'[call[d].id] = "none" => fate[call[d].id] = "none"
      BY <1>6, <3>1
    <3>. QED
      BY <1>1, <1>2, <3>1, <3>2 DEF TableInv, Persistent
  <2>3. ASSUME NEW d \in Calls, NEW f \in Calls, d # f, Saved(d)', Saved(f)'
        PROVE  call'[d].id # call'[f].id
    BY <1>1, <1>8, <2>3 DEF TableInv
  <2>4. ASSUME NEW j \in Ids
        PROVE  /\ fate'[j] = "scheduled" => rows'[j] # NoChat
               /\ fate'[j] = "unscheduled" => rows'[j] = NoChat
    BY <1>1, <1>2, <1>6 DEF TableInv
  <2>5. \A j \in Ids : rows'[j] # NoChat => j \in 1..lastId'
    BY <1>1, <1>2 DEF TableInv
  <2>. QED
    BY <2>1, <2>2, <2>3, <2>4, <2>5 DEF TableInv
<1>10. ChatInv'
  BY <1>1, <1>2, <1>4, <1>5 DEF ChatInv
<1>11. ASSUME ~overlap'
       PROVE  OrderInv'
  <2>1. OrderInv
    BY <1>1, <1>2, <1>11
  <2>2. \A j \in Ids : fate'[j] = "unscheduled" => fate[j] = "unscheduled"
    BY <1>6
  <2>3. boot = "up"
    BY <1>2, <2>1 DEF OrderInv
  <2>4. ASSUME NEW d \in Calls, call'[d].pc = "saved"
        PROVE  /\ call'[d].durable /\ jobs[call'[d].id] = 0
               /\ fate'[call'[d].id] # "unscheduled"
    <3>1. call'[d] = call[d] /\ call[d].id \in Ids
      BY <1>1, <1>4, <1>5, <2>4 DEF TypeOK
    <3>. QED
      BY <2>1, <2>2, <2>4, <3>1 DEF OrderInv
  <2>5. \A j \in Ids : jobs[j] # 0 => j \in 1..lastId /\ fate'[j] # "unscheduled"
    BY <2>1, <2>2 DEF OrderInv
  <2>6. /\ \A k \in 1..Len(crons) : ~crons[k].stopped => jobs[crons[k].id] = k
        /\ \A l, m \in 1..Len(loops) : loops[l] = loops[m] => l = m
    BY <2>1 DEF OrderInv
  <2>. QED
    BY <1>2, <2>3, <2>4, <2>5, <2>6 DEF OrderInv
<1>. QED
  BY <1>7, <1>9, <1>10, <1>11 DEF IInv

\* Unregister: the cronJob of the map is the only one of its id that goes on,
\* so that nothing of it runs once the reply says so.
LEMMA UnregisterStep ==
  ASSUME IInv, NEW i \in Ids, Unregister(i)
  PROVE  IInv'
<1>. DEFINE k0 == jobs[i]
<1>1. TypeOK /\ TableInv /\ ChatInv /\ (~overlap => OrderInv)
  BY DEF IInv
<1>2. /\ i > 0 /\ jobs[i] # 0
      /\ jobs' = [jobs EXCEPT ![i] = 0]
      /\ crons' = [crons EXCEPT ![jobs[i]].stopped = TRUE]
      /\ \/ /\ rows' = [rows EXCEPT ![i] = NoChat]
            /\ fate' = [fate EXCEPT ![i] = IF rows[i] = NoChat THEN @ ELSE "unscheduled"]
         \/ /\ fate' = [fate EXCEPT ![i] = "warned"]
            /\ UNCHANGED rows
         \/ UNCHANGED <<rows, fate>>
      /\ UNCHANGED <<lastId, allowed, boot, listed, degraded, restarts>>
      /\ UNCHANGED <<next, loops, missed, call, overlap>>
  BY DEF Unregister, DeleteJob, CloseStop, bootVars, loopVars
<1>3. /\ crons \in Seq(CronType) /\ Len(crons) \in Nat
      /\ jobs \in [Ids -> 0..Len(crons)]
      /\ rows \in [Ids -> Chats \cup {NoChat}] /\ fate \in [Ids -> Fates]
  <2>1. crons \in Seq(CronType)
    BY <1>1 DEF TypeOK, CronType
  <2>. QED
    BY <1>1, <2>1 DEF TypeOK
<1>4. k0 \in 1..Len(crons) /\ crons[k0].id = i
  BY <1>1, <1>2, <1>3 DEF TypeOK
<1>5. /\ crons' \in Seq(CronType) /\ Len(crons') = Len(crons)
      /\ \A k \in 1..Len(crons) : k # k0 => crons'[k] = crons[k]
      /\ crons'[k0].stopped /\ crons'[k0].id = crons[k0].id /\ crons'[k0].chat = crons[k0].chat
  <2>1. crons' = [crons EXCEPT ![k0] = [crons[k0] EXCEPT !.stopped = TRUE]]
    BY <1>2
  <2>2. crons[k0] \in CronType
    BY <1>3, <1>4
  <2>. DEFINE e == [crons[k0] EXCEPT !.stopped = TRUE]
  <2>3. e \in CronType /\ e.stopped /\ e.id = crons[k0].id /\ e.chat = crons[k0].chat
    BY <2>2 DEF CronType
  <2>. HIDE DEF e, k0
  <2>4. crons' = [crons EXCEPT ![k0] = e]
    BY <2>1 DEF e
  <2>5. /\ crons' \in Seq(CronType) /\ Len(crons') = Len(crons)
        /\ \A k \in 1..Len(crons) : k # k0 => crons'[k] = crons[k]
        /\ crons'[k0] = e
    BY <1>3, <1>4, <2>3, <2>4
  <2>. QED
    BY <2>3, <2>5
<1>6. /\ jobs'[i] = 0 /\ \A j \in Ids \ {i} : jobs'[j] = jobs[j]
      /\ jobs' \in [Ids -> 0..Len(crons)]
  BY <1>2, <1>3
<1>7. \A j \in Ids \ {i} : rows'[j] = rows[j] /\ fate'[j] = fate[j]
  BY <1>2, <1>3
<1>8. \/ rows'[i] = rows[i] /\ fate'[i] \in {fate[i], "warned"}
      \/ rows'[i] = NoChat /\ rows[i] # NoChat /\ fate'[i] = "unscheduled"
      \/ rows'[i] = NoChat /\ rows[i] = NoChat /\ fate'[i] = fate[i]
  BY <1>2, <1>3
<1>. HIDE DEF k0
<1>9. TypeOK'
  <2>1. ASSUME NEW j \in Ids, jobs'[j] # 0
        PROVE  crons'[jobs'[j]].id = j /\ ~crons'[jobs'[j]].stopped
    <3>1. j # i /\ jobs'[j] = jobs[j]
      BY <1>6, <2>1
    <3>2. jobs[j] \in 1..Len(crons) /\ crons[jobs[j]].id = j /\ ~crons[jobs[j]].stopped
      BY <1>1, <1>3, <2>1, <3>1 DEF TypeOK
    <3>3. jobs[j] # k0
      BY <1>4, <3>1, <3>2
    <3>4. crons'[jobs'[j]] = crons[jobs[j]]
      BY <1>5, <3>1, <3>2, <3>3
    <3>. QED
      BY <3>2, <3>4
  <2>2. rows' \in [Ids -> Chats \cup {NoChat}] /\ fate' \in [Ids -> Fates]
    BY <1>2, <1>3 DEF Fates
  <2>3. crons' \in Seq([id : Ids, chat : Chats, stopped : BOOLEAN])
    BY <1>5 DEF CronType
  <2>4. jobs' \in [Ids -> 0..Len(crons')] /\ loops' \in Seq(1..Len(crons'))
    BY <1>1, <1>2, <1>5, <1>6 DEF TypeOK
  <2>. QED
    BY <1>1, <1>2, <2>1, <2>2, <2>3, <2>4 DEF TypeOK
<1>10. TableInv'
  <2>1. ASSUME NEW j \in Ids
        PROVE  rows'[j] # NoChat => rows[j] # NoChat
    BY <1>7, <1>8
  <2>2. ASSUME NEW j \in Ids, fate'[j] \in {"scheduled", "unscheduled"}
        PROVE  fate[j] \in {"scheduled", "unscheduled"} \/ rows[j] # NoChat
    BY <1>7, <1>8, <2>2
  <2>3. ASSUME NEW j \in Ids, fate'[j] = "none"
        PROVE  fate[j] = "none" /\ (rows[j] # NoChat => rows'[j] # NoChat)
    BY <1>7, <1>8, <2>3
  <2>4. ASSUME NEW j \in Ids
        PROVE  /\ fate'[j] = "scheduled" => rows'[j] # NoChat
               /\ fate'[j] = "unscheduled" => rows'[j] = NoChat
    BY <1>1, <1>7, <1>8 DEF TableInv
  <2>5. ASSUME NEW d \in Calls, Saved(d)'
        PROVE  /\ Persistent' /\ call'[d].id \in 1..lastId'
               /\ fate'[call'[d].id] = "none" => rows'[call'[d].id] # NoChat
    <3>1. Saved(d) /\ call'[d] = call[d] /\ call[d].id \in Ids
      BY <1>1, <1>2, <2>5 DEF TypeOK, Saved
    <3>2. /\ Persistent /\ call[d].id \in 1..lastId
          /\ fate[call[d].id] = "none" => rows[call[d].id] # NoChat
      BY <1>1, <3>1 DEF TableInv
    <3>. QED
      BY <1>2, <2>3, <3>1, <3>2 DEF Persistent
  <2>6. \A d, f \in Calls : d # f /\ Saved(d)' /\ Saved(f)' => call'[d].id # call'[f].id
    BY <1>1, <1>2 DEF TableInv, Saved
  <2>7. /\ \A j \in Ids : rows'[j] # NoChat => j \in 1..lastId'
        /\ \A j \in Ids : fate'[j] \in {"scheduled", "unscheduled"} => j \in 1..lastId'
    BY <1>1, <1>2, <2>1, <2>2 DEF TableInv
  <2>. QED
    BY <2>4, <2>5, <2>6, <2>7 DEF TableInv
<1>11. ChatInv'
  BY <1>1, <1>2, <1>4, <1>5 DEF ChatInv
<1>12. ASSUME ~overlap'
       PROVE  OrderInv'
  <2>1. OrderInv
    BY <1>1, <1>2, <1>12
  <2>2. boot \notin {"pool", "wired", "listed"}
    <3>1. jobs # NoJobs
      BY <1>2 DEF NoJobs
    <3>. QED
      BY <2>1, <3>1 DEF OrderInv
  <2>3. ASSUME NEW k \in 1..Len(crons'), ~crons'[k].stopped
        PROVE  jobs'[crons'[k].id] = k
    <3>1. k \in 1..Len(crons) /\ k # k0 /\ crons'[k] = crons[k]
      BY <1>5, <2>3
    <3>2. jobs[crons[k].id] = k
      BY <2>1, <2>3, <3>1 DEF OrderInv
    <3>3. crons[k].id # i
      BY <3>1, <3>2 DEF k0
    <3>4. crons[k].id \in Ids
      <4>1. crons[k] \in CronType
        BY <1>3, <3>1
      <4>. QED
        BY <4>1 DEF CronType
    <3>. QED
      BY <1>6, <3>1, <3>2, <3>3, <3>4
  <2>4. ASSUME NEW j \in Ids, jobs'[j] # 0
        PROVE  j \in 1..lastId' /\ fate'[j] # "unscheduled"
    <3>1. j # i /\ jobs[j] # 0
      BY <1>6, <2>4
    <3>. QED
      BY <1>2, <1>7, <2>1, <3>1 DEF OrderInv
  <2>5. ASSUME NEW d \in Calls, call'[d].pc \in {"saved", "added"}
        PROVE  boot' = "up"
    BY <1>2, <2>1, <2>5 DEF OrderInv
  <2>6. ASSUME NEW d \in Calls, call'[d].pc = "saved"
        PROVE  /\ call'[d].durable /\ jobs'[call'[d].id] = 0
               /\ fate'[call'[d].id] # "unscheduled"
    <3>1. call'[d] = call[d] /\ call[d].id \in Ids
      BY <1>1, <1>2 DEF TypeOK
    <3>2. call[d].durable /\ jobs[call[d].id] = 0 /\ fate[call[d].id] # "unscheduled"
      BY <2>1, <2>6, <3>1 DEF OrderInv
    <3>3. call[d].id # i
      BY <1>2, <3>2
    <3>. QED
      BY <1>6, <1>7, <3>1, <3>2, <3>3
  <2>7. /\ boot' # "up" => loops' = <<>>
        /\ \A l, m \in 1..Len(loops') : loops'[l] = loops'[m] => l = m
    BY <1>2, <2>1 DEF OrderInv
  <2>. QED
    BY <1>2, <2>2, <2>3, <2>4, <2>5, <2>6, <2>7 DEF OrderInv
<1>. QED
  BY <1>9, <1>10, <1>11, <1>12 DEF IInv

\* A new process starts with nothing in memory; what was told before it stays
\* true of the table.
LEMMA RestartStep ==
  ASSUME IInv, Restart
  PROVE  IInv'
<1>1. TypeOK /\ TableInv
  BY DEF IInv
<1>2. /\ restarts < MaxRestarts /\ restarts' = restarts + 1
      /\ allowed' \in SUBSET Chats
      /\ boot' = "pool" /\ listed' = NoRows
      /\ next' = 0 /\ jobs' = NoJobs /\ crons' = <<>> /\ loops' = <<>>
      /\ call' = [c \in Calls |-> IF call[c].pc = "replied" THEN call[c] ELSE Idle]
      /\ overlap' = FALSE /\ degraded' = FALSE
      /\ UNCHANGED <<rows, lastId, missed, fate>>
  BY DEF Restart, tableVars
<1>3. Len(crons') = 0 /\ Len(loops') = 0
  BY <1>2
<1>4. \A c \in Calls : call'[c].pc \in {"idle", "replied"} /\ ~Saved(c)'
  BY <1>2 DEF Idle, Saved
<1>5. TypeOK'
  <2>. DEFINE CallType == [pc : {"idle", "saved", "added", "replied"}, id : Ids, durable : BOOLEAN]
  <2>1. 0 \in Ids
    BY BoundsAssumption DEF Ids
  <2>2. Idle \in CallType
    BY <2>1 DEF Idle
  <2>3. call \in [Calls -> CallType]
    BY <1>1 DEF TypeOK
  <2>. HIDE DEF CallType
  <2>4. call' \in [Calls -> CallType]
    BY <1>2, <2>2, <2>3
  <2>5. call' \in [Calls -> [pc : {"idle", "saved", "added", "replied"}, id : Ids, durable : BOOLEAN]]
    BY <2>4 DEF CallType
  <2>6. /\ crons' \in Seq([id : Ids, chat : Chats, stopped : BOOLEAN])
        /\ loops' \in Seq(1..Len(crons'))
    BY <1>2
  <2>7. /\ jobs' \in [Ids -> 0..Len(crons')]
        /\ \A i \in Ids : jobs'[i] = 0
    BY <1>2, <1>3 DEF NoJobs
  <2>8. restarts' \in 0..MaxRestarts
    BY <1>1, <1>2, BoundsAssumption DEF TypeOK
  <2>9. /\ listed' \in [Ids -> Chats \cup {NoChat}]
        /\ boot' \in Boots /\ allowed' \subseteq Chats /\ next' \in Nat
        /\ overlap' \in BOOLEAN /\ degraded' \in BOOLEAN
    BY <1>2 DEF NoRows, Boots
  <2>10. /\ rows' \in [Ids -> Chats \cup {NoChat}] /\ lastId' \in Ids
         /\ fate' \in [Ids -> Fates] /\ missed' \in BOOLEAN
    BY <1>1, <1>2 DEF TypeOK
  <2>. QED
    BY <2>5, <2>6, <2>7, <2>8, <2>9, <2>10 DEF TypeOK
<1>6. TableInv'
  BY <1>1, <1>2, <1>4 DEF TableInv
<1>7. ChatInv'
  BY <1>3, <1>4 DEF ChatInv
<1>8. OrderInv'
  <2>1. crons' = <<>> /\ jobs' = NoJobs /\ loops' = <<>> /\ boot' = "pool"
    BY <1>2
  <2>2. \A i \in Ids : jobs'[i] = 0
    BY <1>2 DEF NoJobs
  <2>3. NoJobs' = NoJobs
    BY DEF NoJobs
  <2>. QED
    BY <1>3, <1>4, <2>1, <2>2, <2>3 DEF OrderInv
<1>. QED
  BY <1>5, <1>6, <1>7, <1>8 DEF IInv

\* A round of a loop and a stutter touch nothing the invariant speaks of.
LEMMA RoundStep ==
  ASSUME IInv, LoopRound \/ UNCHANGED vars
  PROVE  IInv'
<1>1. TypeOK /\ TableInv /\ ChatInv /\ (~overlap => OrderInv)
  BY DEF IInv
<1>2. /\ UNCHANGED <<rows, lastId, allowed, boot, listed, degraded, restarts>>
      /\ UNCHANGED <<next, jobs, crons, loops, call, fate, overlap>>
      /\ missed' = missed \/ \E answered \in BOOLEAN : missed' = (missed \/ (answered /\ ~Delivers(CtxAtSend)))
  BY DEF LoopRound, vars, tableVars, bootVars, jobVars, loopVars, userVars
<1>3. missed' \in BOOLEAN
  BY <1>1, <1>2 DEF TypeOK
<1>4. TypeOK'
  BY <1>1, <1>2, <1>3 DEF TypeOK
<1>5. TableInv'
  BY <1>1, <1>2, TableStays DEF Persistent
<1>6. ChatInv'
  BY <1>1, <1>2, ChatStays
<1>7. ASSUME ~overlap'
      PROVE  OrderInv'
  BY <1>1, <1>2, <1>7 DEF OrderInv
<1>. QED
  BY <1>4, <1>5, <1>6, <1>7 DEF IInv

\* A first process has an empty table.
LEMMA InitInvariant == Init => IInv
<1>. SUFFICES ASSUME Init
              PROVE  IInv
  OBVIOUS
<1>1. /\ rows = NoRows /\ lastId = 0
      /\ allowed = Chats /\ boot = "pool" /\ listed = NoRows
      /\ next = 0 /\ jobs = NoJobs /\ crons = <<>> /\ loops = <<>>
      /\ call = [c \in Calls |-> Idle]
      /\ fate = [i \in Ids |-> "none"]
      /\ overlap = FALSE /\ degraded = FALSE /\ missed = FALSE /\ restarts = 0
  BY DEF Init
<1>2. Len(crons) = 0 /\ Len(loops) = 0
  BY <1>1
<1>3. \A c \in Calls : call[c].pc = "idle" /\ ~Saved(c)
  BY <1>1 DEF Idle, Saved
<1>4. TypeOK
  <2>1. 0 \in Ids /\ 0 \in 0..MaxRestarts
    BY BoundsAssumption DEF Ids
  <2>2. Idle \in [pc : {"idle", "saved", "added", "replied"}, id : Ids, durable : BOOLEAN]
    BY <2>1 DEF Idle
  <2>3. call \in [Calls -> [pc : {"idle", "saved", "added", "replied"}, id : Ids, durable : BOOLEAN]]
    BY <1>1, <2>2
  <2>4. /\ crons \in Seq([id : Ids, chat : Chats, stopped : BOOLEAN])
        /\ loops \in Seq(1..Len(crons))
    BY <1>1
  <2>5. jobs \in [Ids -> 0..Len(crons)] /\ \A i \in Ids : jobs[i] = 0
    BY <1>1, <1>2 DEF NoJobs
  <2>6. /\ rows \in [Ids -> Chats \cup {NoChat}] /\ listed \in [Ids -> Chats \cup {NoChat}]
        /\ lastId \in Ids /\ boot \in Boots /\ allowed \subseteq Chats /\ next \in Nat
    BY <1>1, <2>1 DEF NoRows, Boots
  <2>7. fate \in [Ids -> Fates]
    BY <1>1 DEF Fates
  <2>. QED
    BY <1>1, <2>1, <2>3, <2>4, <2>5, <2>6, <2>7 DEF TypeOK
<1>5. TableInv
  BY <1>1, <1>3 DEF TableInv, NoRows
<1>6. ChatInv
  BY <1>2, <1>3 DEF ChatInv
<1>7. OrderInv
  BY <1>1, <1>2, <1>3 DEF OrderInv, NoJobs
<1>. QED
  BY <1>4, <1>5, <1>6, <1>7 DEF IInv

\* Every step keeps the invariant.
LEMMA NextInvariant == IInv /\ [Next]_vars => IInv'
<1>. SUFFICES ASSUME IInv, [Next]_vars
              PROVE  IInv'
  OBVIOUS
<1>1. CASE BootStep
  BY <1>1, WireStep, ListStep, RehydrateStep, LaunchStep DEF BootStep
<1>2. CASE \E c \in Calls : CallStep(c)
  BY <1>2, SaveStep, AddStep, ReplyStep DEF CallStep
<1>3. CASE \E i \in Ids : Unregister(i)
  BY <1>3, UnregisterStep
<1>4. CASE LoopRound \/ UNCHANGED vars
  BY <1>4, RoundStep
<1>5. CASE Restart
  BY <1>5, RestartStep
<1>. QED
  BY <1>1, <1>2, <1>3, <1>4, <1>5 DEF Next

-----------------------------------------------------------------------------
(* The theorems.                                                           *)

\* The inductive invariant holds of every behaviour.
THEOREM Invariant == Spec => []IInv
BY InitInvariant, NextInvariant, PTL DEF Spec

\* Type correctness.  It holds Unregister's close of the job's channel, which
\* would panic the second time (scheduler.go).
THEOREM TypeCorrect == Spec => []TypeOK
<1>1. IInv => TypeOK
  BY DEF IInv
<1>. QED
  BY <1>1, Invariant, PTL

\* A schedule runs in one loop only, whatever restarts, failing store calls
\* and re-registrations came before, unless a Register overlapped the boot.
THEOREM SchedulesRunOnce == Spec => []OneLoopPerSchedule
<1>1. IInv => OneLoopPerSchedule
  <2>. SUFFICES ASSUME IInv, ~overlap,
                       NEW l \in 1..Len(loops), NEW m \in 1..Len(loops),
                       Running(l), Running(m), Cron(l).id = Cron(m).id
                PROVE  l = m
    BY DEF OneLoopPerSchedule
  <2>1. TypeOK /\ OrderInv
    BY DEF IInv
  <2>2. loops[l] \in 1..Len(crons) /\ loops[m] \in 1..Len(crons)
    <3>1. loops \in Seq(1..Len(crons))
      BY <2>1 DEF TypeOK
    <3>. QED
      BY <3>1
  <2>3. jobs[Cron(l).id] = loops[l] /\ jobs[Cron(m).id] = loops[m]
    BY <2>1, <2>2 DEF OrderInv, Running, Cron
  <2>. QED
    BY <2>1, <2>3 DEF OrderInv
<1>. QED
  BY <1>1, Invariant, PTL

\* What users were told of their schedules stays true through restarts: a
\* scheduled one has its row, an unscheduled one has none and, unless a
\* Register overlapped the boot, runs nowhere.
THEOREM RepliesStayHonest == Spec => []RepliesAreHonest
<1>1. IInv => RepliesAreHonest
  <2>. SUFFICES ASSUME IInv, NEW i \in Ids
                PROVE  /\ fate[i] = "scheduled" => rows[i] # NoChat
                       /\ fate[i] = "unscheduled" => rows[i] = NoChat
                       /\ fate[i] = "unscheduled" /\ ~overlap =>
                             \A l \in 1..Len(loops) : Cron(l).id = i => ~Running(l)
    BY DEF RepliesAreHonest
  <2>1. TypeOK /\ TableInv /\ (~overlap => OrderInv)
    BY DEF IInv
  <2>2. ASSUME fate[i] = "unscheduled", ~overlap,
               NEW l \in 1..Len(loops), Cron(l).id = i, Running(l)
        PROVE  FALSE
    <3>1. loops[l] \in 1..Len(crons)
      BY <2>1 DEF TypeOK
    <3>2. jobs[i] = loops[l]
      BY <2>1, <2>2, <3>1 DEF OrderInv, Running, Cron
    <3>3. jobs[i] # 0
      BY <3>1, <3>2
    <3>. QED
      BY <2>1, <2>2, <3>3 DEF OrderInv
  <2>. QED
    BY <2>1, <2>2 DEF TableInv
<1>. QED
  BY <1>1, Invariant, PTL

\* No loop works for a chat outside the allowlist of the running process,
\* whatever the table holds.
THEOREM LoopsAreAllowed == Spec => []OnlyAllowedChats
<1>1. IInv => OnlyAllowedChats
  <2>. SUFFICES ASSUME IInv, NEW l \in 1..Len(loops)
                PROVE  Cron(l).chat \in allowed
    BY DEF OnlyAllowedChats
  <2>1. loops[l] \in 1..Len(crons)
    BY DEF IInv, TypeOK
  <2>. QED
    BY <2>1 DEF IInv, ChatInv, Cron
<1>. QED
  BY <1>1, Invariant, PTL
==============================================================================
