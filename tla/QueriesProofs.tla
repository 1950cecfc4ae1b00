------------------------------ MODULE QueriesProofs ------------------------------
(***************************************************************************)
(* Proofs about Queries: what a query assembles from many responses of an  *)
(* honest TPM is whole and right, whatever other software changes between  *)
(* them.                                                                   *)
(***************************************************************************)
EXTENDS Queries, FiniteSetTheorems, TLAPS

-----------------------------------------------------------------------------
(* Sets of numbers in order.                                               *)

(* Sorted lists the members of a set, each once and in order: the number   *)
(* of members that are not above it is a bijection to 1..Cardinality(S).   *)
LEMMA SortedLists ==
    ASSUME NEW S \in SUBSET Int, IsFiniteSet(S)
    PROVE  /\ Cardinality(S) \in Nat
           /\ Sorted(S) \in [1..Cardinality(S) -> S]
           /\ Ascending(Sorted(S))
           /\ \A x \in S : \E k \in 1..Cardinality(S) : Sorted(S)[k] = x
<1>. DEFINE up(x) == {y \in S : y <= x}
            n == Cardinality(S)
            rank == [x \in S |-> Cardinality(up(x))]
<1>1. n \in Nat  BY FS_CardinalityType
<1>2. ASSUME NEW x \in S
      PROVE  IsFiniteSet(up(x)) /\ Cardinality(up(x)) \in 1..n
  <2>1. up(x) \in SUBSET S /\ x \in up(x)  OBVIOUS
  <2>2. IsFiniteSet(up(x)) /\ Cardinality(up(x)) <= n  BY <2>1, FS_Subset
  <2>3. Cardinality(up(x)) \in Nat  BY <2>2, FS_CardinalityType
  <2>4. Cardinality(up(x)) # 0  BY <2>1, <2>2, FS_EmptySet
  <2>. QED  BY <1>1, <2>2, <2>3, <2>4
<1>3. ASSUME NEW x \in S, NEW y \in S, x < y
      PROVE  Cardinality(up(x)) < Cardinality(up(y))
  <2>0. /\ \A z \in S : z <= x => z <= y
        /\ y <= y /\ ~(y <= x)
    BY <1>3
  <2>1. up(x) \in SUBSET up(y) /\ y \in up(y) /\ y \notin up(x)  BY <2>0
  <2>2. /\ Cardinality(up(x)) <= Cardinality(up(y))
        /\ Cardinality(up(y)) # Cardinality(up(x))
    BY <1>2, <2>1, FS_Subset
  <2>3. Cardinality(up(x)) \in Int /\ Cardinality(up(y)) \in Int  BY <1>1, <1>2
  <2>. QED  BY <2>2, <2>3
<1>4. rank \in [S -> 1..n] /\ \A x, y \in S : x < y => rank[x] < rank[y]  BY <1>2, <1>3
<1>5. \A k \in 1..n : Sorted(S)[k] = CHOOSE x \in S : rank[x] = k
  <2>. SUFFICES ASSUME NEW k \in 1..n PROVE Sorted(S)[k] = CHOOSE x \in S : rank[x] = k
    OBVIOUS
  <2>. QED  BY DEF Sorted
<1>. DEFINE pick(k) == CHOOSE x \in S : Cardinality({y \in S : y <= x}) = k
<1>17. Sorted(S) = [k \in 1..n |-> pick(k)]  BY Zenon DEF Sorted
<1>. HIDE DEF up, n, rank, pick
<1>6. Sorted(S) = [k \in 1..n |-> Sorted(S)[k]]  BY <1>17
<1>7. \A x, y \in S : rank[x] = rank[y] => x = y
  <2>. SUFFICES ASSUME NEW x \in S, NEW y \in S, rank[x] = rank[y], x # y PROVE FALSE  OBVIOUS
  <2>1. x < y \/ y < x  OBVIOUS
  <2>2. rank[x] < rank[y] \/ rank[y] < rank[x]  BY <1>4, <2>1
  <2>3. rank[x] \in Int /\ rank[y] \in Int  BY <1>1, <1>4
  <2>. QED  BY <2>2, <2>3
<1>8. rank \in Injection(S, 1..n)  BY <1>4, <1>7 DEF Injection, IsInjective
<1>9. IsFiniteSet(1..n) /\ Cardinality(1..n) = n
  BY <1>1, FS_Interval
<1>10. rank \in Surjection(S, 1..n)  BY <1>8, <1>9, FS_Injection DEF n
<1>11. \A k \in 1..n : \E x \in S : rank[x] = k  BY <1>10 DEF Surjection
<1>12. \A k \in 1..n : Sorted(S)[k] \in S /\ rank[Sorted(S)[k]] = k  BY <1>5, <1>11
<1>13. Sorted(S) \in [1..n -> S]  BY <1>6, <1>12
<1>14. ASSUME NEW i \in 1..n, NEW j \in 1..n, i < j PROVE Sorted(S)[i] < Sorted(S)[j]
  <2>. DEFINE a == Sorted(S)[i]
              b == Sorted(S)[j]
  <2>1. a \in S /\ b \in S /\ rank[a] = i /\ rank[b] = j  BY <1>12
  <2>. HIDE DEF a, b
  <2>2. ~(b < a) /\ a # b  BY <1>1, <1>4, <1>14, <2>1
  <2>3. a < b  BY <2>1, <2>2
  <2>. QED  BY <2>3 DEF a, b
<1>15. Ascending(Sorted(S))  BY <1>13, <1>14 DEF Ascending
<1>16. \A x \in S : \E k \in 1..n : Sorted(S)[k] = x
  <2>. SUFFICES ASSUME NEW x \in S PROVE Sorted(S)[rank[x]] = x /\ rank[x] \in 1..n  OBVIOUS
  <2>1. rank[x] \in 1..n  BY <1>4
  <2>. QED  BY <1>7, <1>12, <2>1
<1>. QED  BY <1>1, <1>13, <1>15, <1>16 DEF n

(* fetch_handles keeps the handles of the class and their order.           *)
LEMMA InClassFilters ==
    ASSUME NEW s \in Seq(Nat), Ascending(s)
    PROVE  /\ InClass(s) \in Seq(Nat) /\ Ascending(InClass(s))
           /\ ToSet(InClass(s)) = {h \in ToSet(s) : ClassOf(h) = Class}
<1>. DEFINE I == {i \in DOMAIN s : ClassOf(s[i]) = Class}
            m == Sorted(I)
            n == Cardinality(I)
<1>1. Len(s) \in Nat /\ DOMAIN s = 1..Len(s) /\ s \in [1..Len(s) -> Nat]  OBVIOUS
<1>2. IsFiniteSet(1..Len(s))  BY <1>1, FS_Interval
<1>3. I \in SUBSET (1..Len(s))  BY <1>1
<1>4. IsFiniteSet(I) /\ I \in SUBSET Int  BY <1>1, <1>2, <1>3, FS_Subset
<1>5. /\ n \in Nat /\ m \in [1..n -> I] /\ Ascending(m)
      /\ \A x \in I : \E k \in 1..n : m[k] = x
  BY <1>4, SortedLists
<1>6. InClass(s) = [k \in 1..n |-> s[m[k]]]  BY <1>5 DEF InClass
<1>7. \A i \in I : i \in 1..Len(s) /\ ClassOf(s[i]) = Class  BY <1>1
<1>8. \A i \in 1..Len(s) : ClassOf(s[i]) = Class => i \in I  BY <1>1
<1>. HIDE DEF I, m, n
<1>9. InClass(s) \in Seq(Nat) /\ DOMAIN InClass(s) = 1..n  BY <1>1, <1>5, <1>6, <1>7
<1>10. Ascending(InClass(s))
  <2>. SUFFICES ASSUME NEW i \in 1..n, NEW j \in 1..n, i < j PROVE s[m[i]] < s[m[j]]
    BY <1>6, <1>9 DEF Ascending
  <2>1. m[i] < m[j] /\ m[i] \in DOMAIN s /\ m[j] \in DOMAIN s  BY <1>1, <1>5, <1>7 DEF Ascending
  <2>. QED  BY <2>1 DEF Ascending
<1>11. ASSUME NEW h \in ToSet(InClass(s)) PROVE h \in ToSet(s) /\ ClassOf(h) = Class
  <2>1. PICK k \in 1..n : h = s[m[k]]  BY <1>6, <1>9, <1>11 DEF ToSet
  <2>. QED  BY <1>1, <1>5, <1>7, <2>1 DEF ToSet
<1>12. ASSUME NEW h \in ToSet(s), ClassOf(h) = Class PROVE h \in ToSet(InClass(s))
  <2>1. PICK i \in 1..Len(s) : h = s[i]  BY <1>1, <1>12 DEF ToSet
  <2>2. i \in I  BY <1>8, <1>12, <2>1
  <2>3. PICK k \in 1..n : m[k] = i  BY <1>5, <2>2
  <2>. QED  BY <1>6, <1>9, <2>1, <2>3 DEF ToSet
<1>. QED  BY <1>9, <1>10, <1>11, <1>12

(* No handle of a class is below its first.                                *)
LEMMA ClassStarts ==
    ASSUME NEW h \in Nat, ClassOf(h) = Class
    PROVE  Class * Span <= h
<1>1. Span \in Nat \ {0} /\ Class \in Nat  BY QueryAssumption
<1>2. \A s \in Nat \ {0} : \A c \in Nat : h \div s = c => c * s <= h  OBVIOUS
<1>. QED  BY <1>1, <1>2 DEF ClassOf

(* The items of a list, and of two in a row.                               *)
LEMMA Items == \A s : \A i \in DOMAIN s : s[i] \in ToSet(s)
BY DEF ToSet

LEMMA Concatenated ==
    ASSUME NEW r \in Seq(Nat), NEW t \in Seq(Nat)
    PROVE  /\ r \o t \in Seq(Nat) /\ Len(r \o t) = Len(r) + Len(t)
           /\ \A i \in 1..Len(r) : (r \o t)[i] = r[i]
           /\ \A i \in 1..Len(t) : (r \o t)[Len(r) + i] = t[i]
OBVIOUS

(* Two lists in order, one above the other.                                *)
LEMMA Joined ==
    ASSUME NEW r \in Seq(Nat), NEW t \in Seq(Nat), Ascending(r), Ascending(t),
           \A x \in ToSet(r), y \in ToSet(t) : x < y
    PROVE  r \o t \in Seq(Nat) /\ Ascending(r \o t) /\ ToSet(r \o t) = ToSet(r) \cup ToSet(t)
<1>. DEFINE u == r \o t
<1>1. /\ u \in Seq(Nat) /\ Len(u) = Len(r) + Len(t) /\ Len(r) \in Nat /\ Len(t) \in Nat
      /\ DOMAIN r = 1..Len(r) /\ DOMAIN t = 1..Len(t) /\ DOMAIN u = 1..Len(u)
  OBVIOUS
<1>2. \A i \in 1..Len(r) : u[i] = r[i]  OBVIOUS
<1>3. \A i \in 1..Len(t) : u[Len(r) + i] = t[i]  OBVIOUS
<1>. HIDE DEF u
<1>4. \A i \in 1..Len(u) : \/ i \in 1..Len(r) /\ u[i] = r[i]
                           \/ i - Len(r) \in 1..Len(t) /\ u[i] = t[i - Len(r)]
  <2>. SUFFICES ASSUME NEW i \in 1..Len(u), i \notin 1..Len(r)
                PROVE  i - Len(r) \in 1..Len(t) /\ u[i] = t[i - Len(r)]
    BY <1>2
  <2>1. i - Len(r) \in 1..Len(t) /\ Len(r) + (i - Len(r)) = i  BY <1>1
  <2>. QED  BY <1>3, <2>1
<1>5. Ascending(u)
  <2>. SUFFICES ASSUME NEW i \in 1..Len(u), NEW j \in 1..Len(u), i < j PROVE u[i] < u[j]
    BY <1>1 DEF Ascending
  <2>1. CASE i \in 1..Len(r) /\ j \in 1..Len(r)  BY <1>1, <1>2, <2>1 DEF Ascending
  <2>2. CASE i \in 1..Len(r) /\ j \notin 1..Len(r)
    <3>1. i \in DOMAIN r /\ u[i] = r[i] /\ j - Len(r) \in DOMAIN t /\ u[j] = t[j - Len(r)]
      BY <1>1, <1>4, <2>2
    <3>2. u[i] \in ToSet(r) /\ u[j] \in ToSet(t)  BY <3>1, Items
    <3>. QED  BY <3>2
  <2>3. CASE i \notin 1..Len(r)
    <3>1. j \notin 1..Len(r)  BY <1>1, <2>3
    <3>2. /\ i - Len(r) \in 1..Len(t) /\ u[i] = t[i - Len(r)]
          /\ j - Len(r) \in 1..Len(t) /\ u[j] = t[j - Len(r)]
      BY <1>4, <2>3, <3>1
    <3>3. i - Len(r) < j - Len(r)  BY <1>1
    <3>. QED  BY <1>1, <3>2, <3>3 DEF Ascending
  <2>. QED  BY <2>1, <2>2, <2>3
<1>6. ASSUME NEW x \in ToSet(u) PROVE x \in ToSet(r) \cup ToSet(t)
  BY <1>1, <1>4, <1>6 DEF ToSet
<1>7. ASSUME NEW x \in ToSet(r) PROVE x \in ToSet(u)
  <2>1. PICK i \in 1..Len(r) : x = r[i]  BY <1>1, <1>7 DEF ToSet
  <2>2. i \in 1..Len(u)  BY <1>1
  <2>. QED  BY <1>1, <1>2, <2>1, <2>2 DEF ToSet
<1>8. ASSUME NEW x \in ToSet(t) PROVE x \in ToSet(u)
  <2>1. PICK i \in 1..Len(t) : x = t[i]  BY <1>1, <1>8 DEF ToSet
  <2>2. Len(r) + i \in 1..Len(u)  BY <1>1
  <2>. QED  BY <1>1, <1>3, <2>1, <2>2 DEF ToSet
<1>. QED  BY <1>1, <1>5, <1>6, <1>7, <1>8 DEF u

-----------------------------------------------------------------------------
(* The inductive invariant.                                                *)

(* Handles that are there all the time have an object; every object was    *)
(* seen.                                                                   *)
World ==
    /\ call \in Calls
    /\ objects \in [Handles -> Names \cup {None}] /\ stable \subseteq Held
    /\ \A h \in Held : <<h, objects[h]>> \in seen
    /\ masks \in [Banks -> SUBSET Pcr] /\ version \in [Pcr -> Nat]

(* The loop a query is in.                                                 *)
Stage ==
    /\ pc = "start" => results = <<>>
    /\ pc \in {"start", "page"} => store = [s \in Slot |-> None]
    /\ pc = "page" => call # "nv"
    /\ pc = "names" => call = "find"
    /\ pc = "pcrs" => call = "pcrs"
    /\ pc = "nv" => call = "nv"

(* What a list has to contain, and what it may contain.                    *)
Needed ==
    CASE call = "algs" -> Algs
      [] call = "pcrs" -> Banks
      [] OTHER -> {h \in stable : ClassOf(h) = Class}
Allowed ==
    CASE call = "algs" -> Algs
      [] call = "pcrs" -> Banks
      [] OTHER -> {h \in Handles : \E n \in Names : <<h, n>> \in seen}

(* The pages so far are whole up to the property the next one starts from. *)
Paging ==
    pc = "page" =>
        /\ prop \in Nat /\ results \in Seq(Nat) /\ Ascending(results)
        /\ \A h \in ToSet(results) : h < prop /\ h \in Allowed
        /\ \A h \in Needed : h < prop => h \in ToSet(results)

(* A handle that has the name all the time is still to be read.            *)
Finding ==
    pc = "names" =>
        /\ todo \in Seq(Nat)
        /\ \A h \in stable : ClassOf(h) = Class /\ objects[h] = Target => h \in ToSet(todo)

(* What is allocated and not asked for any more has been read.             *)
PcrsReading ==
    pc = "pcrs" =>
        /\ DOMAIN remaining = {b \in Banks : masks[b] # {}}
        /\ \A b \in DOMAIN remaining : remaining[b] \subseteq masks[b]
        /\ \A s \in Slot : IF s[2] \in masks[s[1]] /\ s[2] \notin remaining[s[1]]
                           THEN store[s] \in {<<s, v>> : v \in 0..version[s[2]]}
                           ELSE store[s] = None

(* What has been received is the beginning of the index.                   *)
NvReading ==
    pc = "nv" =>
        /\ limit[1] \in Nat /\ limit[2] \in Nat \ {0}
        /\ results \in Seq(Nat) /\ Len(results) <= limit[1]
        /\ \A i \in 1..Len(results) : results[i] = i - 1

Answers == ListIsWhole /\ FindIsRight /\ AllPcrsRead /\ NvIsWhole

QueryInv ==
    World /\ Stage /\ (honest => Paging /\ Finding /\ PcrsReading /\ NvReading /\ Answers)

LEMMA InitQueries == Init => QueryInv
<1>. SUFFICES ASSUME Init PROVE QueryInv  OBVIOUS
<1>1. objects \in [Handles -> Names \cup {None}]  BY DEF Init
<1>2. masks \in [Banks -> SUBSET Pcr]  BY DEF Init
<1>3. World  BY <1>1, <1>2 DEF Init, World
<1>4. Stage /\ Paging /\ Finding /\ PcrsReading /\ NvReading
  BY DEF Init, Stage, Paging, Finding, PcrsReading, NvReading
<1>5. Answers  BY DEF Init, Answers, ListIsWhole, FindIsRight, AllPcrsRead, NvIsWhole
<1>. QED  BY <1>3, <1>4, <1>5 DEF QueryInv

LEMMA WorldSame == World /\ UNCHANGED <<call, tpm>> => World'
BY DEF World, tpm, Held

(* A query that has failed has nothing to show.                            *)
LEMMA Failed == ASSUME QueryInv, UNCHANGED <<call, tpm>>, pc' = "failed" PROVE QueryInv'
<1>1. World'  BY WorldSame DEF QueryInv
<1>2. Stage' /\ Paging' /\ Finding' /\ PcrsReading' /\ NvReading'
  BY DEF Stage, Paging, Finding, PcrsReading, NvReading
<1>3. Answers'  BY DEF Answers, ListIsWhole, FindIsRight, AllPcrsRead, NvIsWhole
<1>. QED  BY <1>1, <1>2, <1>3 DEF QueryInv

(* A query that returns has to show its answer.                            *)
LEMMA Returns ==
    ASSUME QueryInv, UNCHANGED <<call, tpm>>, pc' = "done", honest => Answers'
    PROVE  QueryInv'
<1>1. World' /\ honest' = honest  BY WorldSame DEF QueryInv, tpm
<1>2. Stage' /\ Paging' /\ Finding' /\ PcrsReading' /\ NvReading'
  BY DEF Stage, Paging, Finding, PcrsReading, NvReading
<1>. QED  BY <1>1, <1>2 DEF QueryInv

(* While a query runs there is no answer.                                  *)
LEMMA NoAnswer == ASSUME pc' # "done" PROVE Answers'
BY DEF Answers, ListIsWhole, FindIsRight, AllPcrsRead, NvIsWhole

-----------------------------------------------------------------------------
(* read_nv_index.                                                          *)

(* The smaller of two numbers.                                             *)
LEMMA MinOfTwo == \A a, b \in Int : Min({a, b}) = IF a <= b THEN a ELSE b
BY DEF Min

LEMMA NvQueries == QueryInv /\ (NvStart \/ NvRead \/ NvDone) => QueryInv'
<1>. SUFFICES ASSUME QueryInv, NvStart \/ NvRead \/ NvDone PROVE QueryInv'  OBVIOUS
<1>1. UNCHANGED <<call, tpm>>  BY DEF NvStart, NvRead, NvDone
<1>2. World' /\ honest' = honest  BY <1>1, WorldSame DEF QueryInv, tpm
<1>3. CASE NvStart
  <2>1. Stage' /\ Paging' /\ Finding' /\ PcrsReading' /\ Answers'
    BY <1>1, <1>3, NoAnswer DEF NvStart, Stage, Paging, Finding, PcrsReading
  <2>2. honest => NvReading'
    <3>1. results = <<>> /\ results' = <<>>  BY <1>3 DEF NvStart, QueryInv, Stage
    <3>2. limit'[1] \in Nat /\ limit'[2] \in Nat  BY <1>3, QueryAssumption DEF NvStart
    <3>. QED  BY <1>3, <3>1, <3>2 DEF NvStart, NvReading
  <2>. QED  BY <1>2, <2>1, <2>2 DEF QueryInv
<1>4. CASE NvDone
  <2>1. pc = "nv" /\ call = "nv" /\ pc' = "done" /\ answer' = results /\ UNCHANGED <<limit, call>>
    BY <1>4 DEF NvDone, Return, QueryInv, Stage
  <2>2. ASSUME honest PROVE Answers'
    <3>1. /\ limit[1] \in Nat /\ results \in Seq(Nat) /\ Len(results) <= limit[1]
          /\ \A i \in 1..Len(results) : results[i] = i - 1
      BY <2>1, <2>2 DEF QueryInv, NvReading
    <3>2. Len(results) = limit[1]  BY <1>4, <3>1 DEF NvDone
    <3>3. results = [i \in 1..limit[1] |-> i - 1]  BY <3>1, <3>2
    <3>4. NvIsWhole'  BY <2>1, <3>3 DEF NvIsWhole
    <3>. QED  BY <2>1, <3>4 DEF Answers, ListIsWhole, FindIsRight, AllPcrsRead
  <2>. QED  BY <1>1, <2>1, <2>2, Returns
<1>5. CASE NvRead
  <2>1. pc = "nv" /\ call = "nv" /\ UNCHANGED limit  BY <1>5 DEF NvRead, QueryInv, Stage
  <2>2. CASE ~honest
    <3>1. pc' \in {"nv", "done"}  BY <1>5, <2>1 DEF NvRead, Return
    <3>2. Stage'  BY <1>1, <2>1, <3>1 DEF Stage
    <3>. QED  BY <1>2, <2>2, <3>2 DEF QueryInv
  <2>3. CASE honest
    <3>1. /\ limit[1] \in Nat /\ limit[2] \in Nat \ {0}
          /\ results \in Seq(Nat) /\ Len(results) <= limit[1] /\ Len(results) < limit[1]
          /\ \A i \in 1..Len(results) : results[i] = i - 1
      BY <1>5, <2>1, <2>3 DEF QueryInv, NvReading, NvRead
    <3>2. ChunkSize \in Nat \ {0} /\ ChunkSize <= limit[1] - Len(results)
      <4>1. limit[2] \in Int /\ limit[1] - Len(results) \in Nat \ {0}  BY <3>1
      <4>2. ChunkSize = IF limit[2] <= limit[1] - Len(results) THEN limit[2]
                        ELSE limit[1] - Len(results)
        BY <4>1, MinOfTwo DEF ChunkSize
      <4>. QED  BY <3>1, <4>1, <4>2
    <3>3. results' = results \o Chunk(ChunkSize) /\ pc' = "nv"
      BY <1>5, <2>1, <2>3, <3>2 DEF NvRead
    <3>. DEFINE n == ChunkSize
                c == Chunk(n)
    <3>. HIDE DEF n
    <3>4. n \in Nat \ {0} /\ n <= limit[1] - Len(results)  BY <3>2 DEF n
    <3>5. c \in Seq(Nat) /\ Len(c) = n /\ \A i \in 1..n : c[i] = Len(results) + i - 1
      BY <3>1, <3>4 DEF Chunk
    <3>. HIDE DEF c
    <3>6. results' = results \o c  BY <3>3 DEF n, c
    <3>7. results' \in Seq(Nat) /\ Len(results') = Len(results) + n
      BY <3>1, <3>5, <3>6, Concatenated, Zenon
    <3>8. \A i \in 1..Len(results) : results'[i] = results[i]
      BY <3>1, <3>5, <3>6, Concatenated, Zenon
    <3>9. \A i \in 1..n : results'[Len(results) + i] = c[i]
      BY <3>1, <3>5, <3>6, Concatenated, Zenon
    <3>10. ASSUME NEW i \in 1..Len(results') PROVE results'[i] = i - 1
      <4>1. CASE i \in 1..Len(results)  BY <3>1, <3>8, <4>1
      <4>2. CASE i \notin 1..Len(results)
        <5>1. i - Len(results) \in 1..n /\ Len(results) + (i - Len(results)) = i
          BY <3>1, <3>4, <3>7, <4>2
        <5>2. results'[i] = Len(results) + (i - Len(results)) - 1  BY <3>5, <3>9, <5>1
        <5>. QED  BY <3>1, <5>2
      <4>. QED  BY <4>1, <4>2
    <3>11. Len(results') <= limit[1]  BY <3>1, <3>4, <3>7
    <3>12. NvReading'  BY <2>1, <3>1, <3>7, <3>10, <3>11 DEF NvReading
    <3>13. Stage' /\ Paging' /\ Finding' /\ PcrsReading' /\ Answers'
      BY <1>1, <2>1, <3>3, NoAnswer DEF Stage, Paging, Finding, PcrsReading
    <3>. QED  BY <1>2, <3>12, <3>13 DEF QueryInv
  <2>. QED  BY <2>2, <2>3
<1>. QED  BY <1>3, <1>4, <1>5

-----------------------------------------------------------------------------
(* get_capability and its callers.                                         *)

(* A page of an honest TPM.                                                *)
LEMMA HonestPage ==
    ASSUME NEW list \in SUBSET Nat, prop \in Nat, NEW page \in HonestPages(list)
    PROVE  /\ page.items \in Seq(Nat) /\ Ascending(page.items)
           /\ \A x \in ToSet(page.items) : x \in list /\ x >= prop
           /\ page.more => \E x \in list : x >= prop /\ x \notin ToSet(page.items)
           /\ ~page.more => \A x \in list : x >= prop => x \in ToSet(page.items)
           /\ \A x \in list : x >= prop /\ x \notin ToSet(page.items) =>
                page.items # <<>> /\ x > Last(page.items)
<1>. DEFINE from == {i \in list : i >= prop}
<1>1. PICK items \in BoundedSeq(from, CAPABILITY_PAGE_SIZE) :
        /\ Ascending(items)
        /\ \A x \in from \ ToSet(items) : items # <<>> /\ x > Last(items)
        /\ page = [items |-> items, more |-> from # ToSet(items)]
  BY DEF HonestPages
<1>2. CAPABILITY_PAGE_SIZE \in Nat  BY QueryAssumption
<1>3. PICK m \in 0..CAPABILITY_PAGE_SIZE : items \in [1..m -> from]
  BY <1>1 DEF BoundedSeq, SeqOf
<1>4. items \in Seq(Nat) /\ \A x \in ToSet(items) : x \in from
  <2>0. m \in Nat  BY <1>2, <1>3
  <2>1. m \in Nat /\ from \subseteq Nat  BY <2>0
  <2>. HIDE DEF from
  <2>2. items \in [1..m -> from] /\ DOMAIN items = 1..m  BY <1>3
  <2>3. items \in [1..m -> Nat]  BY <2>1, <2>2
  <2>4. items \in Seq(Nat)  BY <2>1, <2>3
  <2>5. \A x \in ToSet(items) : \E i \in 1..m : x = items[i]  BY <2>2 DEF ToSet
  <2>. QED  BY <2>2, <2>4, <2>5
<1>5. page.items = items /\ page.more = (from # ToSet(items))  BY <1>1
<1>6. page.more <=> \E x \in from : x \notin ToSet(items)  BY <1>4, <1>5
<1>7. \A x : x \in from <=> x \in list /\ x >= prop  OBVIOUS
<1>. HIDE DEF from
<1>. QED  BY <1>1, <1>4, <1>5, <1>6, <1>7

(* The last item of a list in order.                                       *)
LEMMA LastItem ==
    ASSUME NEW s \in Seq(Nat), s # <<>>, Ascending(s)
    PROVE  Last(s) \in ToSet(s) /\ Last(s) \in Nat /\ \A x \in ToSet(s) : x <= Last(s)
<1>1. Len(s) \in Nat \ {0} /\ DOMAIN s = 1..Len(s) /\ Len(s) \in 1..Len(s)  OBVIOUS
<1>2. Last(s) = s[Len(s)]  BY DEF Last
<1>3. Last(s) \in ToSet(s) /\ Last(s) \in Nat  BY <1>1, <1>2, Items
<1>4. ASSUME NEW x \in ToSet(s) PROVE x <= Last(s)
  <2>1. PICK i \in 1..Len(s) : x = s[i]  BY <1>1, <1>4 DEF ToSet
  <2>2. s[i] \in Nat  OBVIOUS
  <2>3. CASE i = Len(s)  BY <1>2, <2>1, <2>2, <2>3
  <2>4. CASE i # Len(s)
    <3>0. \A n \in Nat : \A j \in 1..n : j # n => j < n  OBVIOUS
    <3>1. i < Len(s) /\ i \in DOMAIN s /\ Len(s) \in DOMAIN s  BY <1>1, <2>1, <2>4, <3>0, Zenon
    <3>2. s[i] < s[Len(s)]  BY <3>1 DEF Ascending
    <3>. QED  BY <1>2, <1>3, <2>1, <2>2, <3>2
  <2>. QED  BY <2>3, <2>4
<1>. QED  BY <1>3, <1>4

(* What an honest TPM lists is between what is needed and what is allowed. *)
LEMMA ListedIs ==
    ASSUME World, call # "nv", NEW list \in Listed
    PROVE  Needed \subseteq list /\ list \subseteq Allowed /\ list \subseteq 0..MaxProp
<1>1. CASE call = "algs"  BY <1>1, QueryAssumption DEF Listed, Needed, Allowed
<1>2. CASE call = "pcrs"  BY <1>2, QueryAssumption DEF Listed, Needed, Allowed
<1>3. CASE call \in {"handles", "find"}
  <2>1. list = Held \/ list = {h \in Held : ClassOf(h) = Class}  BY <1>3 DEF Listed
  <2>2. Needed = {h \in stable : ClassOf(h) = Class}  BY <1>3 DEF Needed
  <2>3. Allowed = {h \in Handles : \E n \in Names : <<h, n>> \in seen}  BY <1>3 DEF Allowed
  <2>4. stable \subseteq Held /\ Held \subseteq Handles /\ Held \subseteq Allowed
    BY <2>3 DEF World, Held
  <2>5. Handles \subseteq 0..MaxProp  BY QueryAssumption
  <2>. QED  BY <2>1, <2>2, <2>4, <2>5
<1>. QED  BY <1>1, <1>2, <1>3 DEF World, Calls

LEMMA StartPagingQueries == QueryInv /\ StartPaging => QueryInv'
<1>. SUFFICES ASSUME QueryInv, StartPaging PROVE QueryInv'  OBVIOUS
<1>1. UNCHANGED <<call, tpm>> /\ pc = "start" /\ pc' = "page" /\ call # "nv"  BY DEF StartPaging
<1>2. World' /\ honest' = honest  BY <1>1, WorldSame DEF QueryInv, tpm
<1>3. results = <<>> /\ results' = <<>> /\ prop' = PropertyStart /\ UNCHANGED store
  BY DEF StartPaging, QueryInv, Stage
<1>4. Stage'  BY <1>1, <1>3 DEF QueryInv, Stage
<1>5. PropertyStart \in Nat
  <2>1. Class \in Nat /\ Span \in Nat  BY QueryAssumption
  <2>2. \A a, b \in Nat : a * b \in Nat  OBVIOUS
  <2>. QED  BY <2>1, <2>2 DEF PropertyStart
<1>6. \A h \in Needed : ~(h < PropertyStart)
  <2>1. CASE call \in {"handles", "find"}
    <3>1. \A h \in Needed : h \in Nat /\ ClassOf(h) = Class
      BY <2>1, QueryAssumption DEF Needed, QueryInv, World, Held
    <3>2. \A h \in Needed : Class * Span <= h  BY <3>1, ClassStarts
    <3>3. Class * Span = PropertyStart  BY <2>1 DEF PropertyStart
    <3>. QED  BY <1>5, <3>1, <3>2, <3>3
  <2>2. CASE call \in {"algs", "pcrs"}
    <3>1. Needed \subseteq Nat  BY <2>2, QueryAssumption DEF Needed
    <3>2. PropertyStart = 0  BY <2>2 DEF PropertyStart
    <3>. QED  BY <3>1, <3>2
  <2>. QED  BY <1>1, <2>1, <2>2 DEF QueryInv, World, Calls
<1>7. Needed' = Needed  BY <1>1 DEF Needed, tpm
<1>8. Paging'
  <2>1. results' \in Seq(Nat) /\ Ascending(results') /\ ToSet(results') = {}
    BY <1>3 DEF Ascending, ToSet
  <2>. QED  BY <1>3, <1>5, <1>6, <1>7, <2>1 DEF Paging
<1>9. Finding' /\ PcrsReading' /\ NvReading' /\ Answers'
  BY <1>1, NoAnswer DEF Finding, PcrsReading, NvReading
<1>. QED  BY <1>2, <1>4, <1>8, <1>9 DEF QueryInv

(* The list that is complete is taken by the caller.                       *)
LEMMA CollectedWhole ==
    ASSUME QueryInv, pc = "page", honest, UNCHANGED <<call, store, tpm>>,
           NEW list \in Seq(Nat), Ascending(list),
           Needed \subseteq ToSet(list), ToSet(list) \subseteq Allowed, Collected(list)
    PROVE  QueryInv'
<1>1. World' /\ honest' = honest  BY WorldSame DEF QueryInv, tpm
<1>2. call \in Calls /\ call # "nv"  BY DEF QueryInv, World, Stage
<1>. USE DEF Return
<1>3. CASE call = "algs"
  <2>1. pc' = "done" /\ answer' = list  BY <1>3 DEF Collected
  <2>2. ToSet(list) = Algs  BY <1>3 DEF Needed, Allowed
  <2>3. Answers'
    BY <1>3, <2>1, <2>2 DEF Answers, ListIsWhole, FindIsRight, AllPcrsRead, NvIsWhole
  <2>. QED  BY <2>1, <2>3, Returns
<1>4. CASE call \in {"handles", "find"}
  <2>1. /\ InClass(list) \in Seq(Nat) /\ Ascending(InClass(list))
        /\ ToSet(InClass(list)) = {h \in ToSet(list) : ClassOf(h) = Class}
    BY InClassFilters
  <2>2. {h \in stable : ClassOf(h) = Class} \subseteq ToSet(InClass(list))
    BY <1>4, <2>1 DEF Needed
  <2>3. ToSet(InClass(list))
          \subseteq {h \in Handles : ClassOf(h) = Class /\ \E n \in Names : <<h, n>> \in seen}
    BY <1>4, <2>1 DEF Allowed
  <2>4. CASE call = "handles"
    <3>1. pc' = "done" /\ answer' = InClass(list)  BY <2>4 DEF Collected
    <3>2. ListIsWhole'  BY <2>1, <2>2, <2>3, <2>4, <3>1 DEF ListIsWhole, tpm
    <3>3. Answers'  BY <2>4, <3>2 DEF Answers, FindIsRight, AllPcrsRead, NvIsWhole
    <3>. QED  BY <3>1, <3>3, Returns
  <2>5. CASE call = "find"
    <3>1. pc' = "names" /\ todo' = InClass(list)  BY <2>5 DEF Collected
    <3>2. Finding'  BY <2>1, <2>2, <3>1 DEF Finding, tpm
    <3>3. Stage' /\ Paging' /\ PcrsReading' /\ NvReading' /\ Answers'
      BY <2>5, <3>1, NoAnswer DEF Stage, Paging, PcrsReading, NvReading
    <3>. QED  BY <1>1, <3>2, <3>3 DEF QueryInv
  <2>. QED  BY <1>4, <2>4, <2>5
<1>5. CASE call = "pcrs"
  <2>1. ToSet(list) = Banks  BY <1>5 DEF Needed, Allowed
  <2>2. Allocated(list) = {b \in Banks : masks[b] # {}}  BY <2>1 DEF Allocated
  <2>3. CASE pc' = "failed"  BY <2>3, Failed
  <2>4. CASE remaining' = [b \in Allocated(list) |-> masks[b]] /\ pc' = "pcrs"
    <3>1. \A s \in Slot : store[s] = None /\ s[1] \in Banks  BY DEF QueryInv, Stage, Slot
    <3>2. PcrsReading'  BY <2>2, <2>4, <3>1 DEF PcrsReading, tpm
    <3>3. Stage' /\ Paging' /\ Finding' /\ NvReading' /\ Answers'
      BY <1>5, <2>4, NoAnswer DEF Stage, Paging, Finding, NvReading
    <3>. QED  BY <1>1, <3>2, <3>3 DEF QueryInv
  <2>. QED  BY <1>5, <2>3, <2>4 DEF Collected, Fail
<1>. QED  BY <1>2, <1>3, <1>4, <1>5 DEF Calls

LEMMA PageQueries == QueryInv /\ get_capability => QueryInv'
<1>. SUFFICES ASSUME QueryInv, get_capability PROVE QueryInv'  OBVIOUS
<1>1. PICK page \in Pages : Page(page)  BY DEF get_capability
<1>2. /\ pc = "page" /\ UNCHANGED <<call, store, tpm>> /\ results' = results \o page.items
      /\ call \in Calls /\ call # "nv"
  BY <1>1 DEF Page, QueryInv, Stage, World
<1>3. World' /\ honest' = honest  BY <1>2, WorldSame DEF QueryInv, tpm
<1>4. CASE ~honest
  <2>1. \/ pc' = "page"
        \/ pc' \in {"done", "failed"}
        \/ pc' = "names" /\ call = "find"
        \/ pc' = "pcrs" /\ call = "pcrs"
    BY <1>1, <1>2 DEF Page, Collected, Return, Fail, Calls
  <2>2. Stage'  BY <1>2, <2>1 DEF QueryInv, Stage
  <2>. QED  BY <1>3, <1>4, <2>2 DEF QueryInv
<1>5. CASE honest
  <2>1. PICK list \in Listed : page \in HonestPages(list)  BY <1>5 DEF Pages
  <2>2. Needed \subseteq list /\ list \subseteq Allowed /\ list \subseteq 0..MaxProp
    BY <1>2, <2>1, ListedIs DEF QueryInv
  <2>3. list \in SUBSET Nat /\ MaxProp \in Nat  BY <2>2, QueryAssumption
  <2>4. /\ prop \in Nat /\ results \in Seq(Nat) /\ Ascending(results)
        /\ \A h \in ToSet(results) : h < prop /\ h \in Allowed
        /\ \A h \in Needed : h < prop => h \in ToSet(results)
    BY <1>2, <1>5 DEF QueryInv, Paging
  <2>. DEFINE items == page.items
              last == Last(items)
  <2>5. /\ items \in Seq(Nat) /\ Ascending(items)
        /\ \A x \in ToSet(items) : x \in list /\ x >= prop
        /\ page.more => \E x \in list : x >= prop /\ x \notin ToSet(items)
        /\ ~page.more => \A x \in list : x >= prop => x \in ToSet(items)
        /\ \A x \in list : x >= prop /\ x \notin ToSet(items) => items # <<>> /\ x > last
    BY <2>1, <2>3, <2>4, HonestPage
  <2>6. items # <<>> => last \in ToSet(items) /\ last \in Nat /\ \A x \in ToSet(items) : x <= last
    BY <2>5, LastItem
  <2>7. page.more => items # <<>> /\ NextProp(last) = last + 1 /\ last + 1 > prop
    <3>. SUFFICES ASSUME page.more
                  PROVE  items # <<>> /\ NextProp(last) = last + 1 /\ last + 1 > prop
      OBVIOUS
    <3>1. PICK x \in list : x >= prop /\ x \notin ToSet(items)  BY <2>5
    <3>2. items # <<>> /\ x > last  BY <2>5, <3>1
    <3>3. last \in Nat /\ last >= prop  BY <2>5, <2>6, <3>2
    <3>4. x \in Nat /\ x <= MaxProp  BY <2>2, <2>3
    <3>5. last + 1 \in Int /\ MaxProp \in Int /\ last + 1 <= MaxProp  BY <2>3, <3>2, <3>3, <3>4
    <3>6. Min({last + 1, MaxProp}) = last + 1  BY <3>5, MinOfTwo
    <3>7. last + 1 > prop  BY <2>4, <3>3
    <3>. QED  BY <3>2, <3>6, <3>7 DEF NextProp
  <2>8. ASSUME NEW x \in ToSet(results), NEW y \in ToSet(items) PROVE x < y
    <3>1. x < prop /\ y >= prop /\ y \in Nat /\ x \in Nat  BY <2>3, <2>4, <2>5, <2>8 DEF ToSet
    <3>. QED  BY <2>4, <3>1
  <2>9. /\ results' \in Seq(Nat) /\ Ascending(results')
        /\ ToSet(results') = ToSet(results) \cup ToSet(items)
    BY <1>2, <2>4, <2>5, <2>8, Joined
  <2>10. ToSet(results') \subseteq Allowed  BY <2>2, <2>4, <2>5, <2>9
  <2>11. CASE page.more
    <3>1. prop' = last + 1 /\ pc' = "page"  BY <1>1, <1>2, <2>7, <2>11 DEF Page
    <3>2. last \in Nat /\ last >= prop  BY <2>5, <2>6, <2>7, <2>11
    <3>3. \A h \in ToSet(results') : h < last + 1
      <4>. SUFFICES ASSUME NEW h \in ToSet(results') PROVE h < last + 1  OBVIOUS
      <4>1. CASE h \in ToSet(results)
        <5>1. h \in Nat /\ h < prop  BY <2>4, <4>1 DEF ToSet
        <5>. QED  BY <2>4, <3>2, <5>1
      <4>2. CASE h \in ToSet(items)
        <5>1. h \in Nat /\ h <= last  BY <2>3, <2>5, <2>6, <2>7, <2>11, <4>2
        <5>. QED  BY <3>2, <5>1
      <4>. QED  BY <2>9, <4>1, <4>2
    <3>4. \A h \in Needed : h < last + 1 => h \in ToSet(results')
      <4>. SUFFICES ASSUME NEW h \in Needed, h < last + 1, h \notin ToSet(results') PROVE FALSE
        OBVIOUS
      <4>1. h \in list /\ h \in Nat  BY <2>2, <2>3
      <4>2. ~(h < prop) /\ h \notin ToSet(items)  BY <2>4, <2>9
      <4>3. h >= prop  BY <2>4, <4>1, <4>2
      <4>4. h > last  BY <2>5, <4>1, <4>2, <4>3
      <4>. QED  BY <3>2, <4>1, <4>4
    <3>5. Needed' = Needed /\ Allowed' = Allowed  BY <1>2 DEF Needed, Allowed, tpm
    <3>6. prop' \in Nat  BY <3>1, <3>2
    <3>7. Paging'  BY <2>9, <2>10, <3>1, <3>3, <3>4, <3>5, <3>6 DEF Paging
    <3>8. Stage' /\ Finding' /\ PcrsReading' /\ NvReading' /\ Answers'
      BY <1>2, <3>1, NoAnswer DEF QueryInv, Stage, Finding, PcrsReading, NvReading
    <3>. QED  BY <1>3, <3>7, <3>8 DEF QueryInv
  <2>12. CASE ~page.more
    <3>1. Collected(results')  BY <1>1, <2>12 DEF Page
    <3>2. Needed \subseteq ToSet(results')
      <4>. SUFFICES ASSUME NEW h \in Needed PROVE h \in ToSet(results')  OBVIOUS
      <4>1. h \in list /\ h \in Nat  BY <2>2, <2>3
      <4>2. h < prop \/ h >= prop  BY <2>4, <4>1
      <4>. QED  BY <2>4, <2>5, <2>9, <2>12, <4>1, <4>2
    <3>. QED  BY <1>2, <1>5, <2>9, <2>10, <3>1, <3>2, CollectedWhole
  <2>. QED  BY <2>11, <2>12
<1>. QED  BY <1>4, <1>5

-----------------------------------------------------------------------------
(* find_persistent.                                                        *)

LEMMA FindQueries == QueryInv /\ (find_persistent \/ FindNothing) => QueryInv'
<1>. SUFFICES ASSUME QueryInv, find_persistent \/ FindNothing PROVE QueryInv'  OBVIOUS
<1>1. pc = "names" /\ call = "find" /\ UNCHANGED <<call, tpm>>
  BY DEF find_persistent, FindRead, FindNothing, QueryInv, Stage
<1>2. World' /\ honest' = honest  BY <1>1, WorldSame DEF QueryInv, tpm
<1>3. ASSUME honest
      PROVE  /\ todo \in Seq(Nat)
             /\ \A h \in stable : ClassOf(h) = Class /\ objects[h] = Target => h \in ToSet(todo)
  BY <1>1, <1>3 DEF QueryInv, Finding
<1>4. CASE FindNothing
  <2>1. todo = <<>> /\ pc' = "done" /\ answer' = <<>>  BY <1>4 DEF FindNothing, Return
  <2>2. honest => Answers'
    <3>. SUFFICES ASSUME honest PROVE Answers'  OBVIOUS
    <3>1. ToSet(todo) = {}  BY <2>1 DEF ToSet
    <3>2. FindIsRight'  BY <1>1, <1>3, <2>1, <3>1 DEF FindIsRight, tpm
    <3>. QED  BY <1>1, <3>2 DEF Answers, ListIsWhole, AllPcrsRead, NvIsWhole
  <2>. QED  BY <1>1, <2>1, <2>2, Returns
<1>5. CASE find_persistent
  <2>1. PICK name \in IF honest THEN {IF Head(todo) \in Handles THEN objects[Head(todo)] ELSE None}
                                ELSE Names \cup {None} : FindRead(name)
    BY <1>5 DEF find_persistent
  <2>2. todo # <<>> /\ Target # None  BY <2>1, QueryAssumption DEF FindRead
  <2>3. CASE name = Target
    <3>1. pc' = "done" /\ answer' = <<Head(todo)>>  BY <2>1, <2>3 DEF FindRead, Return
    <3>2. honest => Answers'
      <4>. SUFFICES ASSUME honest PROVE Answers'  OBVIOUS
      <4>1. Head(todo) \in Handles /\ objects[Head(todo)] = Target  BY <2>1, <2>2, <2>3
      <4>2. <<Head(todo), Target>> \in seen  BY <2>2, <4>1 DEF QueryInv, World, Held
      <4>3. <<Head(todo)>> # <<>> /\ Head(<<Head(todo)>>) = Head(todo)  OBVIOUS
      <4>4. FindIsRight'  BY <1>1, <3>1, <4>2, <4>3 DEF FindIsRight, tpm
      <4>. QED  BY <1>1, <4>4 DEF Answers, ListIsWhole, AllPcrsRead, NvIsWhole
    <3>. QED  BY <1>1, <3>1, <3>2, Returns
  <2>4. CASE name # Target
    <3>1. pc' = "names" /\ todo' = Tail(todo)  BY <1>1, <2>1, <2>4 DEF FindRead
    <3>2. Stage' /\ Paging' /\ PcrsReading' /\ NvReading' /\ Answers'
      BY <1>1, <3>1, NoAnswer DEF Stage, Paging, PcrsReading, NvReading
    <3>3. honest => Finding'
      <4>. SUFFICES ASSUME honest PROVE Finding'  OBVIOUS
      <4>1. todo \in Seq(Nat) /\ Tail(todo) \in Seq(Nat)  BY <1>3, <2>2
      <4>2. ASSUME NEW h \in stable, ClassOf(h) = Class, objects[h] = Target
            PROVE  h \in ToSet(Tail(todo))
        <5>1. h \in ToSet(todo) /\ h \in Handles  BY <1>3, <4>2 DEF QueryInv, World, Held
        <5>2. PICK i \in 1..Len(todo) : h = todo[i]  BY <4>1, <5>1 DEF ToSet
        <5>3. h # Head(todo)  BY <2>1, <2>4, <4>2, <5>1
        <5>4. i # 1  BY <2>2, <4>1, <5>2, <5>3
        <5>5. i - 1 \in DOMAIN Tail(todo) /\ Tail(todo)[i - 1] = todo[i]
          BY <2>2, <4>1, <5>4
        <5>. QED  BY <5>2, <5>5, Items
      <4>. QED  BY <1>1, <3>1, <4>1, <4>2 DEF Finding, tpm
    <3>. QED  BY <1>2, <3>2, <3>3 DEF QueryInv
  <2>. QED  BY <2>3, <2>4
<1>. QED  BY <1>4, <1>5

-----------------------------------------------------------------------------
(* read_all_pcrs.                                                          *)

LEMMA MinMaxOfOne == \A a \in Int : Min({a}) = a /\ Max({a}) = a
BY DEF Min, Max

(* A selection: entries with PCRs.                                         *)
IsSelection(selection, n) ==
    /\ n \in Nat /\ DOMAIN selection = 1..n
    /\ \A i \in 1..n : selection[i].pcrs \subseteq Pcr

LEMMA ReturnedIsFinite ==
    ASSUME NEW selection, NEW n, IsSelection(selection, n)
    PROVE  IsFiniteSet(Returned(selection)) /\ Returned(selection) \subseteq Nat \X Nat
<1>1. n \in Nat /\ DOMAIN selection = 1..n  BY DEF IsSelection
<1>2. IsFiniteSet(1..n) /\ 1..n \subseteq Nat  BY <1>1, FS_Interval
<1>3. IsFiniteSet(Pcr) /\ Pcr \subseteq Nat  BY QueryAssumption
<1>4. IsFiniteSet((1..n) \X Pcr)  BY <1>2, <1>3, FS_Product
<1>5. Returned(selection) \subseteq (1..n) \X Pcr  BY <1>1 DEF Returned
<1>. QED  BY <1>2, <1>3, <1>4, <1>5, FS_Subset

(* Each PCR that is returned has a place of its own among the digests.     *)
LEMMA PositionsDiffer ==
    ASSUME NEW selection, NEW n, IsSelection(selection, n)
    PROVE  /\ Cardinality(Returned(selection)) \in Nat
           /\ \A e \in Returned(selection) :
                Position(selection, e) \in 1..Cardinality(Returned(selection))
           /\ \A e, f \in Returned(selection) :
                Position(selection, e) = Position(selection, f) => e = f
<1>. DEFINE R == Returned(selection)
            before(d, e) == d[1] < e[1] \/ (d[1] = e[1] /\ d[2] <= e[2])
            up(e) == {d \in R : before(d, e)}
<1>1. IsFiniteSet(R) /\ R \subseteq Nat \X Nat  BY ReturnedIsFinite
<1>2. \A e : Position(selection, e) = Cardinality(up(e))  BY DEF Position
<1>3. \A e \in R : e = <<e[1], e[2]>> /\ e[1] \in Nat /\ e[2] \in Nat  BY <1>1
<1>. HIDE DEF R
<1>4. Cardinality(R) \in Nat  BY <1>1, FS_CardinalityType
<1>5. \A e \in R : before(e, e)  BY <1>3
<1>6. \A e, f \in R : e # f => (before(e, f) /\ ~before(f, e)) \/ (before(f, e) /\ ~before(e, f))
  BY <1>3
<1>7. \A d, e, f \in R : before(d, e) /\ before(e, f) => before(d, f)
  BY <1>3
<1>. HIDE DEF before
<1>8. ASSUME NEW e \in R PROVE IsFiniteSet(up(e)) /\ Cardinality(up(e)) \in 1..Cardinality(R)
  <2>1. up(e) \in SUBSET R /\ e \in up(e)  BY <1>5
  <2>2. IsFiniteSet(up(e)) /\ Cardinality(up(e)) <= Cardinality(R)  BY <1>1, <2>1, FS_Subset
  <2>3. Cardinality(up(e)) \in Nat  BY <2>2, FS_CardinalityType
  <2>4. Cardinality(up(e)) # 0  BY <2>1, <2>2, FS_EmptySet
  <2>. QED  BY <1>4, <2>2, <2>3, <2>4
<1>9. ASSUME NEW e \in R, NEW f \in R, before(e, f), ~before(f, e)
      PROVE  Cardinality(up(e)) # Cardinality(up(f))
  <2>1. up(e) \in SUBSET up(f)  BY <1>7, <1>9
  <2>2. f \in up(f) /\ f \notin up(e)  BY <1>5, <1>9
  <2>. QED  BY <1>8, <2>1, <2>2, FS_Subset
<1>10. \A e, f \in R : Cardinality(up(e)) = Cardinality(up(f)) => e = f
  BY <1>6, <1>9
<1>11. \A e \in R : Cardinality(up(e)) \in 1..Cardinality(R)  BY <1>8
<1>. HIDE DEF up
<1>. QED  BY <1>2, <1>4, <1>10, <1>11 DEF R

(* The digest at the place of a PCR is its own.                            *)
LEMMA DigestAtPosition ==
    ASSUME NEW selection, NEW n, IsSelection(selection, n), NEW e \in Returned(selection)
    PROVE  Digests(selection)[Position(selection, e)] = Digest(<<selection[e[1]].hash, e[2]>>)
<1>. DEFINE at(k) == CHOOSE d \in Returned(selection) : Position(selection, d) = k
            digest(k) == Digest(<<selection[at(k)[1]].hash, at(k)[2]>>)
            c == Cardinality(Returned(selection))
<1>1. Digests(selection) = [k \in 1..c |-> digest(k)]  BY Zenon DEF Digests
<1>2. Position(selection, e) \in 1..c  BY PositionsDiffer
<1>3. at(Position(selection, e)) \in Returned(selection)
      /\ Position(selection, at(Position(selection, e))) = Position(selection, e)
  OBVIOUS
<1>4. at(Position(selection, e)) = e
  <2>. HIDE DEF at
  <2>. QED  BY <1>3, PositionsDiffer
<1>5. digest(Position(selection, e)) = Digest(<<selection[e[1]].hash, e[2]>>)  BY <1>4
<1>. HIDE DEF digest, c
<1>. QED  BY <1>1, <1>2, <1>5

(* A selection asks once for each bank that is not done with.              *)
LEMMA SelectionAsks ==
    ASSUME NEW rest, DOMAIN rest \subseteq Banks, \A b \in DOMAIN rest : rest[b] \subseteq Pcr
    PROVE  \E n \in Nat :
             /\ DOMAIN Selection(rest) = 1..n
             /\ \A i \in 1..n : /\ Selection(rest)[i].hash \in DOMAIN rest
                                /\ Selection(rest)[i].pcrs = rest[Selection(rest)[i].hash]
             /\ \A b \in DOMAIN rest : \E i \in 1..n : Selection(rest)[i].hash = b
             /\ \A i, j \in 1..n : Selection(rest)[i].hash = Selection(rest)[j].hash => i = j
<1>. DEFINE D == DOMAIN rest
            algs == Sorted(D)
            n == Cardinality(D)
<1>1. IsFiniteSet(D) /\ D \in SUBSET Int
  <2>1. Banks \subseteq 0..MaxProp /\ MaxProp \in Nat  BY QueryAssumption
  <2>2. IsFiniteSet(0..MaxProp)
    <3>1. 0 \in Int /\ MaxProp \in Int  BY <2>1
    <3>. QED  BY <3>1, FS_Interval
  <2>3. D \in SUBSET (0..MaxProp)  BY <2>1
  <2>. QED  BY <2>1, <2>2, <2>3, FS_Subset
<1>2. /\ n \in Nat /\ algs \in [1..n -> D] /\ Ascending(algs)
      /\ \A x \in D : \E k \in 1..n : algs[k] = x
  BY <1>1, SortedLists
<1>3. Selection(rest) = [i \in DOMAIN algs |-> [hash |-> algs[i], pcrs |-> rest[algs[i]]]]
  BY Zenon DEF Selection
<1>. HIDE DEF algs, n
<1>4. DOMAIN algs = 1..n /\ \A i \in 1..n : algs[i] \in D  BY <1>2
<1>5. \A i, j \in 1..n : algs[i] = algs[j] => i = j
  <2>. SUFFICES ASSUME NEW i \in 1..n, NEW j \in 1..n, algs[i] = algs[j], i # j PROVE FALSE  OBVIOUS
  <2>1. i < j \/ j < i  BY <1>2
  <2>2. algs[i] < algs[j] \/ algs[j] < algs[i]  BY <1>2, <1>4, <2>1 DEF Ascending
  <2>3. algs[i] \in Int /\ algs[j] \in Int  BY <1>1, <1>4
  <2>. QED  BY <2>2, <2>3
<1>6. /\ DOMAIN Selection(rest) = 1..n
      /\ \A i \in 1..n : Selection(rest)[i].hash = algs[i] /\ Selection(rest)[i].pcrs = rest[algs[i]]
  BY <1>3, <1>4
<1>. HIDE DEF D
<1>7. /\ \A i \in 1..n : Selection(rest)[i].hash \in D /\ Selection(rest)[i].pcrs = rest[Selection(rest)[i].hash]
      /\ \A b \in D : \E i \in 1..n : Selection(rest)[i].hash = b
      /\ \A i, j \in 1..n : Selection(rest)[i].hash = Selection(rest)[j].hash => i = j
  BY <1>2, <1>4, <1>5, <1>6
<1>. QED  BY <1>2, <1>6, <1>7 DEF D

(* One response of an honest TPM, whatever part of the PCRs it returns:    *)
(* got[b] is what it returns of a bank that was asked for. Each of these   *)
(* PCRs gets its present value and is no longer asked for, and no other    *)
(* PCR is touched.                                                         *)
LEMMA ResponseStores ==
    ASSUME DOMAIN remaining \subseteq Banks, \A b \in DOMAIN remaining : remaining[b] \subseteq Pcr,
           NEW k, NEW response,
           response.selection = Cut(Selection(remaining), k),
           response.digests = Digests(response.selection)
    PROVE  \E got \in [DOMAIN remaining -> SUBSET Pcr] :
             /\ \A b \in DOMAIN remaining : got[b] \subseteq remaining[b] /\ ReadOf(b, response.selection) = got[b]
             /\ \A s \in Slot :
                  Stored(s, response) = IF s[1] \in DOMAIN remaining /\ s[2] \in got[s[1]]
                                        THEN Digest(s) ELSE store[s]
<1>. DEFINE asked == Selection(remaining)
            sel == response.selection
            D == DOMAIN remaining
<1>1. PICK n \in Nat :
        /\ DOMAIN asked = 1..n
        /\ \A i \in 1..n : asked[i].hash \in D /\ asked[i].pcrs = remaining[asked[i].hash]
        /\ \A b \in D : \E i \in 1..n : asked[i].hash = b
        /\ \A i, j \in 1..n : asked[i].hash = asked[j].hash => i = j
  BY SelectionAsks
<1>2. sel = [i \in DOMAIN asked |->
               [hash |-> asked[i].hash,
                pcrs |-> {p \in asked[i].pcrs : Position(asked, <<i, p>>) <= k}]]
  BY DEF Cut
<1>. HIDE DEF asked, sel
<1>3. DOMAIN sel = 1..n /\ \A i \in 1..n : sel[i].hash = asked[i].hash /\ sel[i].pcrs \subseteq asked[i].pcrs
  BY <1>1, <1>2
<1>4. IsSelection(sel, n)  BY <1>1, <1>3 DEF IsSelection
<1>. DEFINE entry(b) == CHOOSE i \in 1..n : sel[i].hash = b
            got == [b \in D |-> sel[entry(b)].pcrs]
<1>5. \A b \in D : entry(b) \in 1..n /\ sel[entry(b)].hash = b  BY <1>1, <1>3
<1>6. \A b \in D : \A i \in 1..n : sel[i].hash = b <=> i = entry(b)
  <2>. HIDE DEF entry
  <2>. SUFFICES ASSUME NEW b \in D, NEW i \in 1..n, sel[i].hash = b PROVE i = entry(b)
    BY <1>5
  <2>1. asked[i].hash = asked[entry(b)].hash  BY <1>3, <1>5
  <2>. QED  BY <1>1, <1>5, <2>1
<1>7. \A i \in 1..n : sel[i].hash \in D  BY <1>1, <1>3
<1>. HIDE DEF entry
<1>8. \A b \in D : got[b] = sel[entry(b)].pcrs /\ got[b] \subseteq remaining[b]
  <2>. SUFFICES ASSUME NEW b \in D
                PROVE  got[b] = sel[entry(b)].pcrs /\ got[b] \subseteq remaining[b]
    OBVIOUS
  <2>1. got[b] = sel[entry(b)].pcrs  OBVIOUS
  <2>. HIDE DEF got
  <2>2. entry(b) \in 1..n /\ asked[entry(b)].hash = b  BY <1>3, <1>5
  <2>3. sel[entry(b)].pcrs \subseteq asked[entry(b)].pcrs  BY <1>3, <2>2
  <2>4. asked[entry(b)].pcrs = remaining[b]  BY <1>1, <2>2
  <2>. QED  BY <2>1, <2>3, <2>4
<1>9. got \in [D -> SUBSET Pcr]
  <2>1. \A b \in D : got[b] \in SUBSET Pcr  BY <1>8
  <2>. QED  BY <2>1
<1>. HIDE DEF got
<1>10. ASSUME NEW b \in D PROVE ReadOf(b, sel) = got[b]
  <2>1. {i \in DOMAIN sel : sel[i].hash = b} = {entry(b)}  BY <1>3, <1>5, <1>6
  <2>2. Min({entry(b)}) = entry(b)  BY <1>5, MinMaxOfOne
  <2>. QED  BY <1>8, <2>1, <2>2 DEF ReadOf
<1>11. ASSUME NEW s \in Slot
       PROVE  Stored(s, response) = IF s[1] \in D /\ s[2] \in got[s[1]] THEN Digest(s) ELSE store[s]
  <2>. DEFINE entries == {i \in DOMAIN sel : sel[i].hash = s[1] /\ s[2] \in sel[i].pcrs}
  <2>1. Stored(s, response) =
          IF entries = {} THEN store[s] ELSE response.digests[Position(sel, <<Max(entries), s[2]>>)]
    BY Zenon DEF Stored, sel
  <2>2. s = <<s[1], s[2]>> /\ s[1] \in Banks /\ s[2] \in Pcr  BY DEF Slot
  <2>3. CASE s[1] \in D /\ s[2] \in got[s[1]]
    <3>. DEFINE i == entry(s[1])
                e == <<i, s[2]>>
    <3>1. i \in 1..n /\ sel[i].hash = s[1] /\ s[2] \in sel[i].pcrs  BY <1>5, <1>8, <2>3
    <3>2. entries = {i}  BY <1>3, <1>6, <2>3, <3>1
    <3>3. Max({i}) = i  BY <3>1, MinMaxOfOne
    <3>. HIDE DEF entries, i
    <3>4. entries # {} /\ Max(entries) = i  BY <3>2, <3>3
    <3>5. e \in Returned(sel) /\ e[1] = i /\ e[2] = s[2]  BY <1>3, <2>2, <3>1 DEF Returned
    <3>. HIDE DEF e
    <3>6. Digests(sel)[Position(sel, e)] = Digest(<<sel[e[1]].hash, e[2]>>)
      BY <1>4, <3>5, DigestAtPosition
    <3>7. Digests(sel)[Position(sel, e)] = Digest(s)  BY <2>2, <3>1, <3>5, <3>6
    <3>8. response.digests = Digests(sel)  BY DEF sel
    <3>. QED  BY <2>1, <2>3, <3>4, <3>7, <3>8 DEF e
  <2>4. CASE ~(s[1] \in D /\ s[2] \in got[s[1]])
    <3>1. entries = {}
      <4>. SUFFICES ASSUME NEW j \in 1..n, sel[j].hash = s[1], s[2] \in sel[j].pcrs PROVE FALSE
        BY <1>3
      <4>1. s[1] \in D  BY <1>7
      <4>2. j = entry(s[1])  BY <1>6, <4>1
      <4>. QED  BY <1>8, <2>4, <4>1, <4>2
    <3>. QED  BY <2>1, <2>4, <3>1
  <2>. QED  BY <2>3, <2>4
<1>. QED  BY <1>8, <1>9, <1>10, <1>11 DEF sel

LEMMA PcrQueries == QueryInv /\ (read_all_pcrs \/ PcrReadDone) => QueryInv'
<1>. SUFFICES ASSUME QueryInv, read_all_pcrs \/ PcrReadDone PROVE QueryInv'  OBVIOUS
<1>1. pc = "pcrs" /\ call = "pcrs" /\ UNCHANGED <<call, tpm>>
  BY DEF read_all_pcrs, PcrRead, PcrReadDone, QueryInv, Stage
<1>2. World' /\ honest' = honest  BY <1>1, WorldSame DEF QueryInv, tpm
<1>3. ASSUME honest
      PROVE  /\ DOMAIN remaining = {b \in Banks : masks[b] # {}}
             /\ \A b \in DOMAIN remaining : remaining[b] \subseteq masks[b]
             /\ \A s \in Slot : IF s[2] \in masks[s[1]] /\ s[2] \notin remaining[s[1]]
                                THEN store[s] \in {<<s, v>> : v \in 0..version[s[2]]}
                                ELSE store[s] = None
  BY <1>1, <1>3 DEF QueryInv, PcrsReading
<1>4. masks \in [Banks -> SUBSET Pcr] /\ version \in [Pcr -> Nat]  BY DEF QueryInv, World
<1>5. CASE PcrReadDone
  <2>1. pc' = "done" /\ UNCHANGED <<remaining, store>> /\ \A b \in DOMAIN remaining : remaining[b] = {}
    BY <1>5 DEF PcrReadDone, Return, Unread
  <2>2. honest => Answers'
    <3>. SUFFICES ASSUME honest PROVE Answers'  OBVIOUS
    <3>1. \A s \in Slot : s[2] \in masks[s[1]] => s[2] \notin remaining[s[1]]
      BY <1>3, <2>1 DEF Slot
    <3>2. AllPcrsRead'  BY <1>1, <1>3, <2>1, <3>1 DEF AllPcrsRead, tpm
    <3>. QED  BY <1>1, <3>2 DEF Answers, ListIsWhole, FindIsRight, NvIsWhole
  <2>. QED  BY <1>1, <2>1, <2>2, Returns
<1>6. CASE read_all_pcrs
  <2>1. PICK response \in Responses : PcrRead(response)  BY <1>6 DEF read_all_pcrs
  <2>2. CASE pc' = "failed"  BY <1>1, <2>2, Failed
  <2>3. CASE pc' # "failed"
    <3>1. /\ pc' = "pcrs"
          /\ store' = [s \in Slot |-> Stored(s, response)]
          /\ remaining' = [b \in DOMAIN remaining |-> remaining[b] \ ReadOf(b, response.selection)]
      BY <1>1, <2>1, <2>3 DEF PcrRead, Fail
    <3>2. Stage' /\ Paging' /\ Finding' /\ NvReading' /\ Answers'
      BY <1>1, <3>1, NoAnswer DEF Stage, Paging, Finding, NvReading
    <3>3. honest => PcrsReading'
      <4>. SUFFICES ASSUME honest PROVE PcrsReading'  OBVIOUS
      <4>1. /\ DOMAIN remaining \subseteq Banks
            /\ \A b \in DOMAIN remaining : remaining[b] \subseteq masks[b] /\ remaining[b] \subseteq Pcr
        BY <1>3, <1>4
      <4>2. \E k : response = [selection |-> Cut(Selection(remaining), k),
                               digests |-> Digests(Cut(Selection(remaining), k))]
        BY <2>1 DEF Responses
      <4>3. PICK k : /\ response.selection = Cut(Selection(remaining), k)
                     /\ response.digests = Digests(response.selection)
        BY <4>2
      <4>4. PICK got \in [DOMAIN remaining -> SUBSET Pcr] :
              /\ \A b \in DOMAIN remaining :
                   got[b] \subseteq remaining[b] /\ ReadOf(b, response.selection) = got[b]
              /\ \A s \in Slot :
                   Stored(s, response) = IF s[1] \in DOMAIN remaining /\ s[2] \in got[s[1]]
                                         THEN Digest(s) ELSE store[s]
        BY <4>1, <4>3, ResponseStores
      <4>5. /\ DOMAIN remaining' = DOMAIN remaining
            /\ \A b \in DOMAIN remaining : remaining'[b] = remaining[b] \ got[b]
        BY <3>1, <4>4
      <4>6. \A s \in Slot : store'[s] = IF s[1] \in DOMAIN remaining /\ s[2] \in got[s[1]]
                                        THEN Digest(s) ELSE store[s]
        BY <3>1, <4>4
      <4>7. \A s \in Slot : s[1] \in Banks /\ s[2] \in Pcr /\ Digest(s) \in {<<s, v>> : v \in 0..version[s[2]]}
        BY <1>4 DEF Slot, Digest
      <4>8. ASSUME NEW s \in Slot
            PROVE  IF s[2] \in masks[s[1]] /\ s[2] \notin remaining'[s[1]]
                   THEN store'[s] \in {<<s, v>> : v \in 0..version[s[2]]}
                   ELSE store'[s] = None
        <5>. DEFINE values == {<<s, v>> : v \in 0..version[s[2]]}
        <5>1. Digest(s) \in values /\ s[1] \in Banks  BY <4>7
        <5>2. IF s[2] \in masks[s[1]] /\ s[2] \notin remaining[s[1]] THEN store[s] \in values ELSE store[s] = None
          BY <1>3
        <5>. HIDE DEF values
        <5>3. CASE s[1] \in DOMAIN remaining /\ s[2] \in got[s[1]]
          <6>1. s[2] \in masks[s[1]] /\ s[2] \notin remaining'[s[1]] /\ store'[s] = Digest(s)
            BY <4>1, <4>4, <4>5, <4>6, <5>3
          <6>. QED  BY <5>1, <6>1 DEF values
        <5>4. CASE s[1] \in DOMAIN remaining /\ s[2] \notin got[s[1]]
          <6>1. store'[s] = store[s] /\ (s[2] \in remaining'[s[1]] <=> s[2] \in remaining[s[1]])
            BY <4>5, <4>6, <5>4
          <6>. QED  BY <5>2, <6>1 DEF values
        <5>5. CASE s[1] \notin DOMAIN remaining
          <6>1. store'[s] = store[s] /\ s[2] \notin masks[s[1]]  BY <1>3, <4>6, <5>1, <5>5
          <6>. QED  BY <5>2, <6>1 DEF values
        <5>. QED  BY <5>3, <5>4, <5>5
      <4>9. \A b \in DOMAIN remaining' : remaining'[b] \subseteq masks[b]  BY <4>1, <4>5
      <4>10. masks' = masks /\ version' = version  BY <1>1 DEF tpm
      <4>. QED  BY <1>3, <4>5, <4>8, <4>9, <4>10 DEF PcrsReading
    <3>. QED  BY <1>2, <3>2, <3>3 DEF QueryInv
  <2>. QED  BY <2>2, <2>3
<1>. QED  BY <1>5, <1>6

-----------------------------------------------------------------------------
(* Other software, and what follows.                                       *)

LEMMA OthersQueries == QueryInv /\ Others => QueryInv'
<1>. SUFFICES ASSUME QueryInv, Others PROVE QueryInv'  OBVIOUS
<1>1. /\ ~Ended /\ honest
      /\ UNCHANGED <<call, pc, prop, results, todo, remaining, store, limit, answer, beat, honest, masks>>
  BY DEF Others
<1>2. pc' # "done"  BY <1>1 DEF Ended
<1>3. Stage' /\ NvReading' /\ Answers'
  BY <1>1, <1>2, NoAnswer DEF QueryInv, Stage, NvReading
<1>4. Paging /\ Finding /\ PcrsReading /\ World  BY <1>1 DEF QueryInv
<1>5. CASE /\ call \in {"handles", "find"} /\ UNCHANGED version
           /\ \E h \in Handles, name \in Names \cup {None} :
                /\ name # objects[h]
                /\ objects' = [objects EXCEPT ![h] = name]
                /\ stable' = stable \ {h}
                /\ seen' = IF name = None THEN seen ELSE seen \cup {<<h, name>>}
  <2>1. PICK h \in Handles, name \in Names \cup {None} :
          /\ objects' = [objects EXCEPT ![h] = name]
          /\ stable' = stable \ {h}
          /\ seen' = IF name = None THEN seen ELSE seen \cup {<<h, name>>}
    BY <1>5
  <2>2. /\ objects \in [Handles -> Names \cup {None}] /\ stable \subseteq Held
        /\ \A g \in Held : <<g, objects[g]>> \in seen
    BY <1>4 DEF World
  <2>3. /\ objects' \in [Handles -> Names \cup {None}]
        /\ \A g \in Handles : objects'[g] = IF g = h THEN name ELSE objects[g]
    BY <2>1, <2>2
  <2>4. stable' \subseteq Held'  BY <2>1, <2>2, <2>3 DEF Held
  <2>5. ASSUME NEW g \in Held' PROVE <<g, objects'[g]>> \in seen'
    <3>1. g \in Handles /\ objects'[g] # None  BY <2>5 DEF Held
    <3>2. CASE g = h  BY <2>1, <2>3, <3>1, <3>2
    <3>3. CASE g # h
      <4>1. g \in Held /\ objects'[g] = objects[g]  BY <2>3, <3>1, <3>3 DEF Held
      <4>. QED  BY <2>1, <2>2, <4>1
    <3>. QED  BY <3>2, <3>3
  <2>6. World'  BY <1>1, <1>4, <1>5, <2>3, <2>4, <2>5 DEF World
  <2>7. stable' \subseteq stable /\ seen \subseteq seen'  BY <2>1
  <2>8. Needed' \subseteq Needed /\ Allowed \subseteq Allowed'
    BY <1>1, <1>5, <2>7 DEF Needed, Allowed
  <2>9. Paging'  BY <1>1, <1>4, <2>8 DEF Paging
  <2>10. \A g \in stable' : objects'[g] = objects[g]  BY <2>1, <2>2, <2>3 DEF Held
  <2>11. Finding'  BY <1>1, <1>4, <2>7, <2>10 DEF Finding
  <2>12. PcrsReading'  BY <1>1, <1>5, <1>4 DEF PcrsReading
  <2>. QED  BY <1>3, <2>6, <2>9, <2>11, <2>12 DEF QueryInv
<1>6. CASE /\ call = "pcrs" /\ UNCHANGED <<objects, stable, seen>>
           /\ \E p \in Pcr : version' = [version EXCEPT ![p] = @ + 1]
  <2>1. PICK p \in Pcr : version' = [version EXCEPT ![p] = @ + 1]  BY <1>6
  <2>2. version \in [Pcr -> Nat]  BY <1>4 DEF World
  <2>3. version' \in [Pcr -> Nat] /\ \A q \in Pcr : version[q] <= version'[q]  BY <2>1, <2>2
  <2>4. World'  BY <1>1, <1>4, <1>6, <2>3 DEF World, Held
  <2>5. Paging' /\ Finding'
    BY <1>1, <1>4, <1>6 DEF Paging, Finding, Needed, Allowed
  <2>6. PcrsReading'
    <3>. SUFFICES ASSUME pc = "pcrs" PROVE PcrsReading'  BY <1>1 DEF PcrsReading
    <3>1. \A s \in Slot : {<<s, v>> : v \in 0..version[s[2]]} \subseteq {<<s, v>> : v \in 0..version'[s[2]]}
      <4>. SUFFICES ASSUME NEW s \in Slot
                    PROVE  0..version[s[2]] \subseteq 0..version'[s[2]]
        OBVIOUS
      <4>1. s[2] \in Pcr  BY DEF Slot
      <4>. QED  BY <2>2, <2>3, <4>1
    <3>. QED  BY <1>1, <1>4, <3>1 DEF PcrsReading
  <2>. QED  BY <1>3, <2>4, <2>5, <2>6 DEF QueryInv
<1>. QED  BY <1>5, <1>6 DEF Others

LEMMA NextQueries == QueryInv /\ [Next]_vars => QueryInv'
<1>. SUFFICES ASSUME QueryInv, [Next]_vars PROVE QueryInv'  OBVIOUS
<1>1. CASE StartPaging  BY <1>1, StartPagingQueries
<1>2. CASE get_capability  BY <1>2, PageQueries
<1>3. CASE find_persistent \/ FindNothing  BY <1>3, FindQueries
<1>4. CASE read_all_pcrs \/ PcrReadDone  BY <1>4, PcrQueries
<1>5. CASE NvStart \/ NvRead \/ NvDone  BY <1>5, NvQueries
<1>6. CASE TransmitFails  BY <1>6, Failed DEF TransmitFails, Fail
<1>7. CASE Others  BY <1>7, OthersQueries
<1>8. CASE UNCHANGED vars
  <2>1. World' /\ Stage' /\ honest' = honest  BY <1>8, WorldSame DEF QueryInv, Stage, vars, tpm
  <2>2. Paging /\ Finding => Paging' /\ Finding'
    BY <1>8 DEF Paging, Finding, Needed, Allowed, vars, tpm
  <2>3. PcrsReading /\ NvReading => PcrsReading' /\ NvReading'
    BY <1>8 DEF PcrsReading, NvReading, vars, tpm
  <2>4. Answers => Answers'
    BY <1>8 DEF Answers, ListIsWhole, FindIsRight, AllPcrsRead, NvIsWhole, vars, tpm
  <2>. QED  BY <2>1, <2>2, <2>3, <2>4 DEF QueryInv
<1>. QED  BY <1>1, <1>2, <1>3, <1>4, <1>5, <1>6, <1>7, <1>8 DEF Next, Host

THEOREM QueryInvAlways == Spec => []QueryInv
BY InitQueries, NextQueries, PTL DEF Spec

(* get_capability and fetch_handles: a list assembled from pages, while    *)
(* other software changes what is listed, has no item twice and keeps the  *)
(* order; it has every handle that was there all the time, and none that   *)
(* never was.                                                              *)
THEOREM ListsAreWhole == Spec => []ListIsWhole
<1>1. QueryInv => ListIsWhole  BY DEF QueryInv, Answers, ListIsWhole
<1>. QED  BY <1>1, QueryInvAlways, PTL

(* find_persistent returns a handle that had the name, and none only if no *)
(* handle had it all the time.                                             *)
THEOREM FindsAreRight == Spec => []FindIsRight
<1>1. QueryInv => FindIsRight  BY DEF QueryInv, Answers, FindIsRight
<1>. QED  BY <1>1, QueryInvAlways, PTL

(* read_all_pcrs returns every PCR of every allocated bank with a value it *)
(* has had, however many digests fit into a response.                      *)
THEOREM PcrsAreRead == Spec => []AllPcrsRead
<1>1. QueryInv => AllPcrsRead  BY DEF QueryInv, Answers, AllPcrsRead
<1>. QED  BY <1>1, QueryInvAlways, PTL

(* read_nv_index returns the whole index and nothing beyond it, for every  *)
(* size of the index and of the largest read.                              *)
THEOREM NvReadsAreWhole == Spec => []NvIsWhole
<1>1. QueryInv => NvIsWhole  BY DEF QueryInv, Answers, NvIsWhole
<1>. QED  BY <1>1, QueryInvAlways, PTL
=============================================================================
