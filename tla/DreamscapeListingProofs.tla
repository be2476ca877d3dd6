------------------------ MODULE DreamscapeListingProofs ------------------------
(***************************************************************************)
(* Proofs about DreamscapeListing, for any number of meditations and any   *)
(* page size.                                                              *)
(*                                                                         *)
(* A cursor splits the jobs: those that have had a card are at it or       *)
(* before it, those still to be listed after it.  That is what keeps two   *)
(* pages apart, and a removal from changing what the next page holds.      *)
(***************************************************************************)
EXTENDS DreamscapeListing, FiniteSetTheorems, SequenceTheorems, TLAPS

Status == {"RUNNING", "DONE", "DELETED"}
Place == 1..(Jobs + 1)

\* Newest first, and so without repetition.
Descending(s) == \A i, k \in DOMAIN s : i < k => s[i] > s[k]

\* Jobs whose card was there once, and is not now.
Gone == Removing \union removed

(***************************************************************************)
(* The inductive invariant.                                                *)
(***************************************************************************)

ListingTyped ==
    /\ status \in [Job -> Status]
    /\ items \in Seq(Job)
    /\ loaded \in BOOLEAN /\ hasMore \in BOOLEAN /\ overlapped \in BOOLEAN
    /\ cursor \in Place
    /\ page \in [at : {"none", "asked", "served"}, items : Seq(Job), next : Place]
    /\ removal \in [Job -> [at : {"none", "asked", "gone", "refused"}, index : Nat]]
    /\ seen \subseteq Job /\ removed \subseteq Job

\* What was seen has been DONE, and what a removal has done.
Lags ==
    /\ \A j \in Job : removal[j].at = "gone" => status[j] = "DELETED"
    /\ \A j \in seen : status[j] # "RUNNING"
    /\ \A j \in removed : status[j] = "DELETED"

\* Where the paging stands, and the page that was served.
Paging ==
    /\ hasMore <=> loaded /\ cursor # NoCursor
    /\ ~loaded => items = << >> /\ Gone = {} /\ cursor = NoCursor
    /\ loaded /\ ~hasMore => page.at = "none"
    /\ page.at = "served" =>
          /\ Descending(page.items)
          /\ \A i \in DOMAIN page.items :
                page.items[i] < cursor
                /\ (page.next # NoCursor => page.items[i] >= page.next)
          /\ page.next # NoCursor => page.next < cursor

\* Each card once; and all that had one are at the cursor or before it.
Cards ==
    /\ \A i, k \in DOMAIN items : items[i] = items[k] => i = k
    /\ \A j \in Gone : ~Contains(items, j)
    /\ \A j \in Removing : j \notin removed
    /\ hasMore => /\ \A i \in DOMAIN items : items[i] >= cursor
                  /\ \A j \in Gone : j >= cursor

\* What was there to be listed has a card, or is still to come.
Covered ==
    /\ loaded => \A j \in seen :
          status[j] = "DONE" =>
              Contains(items, j) \/ j \in Removing \/ (hasMore /\ j < cursor)
    /\ page.at = "served" => \A j \in seen :
          status[j] = "DONE" /\ j < cursor =>
              Contains(page.items, j) \/ (page.next # NoCursor /\ j < page.next)

\* The cards are in order, and so are they with the one being removed.
Fits(j) ==
    /\ \A k \in DOMAIN items : IF k < removal[j].index THEN items[k] > j
                               ELSE items[k] < j
    /\ removal[j].index <= Len(items) + 1
Ordered ==
    ~overlapped => /\ Descending(items)
                   /\ \A j \in Removing : Fits(j)
                   /\ \A j, k \in Removing : j = k

Indexed == \A j \in Job : /\ removal[j].index <= Jobs
                          /\ removal[j].at # "none" => removal[j].index >= 1

ListingInv ==
    ListingTyped /\ Lags /\ Paging /\ Cards /\ Covered /\ Ordered /\ Indexed

(***************************************************************************)
(* The listing of a set, and sequences of cards.                           *)
(***************************************************************************)

\* The jobs of S that are listed before j.
Above(S, j) == {k \in S : k > j}

\* Each job of S has fewer before it than S has, and a later one has more.
LEMMA Ranks ==
    ASSUME NEW S, S \subseteq Job
    PROVE  /\ IsFiniteSet(S) /\ Cardinality(S) \in Nat
           /\ \A j \in S : /\ Cardinality(Above(S, j)) \in Nat
                           /\ Cardinality(Above(S, j)) < Cardinality(S)
           /\ \A j, k \in S : j > k => Cardinality(Above(S, j)) < Cardinality(Above(S, k))
<1>1. Jobs \in Nat /\ \A x \in S : x \in Nat
  BY ListingAssumption DEF Job
<1>2. IsFiniteSet(Job)
  BY <1>1, FS_Interval DEF Job
<1>3. IsFiniteSet(S) /\ Cardinality(S) \in Nat
  BY <1>2, FS_Subset, FS_CardinalityType
<1>4. ASSUME NEW T, NEW U, U \subseteq S, T \subseteq U, NEW x \in U, x \notin T
      PROVE  Cardinality(T) \in Nat /\ Cardinality(T) < Cardinality(U)
  <2>1. IsFiniteSet(U)
    BY <1>3, <1>4, FS_Subset
  <2>2. IsFiniteSet(T) /\ Cardinality(T) <= Cardinality(U) /\ Cardinality(T) # Cardinality(U)
    BY <1>4, <2>1, FS_Subset
  <2> QED
    BY <2>1, <2>2, FS_CardinalityType
<1>5. ASSUME NEW j \in S
      PROVE  Cardinality(Above(S, j)) \in Nat /\ Cardinality(Above(S, j)) < Cardinality(S)
  <2>1. Above(S, j) \subseteq S /\ j \notin Above(S, j)
    BY <1>1 DEF Above
  <2> QED
    BY <1>4, <2>1
<1>6. ASSUME NEW j \in S, NEW k \in S, j > k
      PROVE  Cardinality(Above(S, j)) < Cardinality(Above(S, k))
  <2>1. \A x \in S : x > j => x > k
    BY <1>1, <1>6
  <2>2. /\ Above(S, k) \subseteq S /\ Above(S, j) \subseteq Above(S, k)
        /\ j \in Above(S, k)
    BY <1>6, <2>1 DEF Above
  <2>3. j \notin Above(S, j)
    BY <1>1 DEF Above
  <2> QED
    BY <1>4, <2>2, <2>3
<1> QED
  BY <1>3, <1>5, <1>6

\* The listing of a set of jobs holds them all, newest first.
LEMMA SortedLists ==
    ASSUME NEW S, S \subseteq Job
    PROVE  /\ Sorted(S) \in Seq(S) /\ Descending(Sorted(S))
           /\ \A j \in S : Contains(Sorted(S), j)
<1> DEFINE n == Cardinality(S)
           rank == [j \in S |-> Cardinality(Above(S, j)) + 1]
           s == Sorted(S)
<1>0. \A x \in S : x \in Nat
  BY ListingAssumption DEF Job
<1>1. /\ IsFiniteSet(S) /\ n \in Nat
      /\ \A j \in S : Cardinality(Above(S, j)) \in Nat /\ Cardinality(Above(S, j)) < n
      /\ \A j, k \in S : j > k => Cardinality(Above(S, j)) < Cardinality(Above(S, k))
  BY Ranks
<1>2. rank \in [S -> 1..n]
  BY <1>1
<1>3. \A j, k \in S : j > k => rank[j] < rank[k]
  BY <1>1
<1>4. \A j, k \in S : rank[j] = rank[k] => j = k
  BY <1>0, <1>1, <1>2, <1>3
<1>5. rank \in Injection(S, 1..n)
  BY <1>2, <1>4 DEF Injection, IsInjective
<1>6. IsFiniteSet(1..n) /\ Cardinality(1..n) = n
  <2> HIDE DEF n
  <2>1. /\ IsFiniteSet(1..n)
        /\ Cardinality(1..n) = IF 1 > n THEN 0 ELSE n - 1 + 1
    BY <1>1, FS_Interval
  <2> QED
    BY <1>1, <2>1
<1>7. rank \in Surjection(S, 1..n)
  BY <1>5, <1>6, FS_Injection
<1>8. \A i \in 1..n : \E j \in S : rank[j] = i
  BY <1>7 DEF Surjection
<1>9. ASSUME NEW i \in 1..n
      PROVE  s[i] \in S /\ rank[s[i]] = i
  <2>1. PICK j \in S : rank[j] = i
    BY <1>8
  <2>2. Cardinality(Above(S, j)) = i - 1
    BY <1>1, <2>1
  <2>3. s[i] = CHOOSE k \in S : Cardinality(Above(S, k)) = i - 1
    BY DEF Sorted, Above
  <2>4. s[i] \in S /\ Cardinality(Above(S, s[i])) = i - 1
    BY <2>2, <2>3
  <2> QED
    BY <1>1, <2>4
<1>10. s \in [1..n -> S]
  BY <1>9 DEF Sorted
<1> HIDE DEF s, rank, n
<1>11. s \in Seq(S) /\ DOMAIN s = 1..n /\ Len(s) = n
  BY <1>1, <1>10
<1>12. Descending(s)
  <2> SUFFICES ASSUME NEW i \in 1..n, NEW k \in 1..n, i < k
               PROVE  s[i] > s[k]
    BY <1>11 DEF Descending
  <2>1. s[i] \in S /\ s[k] \in S /\ rank[s[i]] = i /\ rank[s[k]] = k
    BY <1>9
  <2>2. s[i] \in Nat /\ s[k] \in Nat /\ i \in Int /\ k \in Int
    BY <1>0, <2>1
  <2>3. CASE s[i] < s[k]
    BY <1>3, <2>1, <2>2, <2>3
  <2>4. CASE s[i] = s[k]
    BY <2>1, <2>2, <2>4
  <2> QED
    BY <2>2, <2>3, <2>4
<1>13. ASSUME NEW j \in S
       PROVE  Contains(s, j)
  <2>1. rank[j] \in 1..n /\ s[rank[j]] \in S /\ rank[s[rank[j]]] = rank[j]
    BY <1>2, <1>9
  <2>2. s[rank[j]] = j
    BY <1>4, <2>1
  <2> QED
    BY <1>11, <2>1, <2>2 DEF Contains
<1> QED
  BY <1>11, <1>12, <1>13 DEF s

\* Cards that are there once are no more than the jobs.
LEMMA AtMostJobs ==
    ASSUME items \in Seq(Job),
           \A i, k \in DOMAIN items : items[i] = items[k] => i = k
    PROVE  Len(items) <= Jobs
<1>1. Jobs \in Nat /\ Len(items) \in Nat
  BY ListingAssumption
<1>2. items \in Injection(1..Len(items), Job)
  BY DEF Injection, IsInjective
<1>3. IsFiniteSet(Job) /\ Cardinality(Job) = Jobs
  <2>1. /\ IsFiniteSet(1..Jobs)
        /\ Cardinality(1..Jobs) = IF 1 > Jobs THEN 0 ELSE Jobs - 1 + 1
    BY <1>1, FS_Interval
  <2> QED
    BY <1>1, <2>1 DEF Job
<1> DEFINE n == Len(items)
<1>4. Cardinality(1..n) = n
  <2> HIDE DEF n
  <2>1. n \in Nat
    BY <1>1 DEF n
  <2>2. Cardinality(1..n) = IF 1 > n THEN 0 ELSE n - 1 + 1
    BY <2>1, FS_Interval
  <2> QED
    BY <2>1, <2>2
<1> QED
  BY <1>1, <1>2, <1>3, <1>4, FS_Injection

\* One run of cards after another.
LEMMA Joined ==
    ASSUME NEW s \in Seq(Job), NEW t \in Seq(Job)
    PROVE  /\ s \o t \in Seq(Job) /\ Len(s \o t) = Len(s) + Len(t)
           /\ \A k \in 1..Len(s) : (s \o t)[k] = s[k]
           /\ \A k \in 1..(Len(s) + Len(t)) : k > Len(s) => (s \o t)[k] = t[k - Len(s)]
BY ConcatProperties

\* A part of the cards.
LEMMA Part ==
    ASSUME NEW s \in Seq(Job), NEW i \in Nat, NEW m \in Nat,
           1 <= i, i <= m + 1, m <= Len(s)
    PROVE  /\ SubSeq(s, i, m) \in Seq(Job) /\ Len(SubSeq(s, i, m)) = m - i + 1
           /\ \A k \in 1..(m - i + 1) : SubSeq(s, i, m)[k] = s[i + k - 1]
OBVIOUS

\* The cards without the i-th.
LEMMA CardRemoved ==
    ASSUME NEW s \in Seq(Job), NEW i \in DOMAIN s
    PROVE  /\ RemoveAt(s, i) \in Seq(Job) /\ Len(RemoveAt(s, i)) = Len(s) - 1
           /\ \A k \in 1..(Len(s) - 1) :
                 RemoveAt(s, i)[k] = IF k < i THEN s[k] ELSE s[k + 1]
<1> DEFINE n == Len(s)
           a == SubSeq(s, 1, i - 1)
           b == SubSeq(s, i + 1, n)
<1>1. i \in Nat /\ n \in Nat /\ 1 <= i /\ i <= n
  OBVIOUS
<1>2. /\ a \in Seq(Job) /\ Len(a) = i - 1
      /\ \A k \in 1..(i - 1) : a[k] = s[k]
  BY <1>1, Part
<1>3. /\ b \in Seq(Job) /\ Len(b) = n - i
      /\ \A k \in 1..(n - i) : b[k] = s[i + k]
  BY <1>1, Part
<1>4. RemoveAt(s, i) = a \o b
  BY DEF RemoveAt
<1> HIDE DEF a, b, n
<1>5. /\ a \o b \in Seq(Job) /\ Len(a \o b) = n - 1
      /\ \A k \in 1..(i - 1) : (a \o b)[k] = a[k]
      /\ \A k \in 1..(n - 1) : k > i - 1 => (a \o b)[k] = b[k - (i - 1)]
  <2>1. /\ a \o b \in Seq(Job) /\ Len(a \o b) = Len(a) + Len(b)
        /\ \A k \in 1..Len(a) : (a \o b)[k] = a[k]
        /\ \A k \in 1..(Len(a) + Len(b)) : k > Len(a) => (a \o b)[k] = b[k - Len(a)]
    BY <1>2, <1>3, Joined
  <2>2. Len(a) = i - 1 /\ Len(a) + Len(b) = n - 1
    BY <1>1, <1>2, <1>3
  <2> QED
    BY <2>1, <2>2
<1>6. ASSUME NEW k \in 1..(n - 1)
      PROVE  (a \o b)[k] = IF k < i THEN s[k] ELSE s[k + 1]
  <2>1. CASE k < i
    BY <1>1, <1>2, <1>5, <2>1
  <2>2. CASE ~(k < i)
    <3>1. k - (i - 1) \in 1..(n - i) /\ i + (k - (i - 1)) = k + 1 /\ k > i - 1
      BY <1>1, <2>2
    <3>2. (a \o b)[k] = b[k - (i - 1)]
      BY <1>5, <3>1
    <3>3. b[k - (i - 1)] = s[k + 1]
      BY <1>3, <3>1
    <3> QED
      BY <2>2, <3>2, <3>3
  <2> QED
    BY <2>1, <2>2
<1> QED
  BY <1>4, <1>5, <1>6 DEF n

\* The cards with j before the i-th.
LEMMA CardInserted ==
    ASSUME NEW s \in Seq(Job), NEW i \in DOMAIN s, NEW j \in Job
    PROVE  /\ InsertAt(s, i, j) \in Seq(Job) /\ Len(InsertAt(s, i, j)) = Len(s) + 1
           /\ \A k \in 1..(Len(s) + 1) :
                 InsertAt(s, i, j)[k] = IF k < i THEN s[k] ELSE IF k = i THEN j
                                        ELSE s[k - 1]
<1> DEFINE n == Len(s)
           a == SubSeq(s, 1, i - 1)
           head == a \o <<j>>
           b == SubSeq(s, i, n)
           t == head \o b
<1>1. i \in Nat /\ n \in Nat /\ 1 <= i /\ i <= n
  OBVIOUS
<1>2. /\ a \in Seq(Job) /\ Len(a) = i - 1
      /\ \A k \in 1..(i - 1) : a[k] = s[k]
  BY <1>1, Part
<1>3. /\ b \in Seq(Job) /\ Len(b) = n - i + 1
      /\ \A k \in 1..(n - i + 1) : b[k] = s[i + k - 1]
  BY <1>1, Part
<1>4. <<j>> \in Seq(Job) /\ Len(<<j>>) = 1 /\ <<j>>[1] = j
  OBVIOUS
<1>5. InsertAt(s, i, j) = t
  BY DEF InsertAt
<1> HIDE DEF a, n
<1>6. /\ head \in Seq(Job) /\ Len(head) = i
      /\ \A k \in 1..(i - 1) : head[k] = s[k]
      /\ head[i] = j
  <2>1. /\ head \in Seq(Job) /\ Len(head) = i
        /\ \A k \in 1..(i - 1) : head[k] = a[k]
        /\ \A k \in 1..i : k > i - 1 => head[k] = <<j>>[k - (i - 1)]
    BY <1>1, <1>2, <1>4, Joined
  <2>2. i \in 1..i /\ i > i - 1 /\ i - (i - 1) = 1
    BY <1>1
  <2> QED
    BY <1>2, <1>4, <2>1, <2>2
<1> HIDE DEF head, b
<1>7. /\ t \in Seq(Job) /\ Len(t) = n + 1
      /\ \A k \in 1..i : t[k] = head[k]
      /\ \A k \in 1..(n + 1) : k > i => t[k] = b[k - i]
  <2>1. /\ t \in Seq(Job) /\ Len(t) = Len(head) + Len(b)
        /\ \A k \in 1..Len(head) : t[k] = head[k]
        /\ \A k \in 1..(Len(head) + Len(b)) : k > Len(head) => t[k] = b[k - Len(head)]
    BY <1>3, <1>6, Joined
  <2>2. Len(head) + Len(b) = n + 1
    BY <1>1, <1>3, <1>6
  <2> HIDE DEF t
  <2> QED
    BY <1>6, <2>1, <2>2
<1> HIDE DEF t
<1>8. ASSUME NEW k \in 1..(n + 1)
      PROVE  t[k] = IF k < i THEN s[k] ELSE IF k = i THEN j ELSE s[k - 1]
  <2>1. CASE k < i
    BY <1>1, <1>6, <1>7, <2>1
  <2>2. CASE k = i
    BY <1>1, <1>6, <1>7, <2>2
  <2>3. CASE k > i
    <3>1. k - i \in 1..(n - i + 1) /\ i + (k - i) - 1 = k - 1
      BY <1>1, <2>3
    <3>2. t[k] = b[k - i]
      BY <1>7, <2>3
    <3>3. b[k - i] = s[k - 1]
      BY <1>3, <3>1
    <3> QED
      BY <1>1, <2>3, <3>2, <3>3
  <2> QED
    BY <1>1, <2>1, <2>2, <2>3
<1> QED
  BY <1>5, <1>7, <1>8 DEF n

\* Where a refused card comes back, whatever has landed meanwhile.
BackAt(j) ==
    IF removal[j].index > Len(items) THEN Len(items) + 1 ELSE removal[j].index

\* It comes back there, and moves those after it.
LEMMA CardBack ==
    ASSUME items \in Seq(Job), NEW j \in Job,
           removal[j].index \in Nat, removal[j].index >= 1
    PROVE  /\ PutBack(j) \in Seq(Job) /\ Len(PutBack(j)) = Len(items) + 1
           /\ BackAt(j) \in 1..(Len(items) + 1)
           /\ \A k \in 1..(Len(items) + 1) :
                 PutBack(j)[k] = IF k < BackAt(j) THEN items[k]
                                 ELSE IF k = BackAt(j) THEN j ELSE items[k - 1]
<1> DEFINE i == removal[j].index
<1>0. i \in Nat /\ i >= 1 /\ Len(items) \in Nat
  OBVIOUS
<1>1. CASE i > Len(items)
  <2>1. PutBack(j) = Append(items, j)
    BY <1>1 DEF PutBack
  <2>2. /\ Append(items, j) \in Seq(Job) /\ Len(Append(items, j)) = Len(items) + 1
        /\ \A k \in 1..Len(items) : Append(items, j)[k] = items[k]
        /\ Append(items, j)[Len(items) + 1] = j
    OBVIOUS
  <2>3. ASSUME NEW k \in 1..(Len(items) + 1)
        PROVE  PutBack(j)[k] = IF k < Len(items) + 1 THEN items[k]
                               ELSE IF k = Len(items) + 1 THEN j ELSE items[k - 1]
    BY <1>0, <2>1, <2>2
  <2>4. BackAt(j) = Len(items) + 1
    BY <1>1 DEF BackAt
  <2> QED
    BY <1>0, <2>1, <2>2, <2>3, <2>4
<1>2. CASE ~(i > Len(items))
  <2>1. PutBack(j) = InsertAt(items, i, j)
    BY <1>2 DEF PutBack
  <2>2. i \in DOMAIN items
    BY <1>0, <1>2
  <2>3. BackAt(j) = i
    BY <1>2 DEF BackAt
  <2>4. i \in 1..(Len(items) + 1)
    BY <1>0, <1>2
  <2> HIDE DEF i
  <2> QED
    BY <2>1, <2>2, <2>3, <2>4, CardInserted
<1> QED
  BY <1>1, <1>2

(***************************************************************************)
(* The invariant, operation by operation.                                  *)
(***************************************************************************)

\* It holds of an empty page.
LEMMA ListingInvInit == ListingInit => ListingInv
<1> SUFFICES ASSUME ListingInit PROVE ListingInv
  OBVIOUS
<1>1. Jobs \in Nat /\ NoCursor \in Place
  BY ListingAssumption DEF NoCursor, Place
<1>2. NoPage \in [at : {"none", "asked", "served"}, items : Seq(Job), next : Place]
  BY <1>1 DEF NoPage
<1>3. /\ removal = [j \in Job |-> NoRemoval]
      /\ NoRemoval.at = "none" /\ NoRemoval.index = 0
      /\ NoRemoval \in [at : {"none", "asked", "gone", "refused"}, index : Nat]
  BY DEF ListingInit, NoRemoval
<1>4. /\ items = << >> /\ DOMAIN items = {} /\ Len(items) = 0
      /\ seen = {} /\ removed = {} /\ ~overlapped /\ ~loaded /\ ~hasMore
      /\ cursor = NoCursor /\ page = NoPage /\ page.at = "none"
      /\ overlapped = FALSE /\ loaded = FALSE /\ hasMore = FALSE
  BY DEF ListingInit, NoPage
<1>5. Gone = {} /\ Removing = {}
  BY <1>3, <1>4 DEF Gone, Removing
<1>6. ListingTyped
  <2>1. status \in [Job -> Status]
    BY DEF ListingInit, Status
  <2>2. removal \in [Job -> [at : {"none", "asked", "gone", "refused"}, index : Nat]]
    BY <1>3
  <2>3. items \in Seq(Job) /\ cursor \in Place /\ seen \subseteq Job /\ removed \subseteq Job
    BY <1>1, <1>4
  <2>4. page \in [at : {"none", "asked", "served"}, items : Seq(Job), next : Place]
    BY <1>2, <1>4
  <2>5. loaded \in BOOLEAN /\ hasMore \in BOOLEAN /\ overlapped \in BOOLEAN
    BY <1>4
  <2> QED
    BY <2>1, <2>2, <2>3, <2>4, <2>5 DEF ListingTyped
<1>7. Lags
  <2>1. \A j \in Job : removal[j].at # "gone"
    BY <1>3
  <2> QED
    BY <1>4, <2>1 DEF Lags
<1>8. Paging /\ Cards /\ Covered
  BY <1>4, <1>5 DEF Paging, Cards, Covered
<1>9. Ordered
  BY <1>4, <1>5 DEF Ordered, Descending
<1>10. Indexed
  BY <1>1, <1>3 DEF Indexed
<1> QED
  BY <1>6, <1>7, <1>8, <1>9, <1>10 DEF ListingInv

\* The cards and the paging, where they are left alone.
LEMMA CardsRest ==
    ASSUME Cards, Ordered, Indexed,
           UNCHANGED <<items, cursor, hasMore, removal, removed, overlapped>>
    PROVE  Cards' /\ Ordered' /\ Indexed'
<1>1. Gone' = Gone /\ Removing' = Removing
  BY DEF Gone, Removing
<1>2. Cards'
  BY <1>1 DEF Cards, Contains
<1>3. Ordered'
  <2>1. \A j : Fits(j)' <=> Fits(j)
    BY DEF Fits
  <2>2. Descending(items)' <=> Descending(items)
    BY DEF Descending
  <2> QED
    BY <1>1, <2>1, <2>2 DEF Ordered
<1> QED
  BY <1>2, <1>3 DEF Indexed

\* The pipeline completes a job, which no listing has had.
LEMMA FinishStep ==
    ASSUME ListingInv, NEW j \in Job, Finish(j)
    PROVE  ListingInv'
<1>0. /\ ListingTyped /\ Lags /\ Paging /\ Cards /\ Covered /\ Ordered /\ Indexed
      /\ UNCHANGED <<items, loaded, cursor, hasMore, page, removal, seen,
                     removed, overlapped>>
      /\ status[j] = "RUNNING" /\ status' = [status EXCEPT ![j] = "DONE"]
  BY DEF ListingInv, Finish, hook, history
<1>1. /\ status' \in [Job -> Status] /\ status'[j] = "DONE"
      /\ \A k \in Job : k # j => status'[k] = status[k]
  BY <1>0 DEF ListingTyped, Status
<1>2. j \notin seen /\ j \notin removed /\ seen \subseteq Job /\ removed \subseteq Job
  BY <1>0 DEF Lags, ListingTyped
<1>3. ListingTyped'
  BY <1>0, <1>1 DEF ListingTyped
<1>4. Lags'
  BY <1>0, <1>1, <1>2 DEF Lags
<1>5. Gone' = Gone /\ Removing' = Removing
  BY <1>0 DEF Gone, Removing
<1>6. Paging'
  BY <1>0, <1>5 DEF Paging, Descending
<1>7. Covered'
  <2>1. \A k \in seen : status'[k] = status[k]
    BY <1>1, <1>2
  <2> QED
    BY <1>0, <1>5, <2>1 DEF Covered, Contains
<1> QED
  BY <1>0, <1>3, <1>4, <1>6, <1>7, CardsRest DEF ListingInv

\* What GET /dreamscapes answers with: the first of the jobs after the
\* cursor, and a cursor at the last of them if there are more.
LEMMA PageServed ==
    ASSUME ListingTyped, NEW done \in Views,
           NEW jobs, jobs = Sorted(AfterCursor(done, cursor)),
           page' = IF Len(jobs) <= PageSize
                   THEN [at |-> "served", items |-> jobs, next |-> NoCursor]
                   ELSE [at |-> "served", items |-> SubSeq(jobs, 1, PageSize),
                         next |-> SubSeq(jobs, 1, PageSize)[PageSize]]
    PROVE  /\ page' \in [at : {"none", "asked", "served"}, items : Seq(Job), next : Place]
           /\ page'.at = "served" /\ Descending(page'.items)
           /\ \A i \in DOMAIN page'.items :
                 page'.items[i] < cursor
                 /\ (page'.next # NoCursor => page'.items[i] >= page'.next)
           /\ page'.next # NoCursor => page'.next < cursor
           /\ \A j \in AfterCursor(done, cursor) :
                 Contains(page'.items, j) \/ (page'.next # NoCursor /\ j < page'.next)
<1> DEFINE S == AfterCursor(done, cursor)
           first == SubSeq(jobs, 1, PageSize)
<1>1. /\ Jobs \in Nat /\ PageSize \in Nat /\ PageSize >= 1 /\ NoCursor \in Place
      /\ cursor \in Nat
  BY ListingAssumption DEF NoCursor, Place, ListingTyped
<1>2. S \subseteq Job /\ \A j \in S : j < cursor
  BY DEF AfterCursor, Views
<1>3. page' = IF Len(jobs) <= PageSize
              THEN [at |-> "served", items |-> jobs, next |-> NoCursor]
              ELSE [at |-> "served", items |-> first, next |-> first[PageSize]]
  OBVIOUS
<1>s. jobs = Sorted(S)
  OBVIOUS
<1> HIDE DEF S
<1>4. jobs \in Seq(S) /\ Descending(jobs) /\ \A j \in S : Contains(jobs, j)
  BY <1>2, <1>s, SortedLists
<1>5. /\ jobs \in Seq(Job) /\ Len(jobs) \in Nat /\ DOMAIN jobs = 1..Len(jobs)
      /\ \A i \in 1..Len(jobs) : jobs[i] \in S /\ jobs[i] \in Job
      /\ \A i, k \in 1..Len(jobs) : i < k => jobs[i] > jobs[k]
  BY <1>2, <1>4 DEF Descending
<1>6. CASE Len(jobs) <= PageSize
  <2>1. page'.at = "served" /\ page'.items = jobs /\ page'.next = NoCursor
    BY <1>3, <1>6
  <2>2. page' \in [at : {"none", "asked", "served"}, items : Seq(Job), next : Place]
    BY <1>1, <1>3, <1>5, <1>6
  <2> QED
    BY <1>2, <1>4, <1>5, <2>1, <2>2 DEF S
<1>7. CASE Len(jobs) > PageSize
  <2>1. /\ first \in Seq(Job) /\ Len(first) = PageSize
        /\ \A i \in 1..PageSize : first[i] = jobs[i]
    BY <1>1, <1>5, <1>7
  <2>2. PageSize \in 1..PageSize /\ PageSize \in 1..Len(jobs)
    BY <1>1, <1>5, <1>7
  <2>3. /\ page'.at = "served" /\ page'.items = first
        /\ page'.next = jobs[PageSize] /\ jobs[PageSize] \in Job
    BY <1>3, <1>5, <1>7, <2>1, <2>2
  <2>4. Job \subseteq Place /\ NoCursor \notin Job /\ \A j \in Job : j \in Nat
    BY <1>1 DEF Job, Place, NoCursor
  <2> HIDE DEF first
  <2>5. page' \in [at : {"none", "asked", "served"}, items : Seq(Job), next : Place]
    BY <1>3, <1>7, <2>1, <2>2, <2>3, <2>4
  <2>6. Descending(first)
    BY <1>1, <1>5, <1>7, <2>1 DEF Descending
  <2>7. ASSUME NEW i \in DOMAIN first
        PROVE  first[i] < cursor /\ first[i] >= jobs[PageSize]
    <3>1. i \in 1..PageSize /\ i \in 1..Len(jobs) /\ first[i] = jobs[i]
      BY <1>1, <1>5, <1>7, <2>1
    <3>2. jobs[i] < cursor /\ jobs[i] \in Nat /\ jobs[PageSize] \in Nat
      BY <1>2, <1>5, <2>2, <2>4, <3>1
    <3>3. CASE i = PageSize
      BY <3>1, <3>2, <3>3
    <3>4. CASE i < PageSize
      <4>1. jobs[i] > jobs[PageSize]
        BY <1>5, <2>2, <3>1, <3>4
      <4> QED
        BY <3>1, <3>2, <4>1
    <3> QED
      BY <1>1, <3>1, <3>3, <3>4
  <2>8. ASSUME NEW j \in S
        PROVE  Contains(first, j) \/ j < jobs[PageSize]
    <3>1. PICK i \in 1..Len(jobs) : jobs[i] = j
      BY <1>4 DEF Contains
    <3>2. CASE i <= PageSize
      <4>1. i \in 1..Len(first) /\ first[i] = j
        BY <1>1, <2>1, <3>1, <3>2
      <4> QED
        BY <4>1 DEF Contains
    <3>3. CASE i > PageSize
      <4>1. jobs[PageSize] > jobs[i]
        BY <1>5, <2>2, <3>3
      <4> QED
        BY <1>5, <2>2, <2>4, <3>1, <4>1
    <3> QED
      BY <1>1, <3>1, <3>2, <3>3
  <2>9. jobs[PageSize] < cursor
    BY <1>2, <1>5, <2>2
  <2> QED
    BY <2>3, <2>4, <2>5, <2>6, <2>7, <2>8, <2>9 DEF S
<1>8. Len(jobs) <= PageSize \/ Len(jobs) > PageSize
  BY <1>1, <1>5
<1> QED
  BY <1>6, <1>7, <1>8

\* Serving a page; the first one settles what there was to list.
LEMMA ServeStep ==
    ASSUME ListingInv, Serve
    PROVE  ListingInv'
<1>0. /\ ListingTyped /\ Lags /\ Paging /\ Cards /\ Covered /\ Ordered /\ Indexed
      /\ UNCHANGED <<status, items, loaded, cursor, hasMore, removal, removed,
                     overlapped>>
      /\ page.at = "asked"
  BY DEF ListingInv, Serve, hook
<1>d. PICK done \in Views :
         \E jobs \in {Sorted(AfterCursor(done, cursor))} :
            /\ page' = IF Len(jobs) <= PageSize
                       THEN [at |-> "served", items |-> jobs, next |-> NoCursor]
                       ELSE [at |-> "served", items |-> SubSeq(jobs, 1, PageSize),
                             next |-> SubSeq(jobs, 1, PageSize)[PageSize]]
            /\ seen' = IF cursor = NoCursor THEN done
                       ELSE {j \in seen : j < cursor => j \in done}
  BY DEF Serve
<1>1. /\ page' \in [at : {"none", "asked", "served"}, items : Seq(Job), next : Place]
      /\ page'.at = "served" /\ Descending(page'.items)
      /\ \A i \in DOMAIN page'.items :
            page'.items[i] < cursor
            /\ (page'.next # NoCursor => page'.items[i] >= page'.next)
      /\ page'.next # NoCursor => page'.next < cursor
      /\ \A j \in AfterCursor(done, cursor) :
            Contains(page'.items, j) \/ (page'.next # NoCursor /\ j < page'.next)
  BY <1>0, <1>d, PageServed
<1>2. done \subseteq Job /\ \A j \in done : status[j] # "RUNNING"
  BY DEF Views
<1>a. /\ cursor = NoCursor => seen' = done
      /\ cursor # NoCursor => seen' = {j \in seen : j < cursor => j \in done}
  BY <1>d
<1>3. ListingTyped'
  <2>1. seen' \subseteq Job
    BY <1>0, <1>2, <1>a DEF ListingTyped
  <2> QED
    BY <1>0, <1>1, <2>1 DEF ListingTyped
<1>4. \A j \in seen' : status[j] # "RUNNING"
  BY <1>0, <1>2, <1>a DEF Lags
<1>5. Lags'
  BY <1>0, <1>4 DEF Lags
<1>6. Gone' = Gone /\ Removing' = Removing
  BY <1>0 DEF Gone, Removing
<1>7. loaded => hasMore /\ cursor # NoCursor
  BY <1>0 DEF Paging
<1>8. Paging'
  <2>1. /\ hasMore <=> loaded /\ cursor # NoCursor
        /\ ~loaded => items = << >> /\ Gone = {} /\ cursor = NoCursor
    BY <1>0 DEF Paging
  <2>2. Descending(page.items)'
    BY <1>1
  <2> QED
    BY <1>0, <1>1, <1>6, <1>7, <2>1, <2>2 DEF Paging
<1>9. Covered'
  <2>1. ASSUME loaded PROVE seen' \subseteq seen
    BY <1>a, <1>7, <2>1
  <2>2. ASSUME NEW j \in seen', status[j] = "DONE", j < cursor
        PROVE  j \in AfterCursor(done, cursor)
    BY <1>a, <2>2 DEF AfterCursor
  <2>3. ASSUME loaded, NEW j \in seen', status[j] = "DONE"
        PROVE  Contains(items, j) \/ j \in Removing \/ (hasMore /\ j < cursor)
    BY <1>0, <2>1, <2>3 DEF Covered
  <2> QED
    BY <1>0, <1>1, <1>6, <2>2, <2>3 DEF Covered
<1> QED
  BY <1>0, <1>3, <1>5, <1>8, <1>9, CardsRest DEF ListingInv

\* A DELETE is carried out, or is not; the card is away in either case.
LEMMA DeleteStep ==
    ASSUME ListingInv, NEW j \in Job, Delete(j)
    PROVE  ListingInv'
<1>0. /\ ListingTyped /\ Lags /\ Paging /\ Cards /\ Covered /\ Ordered /\ Indexed
      /\ UNCHANGED <<items, loaded, cursor, hasMore, page, seen, removed,
                     overlapped>>
      /\ removal[j].at = "asked"
  BY DEF ListingInv, Delete, hook, history
<1>1. /\ removal \in [Job -> [at : {"none", "asked", "gone", "refused"}, index : Nat]]
      /\ status \in [Job -> Status]
      /\ seen \subseteq Job /\ removed \subseteq Job
  BY <1>0 DEF ListingTyped
<1>2. PICK answer \in {"gone", "refused"} :
         /\ removal' = [removal EXCEPT ![j].at = answer]
         /\ \/ status' = [status EXCEPT ![j] = "DELETED"]
            \/ status' = status /\ answer = "refused"
  BY DEF Delete
<1>3. /\ removal' \in [Job -> [at : {"none", "asked", "gone", "refused"}, index : Nat]]
      /\ removal'[j].at = answer /\ removal'[j].index = removal[j].index
      /\ \A k \in Job : k # j => removal'[k] = removal[k]
  BY <1>1, <1>2
<1>4. /\ status' \in [Job -> Status]
      /\ \A k \in Job : status'[k] = status[k] \/ (k = j /\ status'[k] = "DELETED")
      /\ answer = "gone" => status'[j] = "DELETED"
  BY <1>1, <1>2 DEF Status
<1>5. /\ \A k \in Job : removal'[k].at # "none" <=> removal[k].at # "none"
      /\ \A k \in Job : removal'[k].index = removal[k].index
  BY <1>0, <1>3
<1>6. Removing' = Removing /\ Gone' = Gone /\ Removing \subseteq Job
  BY <1>0, <1>5 DEF Gone, Removing
<1>7. ListingTyped'
  BY <1>0, <1>3, <1>4 DEF ListingTyped
<1>8. Lags'
  <2>1. ASSUME NEW k \in Job
        PROVE  removal'[k].at = "gone" => status'[k] = "DELETED"
    BY <1>0, <1>3, <1>4 DEF Lags
  <2>2. ASSUME NEW k \in seen
        PROVE  status'[k] # "RUNNING"
    BY <1>0, <1>1, <1>4 DEF Lags
  <2>3. \A k \in removed : status'[k] = "DELETED"
    BY <1>0, <1>1, <1>4 DEF Lags
  <2> QED
    BY <1>0, <2>1, <2>2, <2>3 DEF Lags
<1>9. Paging'
  BY <1>0, <1>6 DEF Paging, Descending
<1>10. Cards'
  BY <1>0, <1>6 DEF Cards, Contains
<1>11. Covered'
  <2>1. \A k \in seen : status'[k] = "DONE" => status[k] = "DONE"
    BY <1>1, <1>4
  <2> QED
    BY <1>0, <1>6, <2>1 DEF Covered, Contains
<1>12. Ordered'
  <2>1. \A k \in Removing : Fits(k)' <=> Fits(k)
    BY <1>0, <1>5, <1>6 DEF Fits
  <2>2. Descending(items)' <=> Descending(items)
    BY <1>0 DEF Descending
  <2> QED
    BY <1>0, <1>6, <2>1, <2>2 DEF Ordered
<1>13. Indexed'
  BY <1>0, <1>5 DEF Indexed
<1> QED
  BY <1>7, <1>8, <1>9, <1>10, <1>11, <1>12, <1>13 DEF ListingInv

\* Asking for a page, and losing one.
LEMMA AskStep ==
    ASSUME ListingInv, FetchPage \/ PageFails
    PROVE  ListingInv'
<1>0. /\ ListingTyped /\ Lags /\ Paging /\ Cards /\ Covered /\ Ordered /\ Indexed
      /\ UNCHANGED <<status, items, loaded, cursor, hasMore, removal, seen,
                     removed, overlapped>>
  BY DEF ListingInv, FetchPage, PageFails, hook, history
<1>1. NoPage \in [at : {"none", "asked", "served"}, items : Seq(Job), next : Place]
  <2>1. NoCursor \in Place
    BY ListingAssumption DEF NoCursor, Place
  <2> QED
    BY <2>1 DEF NoPage
<1>2. /\ page' \in [at : {"none", "asked", "served"}, items : Seq(Job), next : Place]
      /\ page'.at # "served"
      /\ loaded /\ ~hasMore => page'.at = "none"
  <2>1. CASE FetchPage
    BY <1>1, <2>1 DEF FetchPage, NoPage
  <2>2. CASE PageFails
    BY <1>1, <2>2 DEF PageFails, NoPage
  <2> QED
    BY <2>1, <2>2
<1>3. Gone' = Gone /\ Removing' = Removing
  BY <1>0 DEF Gone, Removing
<1>4. ListingTyped'
  BY <1>0, <1>2 DEF ListingTyped
<1>5. Lags'
  BY <1>0 DEF Lags
<1>6. Paging'
  BY <1>0, <1>2, <1>3 DEF Paging
<1>7. Covered'
  BY <1>0, <1>2, <1>3 DEF Covered, Contains
<1> QED
  BY <1>0, <1>4, <1>5, <1>6, <1>7, CardsRest DEF ListingInv

\* A page lands: all its cards are after the cursor, and all others are not.
LEMMA ArriveStep ==
    ASSUME ListingInv, PageArrives
    PROVE  ListingInv'
<1> DEFINE n == Len(items)
           m == Len(page.items)
           more == items \o page.items
<1>0. /\ ListingTyped /\ Lags /\ Paging /\ Cards /\ Covered /\ Ordered /\ Indexed
      /\ UNCHANGED <<status, removal, seen, removed, overlapped>>
      /\ page.at = "served" /\ page' = NoPage /\ loaded' = TRUE
      /\ cursor' = page.next /\ hasMore' = (page.next # NoCursor)
      /\ items' = more
  BY DEF ListingInv, PageArrives, history
<1>1. /\ Jobs \in Nat /\ items \in Seq(Job) /\ page.items \in Seq(Job)
      /\ page.next \in Place /\ cursor \in Place /\ n \in Nat /\ m \in Nat
      /\ DOMAIN items = 1..n /\ DOMAIN page.items = 1..m
      /\ seen \subseteq Job /\ removed \subseteq Job /\ Removing \subseteq Job
      /\ loaded \in BOOLEAN
  BY <1>0, ListingAssumption DEF ListingTyped, Removing
<1>2. /\ \A j \in Job : j \in Nat /\ j < NoCursor
      /\ \A p \in Place : p \in Nat /\ p <= NoCursor
      /\ NoCursor \in Nat
  BY <1>1 DEF Job, Place, NoCursor
<1>3. /\ more \in Seq(Job) /\ Len(more) = n + m
      /\ \A k \in 1..n : more[k] = items[k]
      /\ \A k \in 1..(n + m) : k > n => more[k] = page.items[k - n]
  BY <1>1, Joined
<1> HIDE DEF more, n, m
<1>4. /\ \A i \in 1..m : /\ page.items[i] \in Job /\ page.items[i] < cursor
                         /\ page.next # NoCursor => page.items[i] >= page.next
      /\ \A i, k \in 1..m : i < k => page.items[i] > page.items[k]
      /\ page.next # NoCursor => page.next < cursor
      /\ loaded => hasMore /\ cursor # NoCursor
      /\ ~loaded => items = << >> /\ n = 0 /\ Gone = {} /\ cursor = NoCursor
  BY <1>0, <1>1 DEF Paging, Descending, n
<1>5. /\ \A i \in 1..n : items[i] \in Job /\ items[i] >= cursor
      /\ \A j \in Gone : j \in Job /\ j >= cursor
      /\ \A i, k \in 1..n : items[i] = items[k] => i = k
  <2>1. Gone \subseteq Job
    BY <1>1 DEF Gone
  <2> QED
    BY <1>0, <1>1, <1>4, <2>1 DEF Cards
<1>6. Gone' = Gone /\ Removing' = Removing
  BY <1>0 DEF Gone, Removing
<1>7. /\ \A k \in 1..(n + m) : (k \in 1..n /\ ~(k > n)) \/ (k \notin 1..n /\ k > n)
      /\ \A k \in 1..(n + m) :
            k > n => k - n \in 1..m /\ more[k] = page.items[k - n]
  BY <1>1, <1>3
<1>8. ASSUME NEW k \in 1..(n + m)
      PROVE  /\ more[k] \in Job /\ more[k] \in Nat
             /\ k \in 1..n => more[k] >= cursor
             /\ k > n => more[k] < cursor
  <2>1. CASE k \in 1..n
    BY <1>2, <1>3, <1>5, <1>7, <2>1
  <2>2. CASE k > n
    BY <1>2, <1>4, <1>7, <2>2
  <2> QED
    BY <1>7, <2>1, <2>2
<1>9. ListingTyped'
  <2>1. NoPage \in [at : {"none", "asked", "served"}, items : Seq(Job), next : Place]
    <3>1. NoCursor \in Place
      BY ListingAssumption DEF NoCursor, Place
    <3> QED
      BY <3>1 DEF NoPage
  <2>2. hasMore' \in BOOLEAN /\ loaded' \in BOOLEAN
    BY <1>0
  <2>3. items' \in Seq(Job) /\ cursor' \in Place
    BY <1>0, <1>1, <1>3
  <2>4. page' \in [at : {"none", "asked", "served"}, items : Seq(Job), next : Place]
    BY <1>0, <2>1
  <2> QED
    BY <1>0, <2>2, <2>3, <2>4 DEF ListingTyped
<1>10. Lags'
  BY <1>0 DEF Lags
<1>11. Paging'
  <2>1. page'.at = "none"
    BY <1>0 DEF NoPage
  <2>2. hasMore' <=> cursor' # NoCursor
    BY <1>0
  <2> QED
    BY <1>0, <2>1, <2>2 DEF Paging
<1>12. Cards'
  <2>1. ASSUME NEW i \in 1..(n + m), NEW k \in 1..(n + m), more[i] = more[k]
        PROVE  i = k
    <3>1. CASE i \in 1..n /\ k \in 1..n
      BY <1>3, <1>5, <2>1, <3>1
    <3>2. CASE i > n /\ k > n
      <4>1. page.items[i - n] = page.items[k - n] /\ i - n \in 1..m /\ k - n \in 1..m
        BY <1>7, <2>1, <3>2
      <4>2. i - n = k - n
        BY <1>2, <1>4, <4>1
      <4> QED
        BY <1>1, <4>2
    <3>3. CASE i \in 1..n /\ k > n
      BY <1>1, <1>2, <1>8, <2>1, <3>3
    <3>4. CASE i > n /\ k \in 1..n
      BY <1>1, <1>2, <1>8, <2>1, <3>4
    <3> QED
      BY <1>1, <3>1, <3>2, <3>3, <3>4
  <2>2. ASSUME NEW j \in Gone, Contains(more, j) PROVE FALSE
    <3>1. PICK k \in 1..(n + m) : more[k] = j
      BY <1>3, <2>2 DEF Contains
    <3>2. j \in Nat /\ j >= cursor /\ cursor \in Nat
      BY <1>1, <1>2, <1>5
    <3>3. k \in 1..n
      BY <1>1, <1>7, <1>8, <3>1, <3>2
    <3>4. Contains(items, j)
      BY <1>3, <3>1, <3>3 DEF Contains, n
    <3> QED
      BY <1>0, <3>4 DEF Cards
  <2>3. ASSUME page.next # NoCursor
        PROVE  /\ \A k \in 1..(n + m) : more[k] >= page.next
               /\ \A j \in Gone : j >= page.next
    <3>1. page.next < cursor /\ page.next \in Nat /\ cursor \in Nat
      BY <1>1, <1>2, <1>4, <2>3
    <3>2. ASSUME NEW k \in 1..(n + m) PROVE more[k] >= page.next
      <4>1. CASE k \in 1..n
        BY <1>8, <3>1, <4>1
      <4>2. CASE k > n
        BY <1>4, <1>7, <2>3, <4>2
      <4> QED
        BY <1>7, <4>1, <4>2
    <3>3. \A j \in Gone : j >= page.next
      BY <1>2, <1>5, <3>1
    <3> QED
      BY <3>2, <3>3
  <2>4. DOMAIN more = 1..(n + m)
    BY <1>3
  <2> QED
    BY <1>0, <1>6, <2>1, <2>2, <2>3, <2>4 DEF Cards
<1>13. Covered'
  <2>1. page'.at # "served"
    BY <1>0 DEF NoPage
  <2>2. ASSUME NEW j \in seen, status[j] = "DONE"
        PROVE  \/ Contains(more, j) \/ j \in Removing
               \/ page.next # NoCursor /\ j < page.next
    <3>1. CASE j < cursor
      <4>1. Contains(page.items, j) \/ (page.next # NoCursor /\ j < page.next)
        BY <1>0, <2>2, <3>1 DEF Covered
      <4>2. CASE Contains(page.items, j)
        <5>1. PICK i \in 1..m : page.items[i] = j
          BY <4>2 DEF Contains, m
        <5>2. n + i \in 1..(n + m) /\ n + i > n /\ (n + i) - n = i
          BY <1>1
        <5>3. more[n + i] = j
          BY <1>3, <5>1, <5>2
        <5> QED
          BY <1>3, <5>2, <5>3 DEF Contains
      <4> QED
        BY <4>1, <4>2
    <3>2. CASE ~(j < cursor)
      <4>1. loaded
        BY <1>1, <1>2, <1>4, <3>2
      <4>2. Contains(items, j) \/ j \in Removing
        BY <1>0, <2>2, <3>2, <4>1 DEF Covered
      <4>3. CASE Contains(items, j)
        <5>1. PICK i \in 1..n : items[i] = j
          BY <4>3 DEF Contains, n
        <5>2. i \in 1..(n + m) /\ more[i] = j
          BY <1>1, <1>3, <5>1
        <5> QED
          BY <1>3, <5>2 DEF Contains
      <4> QED
        BY <4>2, <4>3
    <3> QED
      BY <3>1, <3>2
  <2> QED
    BY <1>0, <1>6, <2>1, <2>2 DEF Covered
<1>14. Ordered'
  <2> SUFFICES ASSUME ~overlapped
               PROVE  /\ Descending(more)
                      /\ \A j \in Removing : Fits(j)'
                      /\ \A j, k \in Removing : j = k
    BY <1>0, <1>6 DEF Ordered, Descending
  <2>1. /\ \A i, k \in 1..n : i < k => items[i] > items[k]
        /\ \A j \in Removing : Fits(j)
        /\ \A j, k \in Removing : j = k
    BY <1>0, <1>1 DEF Ordered, Descending
  <2>2. ASSUME NEW i \in 1..(n + m), NEW k \in 1..(n + m), i < k
        PROVE  more[i] > more[k]
    <3>1. CASE k \in 1..n
      <4>1. i \in 1..n
        BY <1>1, <2>2, <3>1
      <4> QED
        BY <1>3, <2>1, <2>2, <3>1, <4>1
    <3>2. CASE i > n
      <4>1. k > n /\ i - n < k - n
        BY <1>1, <2>2, <3>2
      <4>2. i - n \in 1..m /\ k - n \in 1..m
        BY <1>7, <3>2, <4>1
      <4>3. more[i] = page.items[i - n] /\ more[k] = page.items[k - n]
        BY <1>3, <3>2, <4>1
      <4> QED
        BY <1>4, <4>1, <4>2, <4>3
    <3>3. CASE i \in 1..n /\ k > n
      <4>1. more[i] \in Nat /\ more[k] \in Nat
        BY <1>8
      <4>c. cursor \in Nat
        BY <1>1, <1>2
      <4>2. more[i] >= cursor
        BY <1>8, <3>3
      <4>3. more[k] < cursor
        BY <1>8, <3>3
      <4> QED
        BY <4>1, <4>c, <4>2, <4>3
    <3> QED
      BY <1>7, <3>1, <3>2, <3>3
  <2>3. DOMAIN more = 1..(n + m)
    BY <1>3
  <2>4. Descending(more)
    BY <2>2, <2>3 DEF Descending
  <2>5. ASSUME NEW j \in Removing PROVE Fits(j)'
    <3> DEFINE i == removal[j].index
    <3>1. /\ i \in Nat /\ i <= n + 1
          /\ \A k \in 1..n : IF k < i THEN items[k] > j ELSE items[k] < j
      <4>1. Fits(j)
        BY <2>1
      <4>2. i \in Nat
        BY <1>0, <1>1, <2>5 DEF ListingTyped
      <4> QED
        BY <1>1, <4>1, <4>2 DEF Fits, n
    <3>2. j \in Nat /\ j >= cursor /\ cursor \in Nat
      BY <1>1, <1>2, <1>5, <2>5 DEF Gone
    <3> HIDE DEF i
    <3>3. ASSUME NEW k \in 1..(n + m)
          PROVE  IF k < i THEN more[k] > j ELSE more[k] < j
      <4>1. CASE k \in 1..n
        BY <1>3, <3>1, <4>1
      <4>2. CASE k > n
        <5>1. ~(k < i)
          BY <1>1, <3>1, <4>2
        <5>2. more[k] < j
          BY <1>8, <3>2, <4>2
        <5> QED
          BY <5>1, <5>2
      <4> QED
        BY <1>7, <4>1, <4>2
    <3>4. i <= n + m + 1
      BY <1>1, <3>1
    <3> QED
      BY <1>0, <1>3, <2>3, <3>3, <3>4 DEF Fits, i
  <2> QED
    BY <2>1, <2>4, <2>5
<1>15. Indexed'
  BY <1>0 DEF Indexed
<1> QED
  BY <1>9, <1>10, <1>11, <1>12, <1>13, <1>14, <1>15 DEF ListingInv

\* A card leaves at once, and keeps the place it had.
LEMMA RemoveStep ==
    ASSUME ListingInv, NEW j \in Job, RemoveCard(j)
    PROVE  ListingInv'
<1> DEFINE n == Len(items)
<1>0. /\ ListingTyped /\ Lags /\ Paging /\ Cards /\ Covered /\ Ordered /\ Indexed
      /\ UNCHANGED <<status, loaded, cursor, hasMore, page, seen, removed>>
  BY DEF ListingInv, RemoveCard
<1>1. PICK i \in DOMAIN items :
         /\ items[i] = j /\ removal[j].at = "none"
         /\ removal' = [removal EXCEPT ![j] = [at |-> "asked", index |-> i]]
         /\ items' = RemoveAt(items, i)
         /\ overlapped' = (overlapped \/ Removing # {})
  BY DEF RemoveCard
<1> DEFINE rest == RemoveAt(items, i)
<1>2. /\ Jobs \in Nat /\ items \in Seq(Job) /\ n \in Nat /\ DOMAIN items = 1..n
      /\ i \in Nat /\ 1 <= i /\ i <= n /\ loaded \in BOOLEAN
      /\ removal \in [Job -> [at : {"none", "asked", "gone", "refused"}, index : Nat]]
      /\ overlapped \in BOOLEAN
  BY <1>0, ListingAssumption DEF ListingTyped
<1>3. /\ rest \in Seq(Job) /\ Len(rest) = n - 1
      /\ \A k \in 1..(n - 1) : rest[k] = IF k < i THEN items[k] ELSE items[k + 1]
  BY <1>2, CardRemoved
<1> HIDE DEF rest
<1>4. /\ removal' \in [Job -> [at : {"none", "asked", "gone", "refused"}, index : Nat]]
      /\ removal'[j].at = "asked" /\ removal'[j].index = i
      /\ \A k \in Job : k # j => removal'[k] = removal[k]
  BY <1>1, <1>2
<1>5. /\ Removing' = Removing \union {j} /\ j \notin Removing
      /\ Gone' = Gone \union {j} /\ items' = rest
  BY <1>0, <1>1, <1>4 DEF Gone, Removing, rest
<1>6. \A k, l \in 1..n : items[k] = items[l] => k = l
  BY <1>0, <1>2 DEF Cards
<1> HIDE DEF n
<1>7. /\ Contains(items, j)
      /\ \A k \in 1..(n - 1) : /\ rest[k] # j
                               /\ rest[k] \in Job
                               /\ Contains(items, rest[k])
  <2>1. \A k \in 1..n : Contains(items, items[k])
    BY DEF Contains, n
  <2>2. ASSUME NEW k \in 1..(n - 1)
        PROVE  rest[k] # j /\ \E l \in 1..n : rest[k] = items[l]
    <3>1. CASE k < i
      BY <1>1, <1>2, <1>3, <1>6, <3>1
    <3>2. CASE ~(k < i)
      <4>2. k + 1 \in 1..n /\ k + 1 # i
        BY <1>2, <3>2
      <4>3. rest[k] = items[k + 1]
        BY <1>3, <3>2
      <4>1. rest[k] = items[k + 1] /\ k + 1 \in 1..n /\ k + 1 # i
        BY <4>2, <4>3
      <4> QED
        BY <1>1, <1>2, <1>6, <4>1
    <3> QED
      BY <3>1, <3>2
  <2>3. i \in 1..n
    BY <1>2
  <2> QED
    BY <1>1, <1>3, <2>1, <2>2, <2>3
<1>8. ASSUME NEW k, Contains(rest, k)
      PROVE  Contains(items, k) /\ k # j
  <2>1. PICK l \in 1..(n - 1) : rest[l] = k
    BY <1>3, <1>8 DEF Contains
  <2> QED
    BY <1>7, <2>1
<1>9. ASSUME NEW k, Contains(items, k), k # j
      PROVE  Contains(rest, k)
  <2>1. PICK l \in 1..n : items[l] = k
    BY <1>9 DEF Contains, n
  <2>2. l # i /\ l \in Nat
    BY <1>1, <1>9, <2>1
  <2>3. CASE l < i
    <3>1. l \in 1..(n - 1) /\ rest[l] = k
      BY <1>2, <1>3, <2>1, <2>3
    <3> QED
      BY <1>3, <3>1 DEF Contains
  <2>4. CASE l > i
    <3>1. l - 1 \in 1..(n - 1) /\ ~(l - 1 < i) /\ (l - 1) + 1 = l
      BY <1>2, <2>1, <2>4
    <3>2. rest[l - 1] = k
      BY <1>3, <2>1, <3>1
    <3> QED
      BY <1>3, <3>1, <3>2 DEF Contains
  <2> QED
    BY <1>2, <2>2, <2>3, <2>4
<1>10. ListingTyped'
  <2>1. overlapped' \in BOOLEAN
    BY <1>1
  <2> QED
    BY <1>0, <1>3, <1>4, <1>5, <2>1 DEF ListingTyped
<1>11. Lags'
  <2>1. ASSUME NEW k \in Job, removal'[k].at = "gone" PROVE status[k] = "DELETED"
    BY <1>0, <1>4, <2>1 DEF Lags
  <2> QED
    BY <1>0, <2>1 DEF Lags
<1>12. loaded
  <2>1. items # << >>
    BY <1>2 DEF n
  <2> QED
    BY <1>0, <2>1 DEF Paging
<1>13. Paging'
  BY <1>0, <1>12 DEF Paging, Descending
<1>14. ASSUME NEW k \in 1..(n - 1)
       PROVE  LET p == IF k < i THEN k ELSE k + 1
              IN  p \in 1..n /\ rest[k] = items[p]
  <2>1. CASE k < i
    BY <1>2, <1>3, <2>1
  <2>2. CASE ~(k < i)
    BY <1>2, <1>3, <2>2
  <2> QED
    BY <2>1, <2>2
<1>15. Cards'
  <2>1. ASSUME NEW k \in 1..(n - 1), NEW l \in 1..(n - 1), rest[k] = rest[l]
        PROVE  k = l
    <3> DEFINE p == IF k < i THEN k ELSE k + 1
               q == IF l < i THEN l ELSE l + 1
    <3>1. p \in 1..n /\ rest[k] = items[p] /\ q \in 1..n /\ rest[l] = items[q]
      <4>1. p \in 1..n /\ rest[k] = items[p]
        BY <1>14
      <4>2. q \in 1..n /\ rest[l] = items[q]
        BY <1>14
      <4> QED
        BY <4>1, <4>2
    <3>2. p = q
      BY <1>6, <2>1, <3>1
    <3> QED
      BY <1>2, <3>2
  <2>2. \A k \in Gone : ~Contains(rest, k)
    BY <1>0, <1>8 DEF Cards
  <2>3. ~Contains(rest, j)
    BY <1>8
  <2>4. j \notin removed
    BY <1>0, <1>7 DEF Cards, Gone
  <2>5. ASSUME hasMore
        PROVE  j >= cursor /\ \A k \in 1..(n - 1) : rest[k] >= cursor
    <3>1. \A k \in 1..n : items[k] >= cursor
      BY <1>0, <1>2, <2>5 DEF Cards
    <3>2. ASSUME NEW k \in 1..(n - 1) PROVE rest[k] >= cursor
      <4>1. k + 1 \in 1..n /\ k \in 1..n
        BY <1>2
      <4> QED
        BY <1>3, <3>1, <4>1
    <3>3. i \in 1..n
      BY <1>2
    <3> QED
      BY <1>1, <3>1, <3>2, <3>3
  <2>6. DOMAIN rest = 1..(n - 1)
    BY <1>2, <1>3
  <2> QED
    BY <1>0, <1>5, <2>1, <2>2, <2>3, <2>4, <2>5, <2>6 DEF Cards
<1>16. Covered'
  <2>1. \A k : Contains(items, k) => Contains(rest, k) \/ k = j
    BY <1>9
  <2> QED
    BY <1>0, <1>5, <2>1 DEF Covered
<1>17. Ordered'
  <2> SUFFICES ASSUME ~overlapped, Removing = {}
               PROVE  /\ Descending(rest)
                      /\ \A k \in {j} : Fits(k)'
    BY <1>1, <1>5 DEF Ordered, Descending
  <2>1. \A k, l \in 1..n : k < l => items[k] > items[l]
    BY <1>0, <1>2 DEF Ordered, Descending
  <2>2. DOMAIN rest = 1..(n - 1)
    BY <1>2, <1>3
  <2>3. ASSUME NEW k \in 1..(n - 1), NEW l \in 1..(n - 1), k < l
        PROVE  rest[k] > rest[l]
    <3> DEFINE p == IF k < i THEN k ELSE k + 1
               q == IF l < i THEN l ELSE l + 1
    <3>1. p \in 1..n /\ rest[k] = items[p] /\ q \in 1..n /\ rest[l] = items[q]
      <4>1. p \in 1..n /\ rest[k] = items[p]
        BY <1>14
      <4>2. q \in 1..n /\ rest[l] = items[q]
        BY <1>14
      <4> QED
        BY <4>1, <4>2
    <3>2. p < q
      BY <1>2, <2>3
    <3> QED
      BY <2>1, <3>1, <3>2
  <2>4. ASSUME NEW k \in 1..(n - 1)
        PROVE  IF k < i THEN rest[k] > j ELSE rest[k] < j
    <3>1. i \in 1..n /\ items[i] = j /\ \A x \in 1..n : items[x] \in Int
      <4>1. \A x \in 1..n : items[x] \in Job
        BY <1>2
      <4> QED
        BY <1>1, <1>2, <4>1 DEF Job
    <3>2. CASE k < i
      <4>1. k \in 1..n /\ rest[k] = items[k]
        <5>1. k \in 1..n
          BY <1>2
        <5>2. rest[k] = items[k]
          BY <1>3, <3>2
        <5> QED
          BY <5>1, <5>2
      <4> QED
        BY <2>1, <3>1, <3>2, <4>1
    <3>3. CASE ~(k < i)
      <4>1. k + 1 \in 1..n /\ rest[k] = items[k + 1] /\ i < k + 1
        <5>1. k + 1 \in 1..n /\ i < k + 1
          BY <1>2, <3>3
        <5>2. rest[k] = items[k + 1]
          BY <1>3, <3>3
        <5> QED
          BY <5>1, <5>2
      <4>2. items[i] > items[k + 1]
        BY <2>1, <3>1, <4>1
      <4> QED
        BY <3>1, <3>3, <4>1, <4>2
    <3> QED
      BY <3>2, <3>3
  <2>5. i <= (n - 1) + 1
    BY <1>2
  <2> QED
    BY <1>3, <1>4, <1>5, <2>2, <2>3, <2>4, <2>5 DEF Descending, Fits
<1>18. Indexed'
  <2>1. i <= Jobs
    <3>1. n <= Jobs
      BY <1>2, <1>6, AtMostJobs DEF n
    <3> QED
      BY <1>2, <3>1
  <2> QED
    BY <1>0, <1>2, <1>4, <2>1 DEF Indexed
<1> QED
  BY <1>10, <1>11, <1>13, <1>15, <1>16, <1>17, <1>18 DEF ListingInv

\* The DELETE is answered: the card stays away, or returns to its place.
LEMMA AnsweredStep ==
    ASSUME ListingInv, NEW j \in Job, Answered(j)
    PROVE  ListingInv'
<1> DEFINE n == Len(items)
<1>0. /\ ListingTyped /\ Lags /\ Paging /\ Cards /\ Covered /\ Ordered /\ Indexed
      /\ UNCHANGED <<status, loaded, cursor, hasMore, page, seen, overlapped>>
      /\ removal[j].at \in {"gone", "refused"}
      /\ removal' = [removal EXCEPT ![j] = NoRemoval]
  BY DEF ListingInv, Answered
<1>1. /\ Jobs \in Nat /\ items \in Seq(Job) /\ n \in Nat /\ DOMAIN items = 1..n
      /\ removal \in [Job -> [at : {"none", "asked", "gone", "refused"}, index : Nat]]
      /\ removed \subseteq Job /\ seen \subseteq Job
  BY <1>0, ListingAssumption DEF ListingTyped
<1>2. /\ removal' \in [Job -> [at : {"none", "asked", "gone", "refused"}, index : Nat]]
      /\ removal'[j].at = "none" /\ removal'[j].index = 0
      /\ \A k \in Job : k # j => removal'[k] = removal[k]
  <2>1. /\ NoRemoval \in [at : {"none", "asked", "gone", "refused"}, index : Nat]
        /\ NoRemoval.at = "none" /\ NoRemoval.index = 0
    BY DEF NoRemoval
  <2> QED
    BY <1>0, <1>1, <2>1
<1>3. Removing' = Removing \ {j} /\ j \in Removing
  BY <1>0, <1>2 DEF Removing
<1>4. Indexed'
  BY <1>0, <1>1, <1>2 DEF Indexed
<1>5. /\ loaded /\ ~Contains(items, j) /\ j \notin removed
      /\ hasMore => j >= cursor
  BY <1>0, <1>3 DEF Paging, Cards, Gone
<1>6. CASE removal[j].at = "gone" /\ removed' = removed \union {j} /\ items' = items
  <2>1. status[j] = "DELETED"
    BY <1>0, <1>6 DEF Lags
  <2>2. Gone' = Gone
    BY <1>3, <1>6 DEF Gone
  <2>3. ListingTyped'
    BY <1>0, <1>1, <1>2, <1>6 DEF ListingTyped
  <2>4. Lags'
    BY <1>0, <1>2, <1>6, <2>1 DEF Lags
  <2>5. Paging'
    BY <1>0, <1>6, <2>2 DEF Paging, Descending
  <2>6. Cards'
    BY <1>0, <1>3, <1>6, <2>2 DEF Cards, Contains
  <2>7. Covered'
    BY <1>0, <1>3, <1>6, <2>1 DEF Covered, Contains
  <2>8. Ordered'
    <3>1. ASSUME NEW k \in Removing', Fits(k) PROVE Fits(k)'
      <4>1. removal'[k] = removal[k]
        BY <1>2, <1>3, <3>1 DEF Removing
      <4> QED
        BY <1>6, <3>1, <4>1 DEF Fits
    <3>2. Descending(items)' <=> Descending(items)
      BY <1>6 DEF Descending
    <3> QED
      BY <1>0, <1>3, <3>1, <3>2 DEF Ordered
  <2> QED
    BY <1>4, <2>3, <2>4, <2>5, <2>6, <2>7, <2>8 DEF ListingInv
<1>7. CASE removal[j].at = "refused" /\ items' = PutBack(j) /\ removed' = removed
  <2> DEFINE back == PutBack(j)
             at == BackAt(j)
  <2>1. removal[j].index \in Nat /\ removal[j].index >= 1
    BY <1>0, <1>1, <1>7 DEF Indexed
  <2>2. /\ back \in Seq(Job) /\ Len(back) = n + 1 /\ at \in 1..(n + 1)
        /\ \A k \in 1..(n + 1) :
              back[k] = IF k < at THEN items[k] ELSE IF k = at THEN j ELSE items[k - 1]
    BY <1>1, <2>1, CardBack
  <2>3. items' = back
    BY <1>7
  <2> HIDE DEF back, n
  <2>4. DOMAIN back = 1..(n + 1) /\ at \in Nat
    BY <1>1, <2>2
  <2>5. Gone' = Gone \ {j}
    BY <1>3, <1>5, <1>7 DEF Gone
  <2>6. at <= n => at = removal[j].index
    BY <1>1, <2>1 DEF BackAt, n
  <2> HIDE DEF at
  <2>7. ASSUME NEW k \in 1..(n + 1)
        PROVE  \/ k < at /\ k \in 1..n /\ back[k] = items[k]
               \/ k = at /\ back[k] = j
               \/ k > at /\ k - 1 \in 1..n /\ back[k] = items[k - 1]
    <3>1. CASE k < at
      BY <1>1, <2>2, <3>1
    <3>2. CASE k = at
      BY <2>2, <2>4, <3>2
    <3>3. CASE k > at
      BY <1>1, <2>2, <2>4, <3>3
    <3> QED
      BY <2>4, <3>1, <3>2, <3>3
  <2>8. \A k \in 1..n : items[k] # j /\ items[k] \in Job
    BY <1>1, <1>5 DEF Contains, n
  <2>9. ListingTyped'
    BY <1>0, <1>2, <1>7, <2>2, <2>3 DEF ListingTyped
  <2>10. Lags'
    <3>1. \A k \in Job : removal'[k].at = "gone" => removal[k].at = "gone"
      BY <1>2
    <3> QED
      BY <1>0, <1>7, <3>1 DEF Lags
  <2>11. Paging'
    BY <1>0, <1>5, <1>7 DEF Paging, Descending
  <2>12. Cards'
    <3>1. ASSUME NEW k \in 1..(n + 1), NEW l \in 1..(n + 1), back[k] = back[l]
          PROVE  k = l
      <4>1. \A x, y \in 1..n : items[x] = items[y] => x = y
        BY <1>0, <1>1 DEF Cards
      <4>2. CASE k = at
        BY <2>7, <2>8, <3>1, <4>2
      <4>3. CASE l = at
        BY <2>7, <2>8, <3>1, <4>3
      <4>4. CASE k < at /\ l < at
        BY <2>4, <2>7, <3>1, <4>1, <4>4
      <4>5. CASE k > at /\ l > at
        <5>1. k - 1 = l - 1
          BY <2>4, <2>7, <3>1, <4>1, <4>5
        <5> QED
          BY <1>1, <5>1
      <4>6. CASE k < at /\ l > at
        <5>1. k = l - 1
          BY <2>4, <2>7, <3>1, <4>1, <4>6
        <5> QED
          BY <1>1, <2>4, <4>6, <5>1
      <4>7. CASE k > at /\ l < at
        <5>1. k - 1 = l
          BY <2>4, <2>7, <3>1, <4>1, <4>7
        <5> QED
          BY <1>1, <2>4, <4>7, <5>1
      <4> QED
        BY <1>1, <2>4, <4>2, <4>3, <4>4, <4>5, <4>6, <4>7
    <3>2. ASSUME NEW k \in Gone, k # j, Contains(back, k) PROVE FALSE
      <4>1. PICK l \in 1..(n + 1) : back[l] = k
        BY <2>2, <3>2 DEF Contains
      <4>2. \E x \in 1..n : items[x] = k
        BY <2>7, <3>2, <4>1
      <4> QED
        BY <1>0, <3>2, <4>2 DEF Cards, Contains, n
    <3>3. ASSUME hasMore
          PROVE  \A k \in 1..(n + 1) : back[k] >= cursor
      <4>1. \A k \in 1..n : items[k] >= cursor
        BY <1>0, <1>1, <3>3 DEF Cards
      <4> QED
        BY <1>5, <2>7, <3>3, <4>1
    <3>4. \A k \in Removing : k \notin removed
      BY <1>0 DEF Cards
    <3>5. hasMore => \A k \in Gone : k >= cursor
      BY <1>0 DEF Cards
    <3> QED
      BY <1>0, <1>3, <1>7, <2>4, <2>5, <2>3, <3>1, <3>2, <3>3, <3>4, <3>5 DEF Cards
  <2>13. /\ Contains(back, j)
         /\ \A k : Contains(items, k) => Contains(back, k)
    <3>1. Contains(back, j)
      <4>1. back[at] = j
        BY <2>2, <2>4
      <4> QED
        BY <2>2, <4>1 DEF Contains
    <3>2. ASSUME NEW k, Contains(items, k) PROVE Contains(back, k)
      <4>1. PICK x \in 1..n : items[x] = k
        BY <3>2 DEF Contains, n
      <4>2. CASE x < at
        <5>1. x \in 1..(n + 1) /\ back[x] = k
          BY <1>1, <2>2, <4>1, <4>2
        <5> QED
          BY <2>2, <5>1 DEF Contains
      <4>3. CASE ~(x < at)
        <5>1. x + 1 \in 1..(n + 1) /\ x + 1 > at /\ (x + 1) - 1 = x
          BY <1>1, <2>4, <4>1, <4>3
        <5>2. back[x + 1] = k
          BY <1>1, <2>2, <2>4, <4>1, <5>1
        <5> QED
          BY <2>2, <5>1, <5>2 DEF Contains
      <4> QED
        BY <4>2, <4>3
    <3> QED
      BY <3>1, <3>2
  <2>14. Covered'
    BY <1>0, <1>3, <1>7, <2>13, <2>3 DEF Covered
  <2>15. Ordered'
    <3> SUFFICES ASSUME ~overlapped
                 PROVE  Descending(back) /\ Removing' = {}
      BY <1>0, <1>7, <2>3 DEF Ordered, Descending
    <3>1. /\ \A x, y \in 1..n : x < y => items[x] > items[y]
          /\ Fits(j) /\ \A k \in Removing : k = j
      BY <1>0, <1>1, <1>3 DEF Ordered, Descending
    <3>2. Removing' = {}
      BY <1>3, <3>1
    <3>3. /\ \A x \in 1..n : x < at => items[x] > j
          /\ \A x \in 1..n : ~(x < at) => items[x] < j
      <4>1. \A x \in 1..n : IF x < removal[j].index THEN items[x] > j
                            ELSE items[x] < j
        BY <1>1, <3>1 DEF Fits
      <4>2. at = removal[j].index
        <5>1. removal[j].index <= n + 1
          BY <3>1 DEF Fits, n
        <5>2. CASE removal[j].index > n
          BY <1>1, <2>1, <5>1, <5>2 DEF at, BackAt, n
        <5>3. CASE ~(removal[j].index > n)
          BY <5>3 DEF at, BackAt, n
        <5> QED
          BY <5>2, <5>3
      <4> QED
        BY <4>1, <4>2
    <3>4. ASSUME NEW k \in 1..(n + 1), NEW l \in 1..(n + 1), k < l
          PROVE  back[k] > back[l]
      <4>0. \A x \in 1..n : items[x] \in Nat /\ j \in Nat
        BY <2>8 DEF Job
      <4>1. CASE l < at
        <5>1. k < at
          BY <1>1, <2>4, <3>4, <4>1
        <5> QED
          BY <2>4, <2>7, <3>1, <3>4, <4>1, <5>1
      <4>2. CASE l = at
        BY <2>4, <2>7, <3>3, <3>4, <4>2
      <4>3. CASE l > at
        <5>1. l - 1 \in 1..n /\ back[l] = items[l - 1] /\ ~(l - 1 < at)
          BY <1>1, <2>4, <2>7, <4>3
        <5>2. CASE k = at
          BY <2>4, <2>7, <3>3, <4>0, <5>1, <5>2
        <5>3. CASE k < at
          BY <2>4, <2>7, <3>3, <4>0, <5>1, <5>3
        <5>4. CASE k > at
          <6>1. k - 1 \in 1..n /\ back[k] = items[k - 1] /\ k - 1 < l - 1
            BY <1>1, <2>4, <2>7, <3>4, <5>4
          <6> QED
            BY <3>1, <5>1, <6>1
        <5> QED
          BY <1>1, <2>4, <5>2, <5>3, <5>4
      <4> QED
        BY <1>1, <2>4, <4>1, <4>2, <4>3
    <3> QED
      BY <2>4, <3>2, <3>4 DEF Descending
  <2> QED
    BY <1>4, <2>9, <2>10, <2>11, <2>12, <2>14, <2>15 DEF ListingInv
<1> QED
  BY <1>6, <1>7 DEF Answered

\* Every step of the server or of the page keeps it.
LEMMA ListingInvStep ==
    ASSUME ListingInv, [ListingNext]_vars
    PROVE  ListingInv'
<1>1. CASE FetchPage \/ PageFails
  BY <1>1, AskStep
<1>2. CASE Serve
  BY <1>2, ServeStep
<1>3. CASE PageArrives
  BY <1>3, ArriveStep
<1>4. ASSUME NEW j \in Job, Finish(j) PROVE ListingInv'
  BY <1>4, FinishStep
<1>6. ASSUME NEW j \in Job, RemoveCard(j) PROVE ListingInv'
  BY <1>6, RemoveStep
<1>7. ASSUME NEW j \in Job, Delete(j) PROVE ListingInv'
  BY <1>7, DeleteStep
<1>8. ASSUME NEW j \in Job, Answered(j) PROVE ListingInv'
  BY <1>8, AnsweredStep
<1>9. CASE UNCHANGED vars
  <2>1. UNCHANGED <<status, items, loaded, cursor, hasMore, page, removal,
                    seen, removed, overlapped>>
    BY <1>9 DEF vars, hook, history
  <2>2. /\ ListingTyped /\ Lags /\ Paging /\ Cards /\ Covered /\ Ordered /\ Indexed
    BY DEF ListingInv
  <2>3. Gone' = Gone /\ Removing' = Removing
    BY <2>1 DEF Gone, Removing
  <2>4. ListingTyped' /\ Lags'
    BY <2>1, <2>2 DEF ListingTyped, Lags
  <2>5. Paging' /\ Covered'
    BY <2>1, <2>2, <2>3 DEF Paging, Covered, Contains, Descending
  <2> QED
    BY <2>1, <2>2, <2>4, <2>5, CardsRest DEF ListingInv
<1> QED
  BY <1>1, <1>2, <1>3, <1>4, <1>6, <1>7, <1>8, <1>9 DEF ListingNext

\* How cards, removals and what is still to come stand to the cursor, at all
\* times, and that nothing seen is lost between them.
THEOREM ListingInvariant == ListingSpec => []ListingInv
BY ListingInvInit, ListingInvStep, PTL DEF ListingSpec

\* NothingIsSkipped, for any number of meditations and any page size: once the
\* listing has no more, every meditation that the query of each page could see
\* has a card, unless it was deleted or is being removed.
THEOREM NoneSkipped == ListingSpec => []NothingIsSkipped
<1>1. ASSUME ListingInv PROVE NothingIsSkipped
  BY <1>1 DEF ListingInv, Covered, NothingIsSkipped
<1> QED
  BY <1>1, ListingInvariant, PTL

\* CardsInOrder, for any number of meditations and any page size: the types
\* hold, no card is there twice, removed ones stay away, and the cards are
\* newest first as long as no two removals overlap.
THEOREM CardsKeepOrder == ListingSpec => []CardsInOrder
<1>1. ASSUME ListingInv PROVE CardsInOrder
  <2>1. /\ ListingTyped /\ Lags /\ Paging /\ Cards /\ Covered /\ Ordered /\ Indexed
    BY <1>1 DEF ListingInv
  <2>2. Jobs \in Nat /\ Place = Job \union {NoCursor}
    BY ListingAssumption DEF Place, Job, NoCursor
  <2>3. IsInjective(items)
    BY <2>1 DEF Cards, IsInjective
  <2>4. ASSUME NEW j \in Job
        PROVE  /\ removal[j].at \in {"none", "asked", "gone", "refused"}
               /\ removal[j].index \in 0..Jobs
               /\ removal[j].at # "none" => ~Contains(items, j)
    BY <2>1, <2>2 DEF ListingTyped, Indexed, Cards, Gone, Removing
  <2>5. page.at \in {"none", "asked", "served"} /\ page.next \in Place
    BY <2>1 DEF ListingTyped
  <2>6. ListingTypeOK
    BY <2>1, <2>2, <2>3, <2>4, <2>5 DEF ListingTyped, ListingTypeOK, Status
  <2>7. NewestFirst
    BY <2>1 DEF Ordered, Descending, NewestFirst
  <2>8. RemovedStaysGone
    BY <2>1 DEF Cards, Gone, RemovedStaysGone
  <2> QED
    BY <2>6, <2>7, <2>8 DEF CardsInOrder
<1> QED
  BY <1>1, ListingInvariant, PTL
=============================================================================
