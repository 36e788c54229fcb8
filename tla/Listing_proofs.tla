----------------------------- MODULE Listing_proofs -----------------------------
(***************************************************************************)
(* Proofs about Listing, for any targets, questions, sizes of pages and    *)
(* number of edits.                                                        *)
(***************************************************************************)
EXTENDS Listing, BackupRecords_proofs, FiniteSetTheorems

(* The records are a log with finitely many numbers.                        *)
LogInv ==
    /\ IsLog(backups)
    /\ edits \in Nat /\ DOMAIN backups \subseteq 1..edits
    /\ now \in Moments

(* What is asked is a visit, and the answer was cut out of rows for it.     *)
AskInv ==
    /\ asked \in Visit \cup {NothingAsked}
    /\ Reading => \E rows \in Seq(Nat) : answer = GetBackupsPaginated(rows, asked)

(* What of the matches comes before one of them, in the order asked for.    *)
Precedes(a, b, v) == IF v.sortOrder = "asc" THEN a < b ELSE a > b
Ahead(bs, v, n) ==
    {m \in applyFilters(bs, v.question) :
        Precedes(SortKey(bs[m], v.sortBy), SortKey(bs[n], v.sortBy), v)}

(* Of what was there to be seen and was not, as many matches come before it *)
(* as fit on the pages sent; on the last page there is nothing of it.       *)
BrowseInv == (Reading /\ ~disturbed) =>
    /\ ~Tied(backups, MatchesIn(backups), asked.sortBy)
    /\ expected \subseteq MatchesIn(backups)
    /\ \A n \in expected \ seen :
          Cardinality(Ahead(backups, asked, n)) >= answer.page * answer.pageSize
    /\ OnLastPage => expected \subseteq seen

-------------------------------------------------------------------------------
(* Both keys a listing may be sorted by are numbers.                        *)
LEMMA KeysAreNumbers ==
    ASSUME NEW bs, IsLog(bs), NEW n \in DOMAIN bs, NEW sortBy
    PROVE  SortKey(bs[n], sortBy) \in Nat
  BY DEF SortKey, CreatedAt, IsLog, Record, Ids

(* The sequences of a finite set list all of it.                            *)
LEMMA ListedWhole ==
    ASSUME NEW S, IsFiniteSet(S), NEW rows \in SetToSeqs(S)
    PROVE  /\ Cardinality(S) \in Nat /\ DOMAIN rows = 1..Cardinality(S)
           /\ Len(rows) = Cardinality(S)
           /\ rows \in [1..Cardinality(S) -> S]
           /\ \A i, j \in 1..Cardinality(S) : rows[i] = rows[j] => i = j
           /\ \A n \in S : \E i \in 1..Cardinality(S) : rows[i] = n
  <1> DEFINE D == 1..Cardinality(S)
  <1>1. Cardinality(S) \in Nat
    BY FS_CardinalityType
  <1>2. IsFiniteSet(D) /\ Cardinality(D) = Cardinality(S)
    BY <1>1, FS_Interval
  <1>3. rows \in Injection(D, S)
    BY DEF SetToSeqs, Injection, IsInjective
  <1>4. rows \in Surjection(D, S)
    <2> HIDE DEF D
    <2> QED BY <1>2, <1>3, FS_Injection
  <1>5. Len(rows) = Cardinality(S)
    BY <1>1 DEF SetToSeqs
  <1> QED BY <1>1, <1>3, <1>4, <1>5 DEF Injection, Surjection, SetToSeqs

(* The place of a match in a page's rows tells how many come before it.     *)
LEMMA PlaceIsRank ==
    ASSUME NEW bs, IsLog(bs), IsFiniteSet(DOMAIN bs), NEW v \in Visit,
           NEW rows \in Rankings(bs, v),
           ~Tied(bs, applyFilters(bs, v.question), v.sortBy),
           NEW i \in 1..Len(rows)
    PROVE  Cardinality(Ahead(bs, v, rows[i])) = i - 1
  <1> DEFINE S == applyFilters(bs, v.question)
             key(n) == SortKey(bs[n], v.sortBy)
             first == 1..(i - 1)
             f == [j \in first |-> rows[j]]
             ahead == Ahead(bs, v, rows[i])
  <1>1. S \subseteq DOMAIN bs /\ IsFiniteSet(S)
    <2>1. S \subseteq DOMAIN bs
      BY DEF applyFilters
    <2> QED BY <2>1, FS_Subset
  <1>2. \A n \in S : key(n) \in Nat
    BY <1>1, KeysAreNumbers
  <1>3. rows \in SetToSeqs(S) /\ InOrder(rows, bs, v)
    BY DEF Rankings
  <1>4. /\ Cardinality(S) \in Nat /\ DOMAIN rows = 1..Cardinality(S) /\ Len(rows) = Cardinality(S)
        /\ \A j \in 1..Cardinality(S) : rows[j] \in S
        /\ \A j, k \in 1..Cardinality(S) : rows[j] = rows[k] => j = k
        /\ \A n \in S : \E j \in 1..Cardinality(S) : rows[j] = n
    <2> HIDE DEF S
    <2> QED BY <1>1, <1>3, ListedWhole
  <1>5. \A j, k \in 1..Cardinality(S) : j < k => Precedes(key(rows[j]), key(rows[k]), v)
    <2> SUFFICES ASSUME NEW j \in 1..Cardinality(S), NEW k \in 1..Cardinality(S), j < k
                 PROVE  Precedes(key(rows[j]), key(rows[k]), v)
      OBVIOUS
    <2>1. key(rows[j]) # key(rows[k])
      <3>1. rows[j] \in S /\ rows[k] \in S /\ rows[j] # rows[k]
        BY <1>4
      <3> QED BY <3>1 DEF Tied
    <2>2. IF v.sortOrder = "asc" THEN key(rows[j]) <= key(rows[k]) ELSE key(rows[j]) >= key(rows[k])
      BY <1>3, <1>4 DEF InOrder
    <2> QED BY <1>2, <1>4, <2>1, <2>2 DEF Precedes
  <1>6. i \in 1..Cardinality(S) /\ ahead = {n \in S : Precedes(key(n), key(rows[i]), v)}
    BY <1>4 DEF Ahead
  <1> HIDE DEF S, key
  <1>7. f \in Bijection(first, ahead)
    <2>1. \A j \in first : j \in 1..Cardinality(S) /\ j < i
      BY <1>4, <1>6
    <2>2. \A j \in first : rows[j] \in ahead
      BY <1>4, <1>5, <1>6, <2>1
    <2>3. \A n \in ahead : \E j \in first : rows[j] = n
      <3> SUFFICES ASSUME NEW n \in ahead PROVE \E j \in first : rows[j] = n
        OBVIOUS
      <3>1. n \in S /\ Precedes(key(n), key(rows[i]), v)
        BY <1>6
      <3>2. PICK j \in 1..Cardinality(S) : rows[j] = n
        BY <1>4, <3>1
      <3>3. ~(i < j) /\ i # j
        <4>1. key(n) \in Nat /\ key(rows[i]) \in Nat
          BY <1>2, <1>4, <1>6, <3>1
        <4>2. ~Precedes(key(rows[i]), key(n), v) /\ key(n) # key(rows[i])
          BY <3>1, <4>1 DEF Precedes
        <4> QED BY <1>5, <1>6, <3>2, <4>2
      <3> QED BY <1>4, <1>6, <3>2, <3>3
    <2>4. \A j, k \in first : rows[j] = rows[k] => j = k
      BY <1>4, <2>1
    <2> HIDE DEF first, ahead
    <2>5. f \in [first -> ahead]
      BY <2>2
    <2> QED BY <2>3, <2>4, <2>5 DEF Bijection, Injection, Surjection, IsInjective
  <1>8. IsFiniteSet(first) /\ Cardinality(first) = i - 1
    <2>1. i - 1 \in Nat
      BY <1>4, <1>6
    <2> QED BY <2>1, FS_Interval
  <1> HIDE DEF first, f, ahead
  <1>9. Cardinality(ahead) = Cardinality(first)
    BY <1>7, <1>8, FS_Bijection DEF ExistsBijection
  <1> QED BY <1>8, <1>9 DEF ahead

-------------------------------------------------------------------------------
(* More pages hold more.                                                    *)
LEMMA TimesGrows ==
    ASSUME NEW a \in Nat, NEW b \in Nat, NEW s \in Nat, a <= b
    PROVE  a * s <= b * s
  <1>1. b - a \in Nat /\ b = a + (b - a)
    OBVIOUS
  <1>2. (b - a) * s \in Nat
    BY <1>1
  <1>3. b * s = a * s + (b - a) * s
    OBVIOUS
  <1> QED BY <1>2, <1>3

(* As many pages are counted as the rows fill, the last one perhaps in part.*)
LEMMA PagesCounted ==
    ASSUME NEW total \in Nat, NEW s \in Nat \ {0}
    PROVE  LET pages == (total \div s) + (IF total % s > 0 THEN 1 ELSE 0)
           IN  /\ pages \in Nat /\ total <= pages * s
               /\ pages > 0 => (pages - 1) * s < total
  <1> DEFINE k == total \div s
             r == total % s
             pages == k + (IF r > 0 THEN 1 ELSE 0)
  <1>1. k \in Nat /\ r \in 0..(s - 1) /\ total = s * k + r
    OBVIOUS
  <1> HIDE DEF k, r
  <1> DEFINE Counted == /\ pages \in Nat /\ total <= pages * s
                        /\ pages > 0 => (pages - 1) * s < total
  <1>2. ASSUME r > 0 PROVE Counted
    <2>1. pages = k + 1 /\ pages * s = s * k + s /\ (pages - 1) * s = s * k /\ s * k \in Nat
      BY <1>1, <1>2
    <2> HIDE DEF pages
    <2> QED BY <1>1, <1>2, <2>1
  <1>3. ASSUME ~(r > 0) PROVE Counted
    <2>1. pages = k /\ pages * s = s * k /\ (pages - 1) * s = s * k - s /\ r = 0 /\ s * k \in Nat
      BY <1>1, <1>3
    <2> HIDE DEF pages
    <2> QED BY <1>1, <1>3, <2>1
  <1>4. Counted
    BY <1>2, <1>3
  <1> QED BY <1>4 DEF k, r

(* The page that is cut out of rows: what it says and what is on it.        *)
LEMMA PageFacts ==
    ASSUME NEW S, NEW rows \in Seq(S), NEW v \in Visit
    PROVE  LET page == GetBackupsPaginated(rows, v)
               s == SizeInForce(v)
               offset == (PageInForce(v) - 1) * s
           IN  /\ page.page = PageInForce(v) /\ PageInForce(v) \in Nat \ {0}
               /\ page.pageSize = s /\ s \in Nat \ {0}
               /\ page.total = Len(rows) /\ offset \in Nat
               /\ page.page * s = offset + s
               /\ page.totalPages \in Nat /\ Len(rows) <= page.totalPages * s
               /\ page.totalPages > 0 => (page.totalPages - 1) * s < Len(rows)
               /\ page.data \in Seq(S)
               /\ Len(page.data) = IF Len(rows) <= offset THEN 0
                                   ELSE Least(offset + s, Len(rows)) - offset
               /\ \A i \in 1..Len(page.data) : page.data[i] = rows[offset + i]
               /\ \A i \in 1..Len(rows) :
                     offset < i /\ i <= offset + s => rows[i] \in ToSet(page.data)
  <1> DEFINE page == GetBackupsPaginated(rows, v)
             p == PageInForce(v)
             s == SizeInForce(v)
             offset == (p - 1) * s
             n == Len(rows)
             end == Least(offset + s, n)
  <1>1. p \in Nat \ {0} /\ s \in Nat \ {0} /\ n \in Nat
    BY ListingAssumption DEF Visit, PageInForce, SizeInForce, Least
  <1>2. /\ page.page = p /\ page.pageSize = s /\ page.total = n
        /\ page.data = SubSeq(rows, offset + 1, end)
        /\ page.totalPages = (n \div s) + (IF n % s > 0 THEN 1 ELSE 0)
    BY DEF GetBackupsPaginated, PageFrom
  <1> HIDE DEF page, p, s, n
  <1>3. offset \in Nat /\ p * s = offset + s
    BY <1>1
  <1>4. page.totalPages \in Nat /\ n <= page.totalPages * s
        /\ (page.totalPages > 0 => (page.totalPages - 1) * s < n)
    BY <1>1, <1>2, PagesCounted
  <1> HIDE DEF offset
  <1>5. end \in Nat /\ end <= n /\ end <= offset + s /\ (end = n \/ end = offset + s)
    BY <1>1, <1>3 DEF Least
  <1> HIDE DEF end
  <1> DEFINE Cut ==
            /\ page.data \in Seq(S)
            /\ Len(page.data) = IF n <= offset THEN 0 ELSE end - offset
            /\ \A i \in 1..Len(page.data) : page.data[i] = rows[offset + i]
            /\ \A i \in 1..n : offset < i /\ i <= offset + s => rows[i] \in ToSet(page.data)
  <1>6. ASSUME n <= offset PROVE Cut
    <2>1. page.data = << >>
      <3>1. end < offset + 1
        BY <1>1, <1>3, <1>5, <1>6
      <3> QED BY <1>1, <1>2, <1>3, <1>5, <3>1
    <2> QED BY <1>1, <1>3, <1>6, <2>1
  <1>7. ASSUME offset < n PROVE Cut
    <2>1. page.data \in Seq(S) /\ Len(page.data) = end - offset
      <3>1. offset + 1 \in 1..(end + 1) /\ end \in 0..n /\ end - (offset + 1) + 1 = end - offset
        BY <1>1, <1>3, <1>5, <1>7
      <3>2. offset + 1 \in Nat /\ end \in 0..Len(rows) /\ offset + 1 <= end + 1
        BY <1>3, <1>5, <3>1 DEF n
      <3> QED BY <1>2, <3>1, <3>2
    <2>2. ASSUME NEW i \in 1..n, offset < i, i <= offset + s
          PROVE  rows[i] \in ToSet(page.data)
      <3>1. i - offset \in 1..(end - offset)
        BY <1>1, <1>3, <1>5, <2>2
      <3>2. page.data[i - offset] = rows[i]
        BY <1>1, <1>2, <1>3, <1>5, <3>1 DEF n
      <3>3. i - offset \in DOMAIN page.data
        BY <2>1, <3>1
      <3> QED BY <3>2, <3>3 DEF ToSet
    <2>3. ASSUME NEW i \in 1..Len(page.data) PROVE page.data[i] = rows[offset + i]
      <3>1. i \in 1..(end - offset)
        BY <2>1
      <3> QED BY <1>1, <1>2, <1>3, <1>5, <3>1 DEF n
    <2> QED BY <1>1, <1>3, <1>7, <2>1, <2>2, <2>3
  <1>8. Cut
    BY <1>1, <1>3, <1>6, <1>7
  <1>9. page.page = p /\ page.page * s = offset + s
    BY <1>2, <1>3
  <1>10. page.pageSize = s /\ page.total = n
    BY <1>2
  <1> QED BY <1>1, <1>3, <1>4, <1>8, <1>9, <1>10 DEF page, p, s, offset, n, end

-------------------------------------------------------------------------------
(* Every edit is a log in the place of another, under numbers given out.    *)
LEMMA EditsAreLogs ==
    ASSUME LogInv, Edit
    PROVE  \E bs : Becomes(bs) /\ IsLog(bs) /\ DOMAIN bs \subseteq 1..(edits + 1)
  <1>1. edits \in Nat /\ now \in Nat /\ IsLog(backups) /\ DOMAIN backups \subseteq 1..(edits + 1)
    BY ListingAssumption DEF LogInv
  <1>2. ASSUME NEW t \in Targets, Create(t) PROVE \E bs : Becomes(bs) /\ IsLog(bs) /\ DOMAIN bs \subseteq 1..(edits + 1)
    <2>1. IsLog(WithNew(backups, edits + 1, t, now))
      BY <1>1, WithNewType DEF Numbers
    <2>2. DOMAIN WithNew(backups, edits + 1, t, now) \subseteq 1..(edits + 1)
      <3>1. DOMAIN WithNew(backups, edits + 1, t, now) = DOMAIN backups \cup {edits + 1}
        BY DEF WithNew
      <3>2. edits + 1 \in 1..(edits + 1)
        BY <1>1
      <3> QED BY <1>1, <3>1, <3>2
    <2> QED BY <1>2, <2>1, <2>2 DEF Create
  <1>3. ASSUME NEW n, NEW status \in {"success", "error"}, NEW size \in Sizes \cup {0},
               Settle(n, status, size)
        PROVE \E bs : Becomes(bs) /\ IsLog(bs) /\ DOMAIN bs \subseteq 1..(edits + 1)
    <2> DEFINE bs == WithStatus(backups, backups[n].id, status, {}, size, now)
    <2>1. IsLog(bs)
      <3>1. size \in Nat /\ status \in Statuses /\ {} \in SUBSET Organisations
        BY ListingAssumption DEF Statuses
      <3> QED BY <1>1, <3>1, WithStatusType
    <2>2. DOMAIN bs = DOMAIN backups
      BY EditDomains
    <2> QED BY <1>1, <1>3, <2>1, <2>2 DEF Settle
  <1>4. ASSUME NEW n, Upload(n)
        PROVE \E bs : Becomes(bs) /\ IsLog(bs) /\ DOMAIN bs \subseteq 1..(edits + 1)
    <2>1. IsLog(WithUpload(backups, backups[n].id, "success"))
      BY <1>1, WithUploadType DEF Statuses
    <2> QED BY <1>1, <1>4, <2>1, EditDomains DEF Upload
  <1>5. ASSUME NEW n, Delete(n)
        PROVE \E bs : Becomes(bs) /\ IsLog(bs) /\ DOMAIN bs \subseteq 1..(edits + 1)
    BY <1>1, <1>5, WithDeletionType, EditDomains DEF Delete
  <1>6. ASSUME Purge
        PROVE \E bs : Becomes(bs) /\ IsLog(bs) /\ DOMAIN bs \subseteq 1..(edits + 1)
    <2>1. IsLog(Purged(backups, now)) /\ DOMAIN Purged(backups, now) \subseteq DOMAIN backups
      BY <1>1, PurgedType, EditDomains
    <2> QED BY <1>1, <1>6, <2>1 DEF Purge
  <1> QED BY <1>2, <1>3, <1>4, <1>5, <1>6 DEF Edit

(* Every step keeps the log a log.                                          *)
LEMMA LogStep == LogInv /\ [Next]_vars => LogInv'
  <1> SUFFICES ASSUME LogInv, [Next]_vars PROVE LogInv'
    OBVIOUS
  <1>1. CASE Edit
    <2>1. PICK bs : Becomes(bs) /\ IsLog(bs) /\ DOMAIN bs \subseteq 1..(edits + 1)
      BY <1>1, EditsAreLogs
    <2>2. backups' = bs /\ edits' = edits + 1 /\ now' = now
      BY <2>1 DEF Becomes
    <2>3. edits' \in Nat /\ now' \in Moments
      BY <2>2 DEF LogInv
    <2>4. IsLog(backups') /\ DOMAIN backups' \subseteq 1..edits'
      BY <2>1, <2>2
    <2> QED BY <2>3, <2>4 DEF LogInv
  <1>2. CASE Tick
    BY <1>2 DEF Tick, LogInv
  <1>3. CASE Read \/ UNCHANGED vars
    <2>1. UNCHANGED log
      BY <1>3 DEF Read, NextPage, Leave, Open, handleBackups, vars
    <2> QED BY <2>1 DEF log, LogInv
  <1> QED BY <1>1, <1>2, <1>3 DEF Next

(* A log has finitely many matches, and the matches are numbers.            *)
LEMMA MatchesAreFinite ==
    ASSUME LogInv, NEW q
    PROVE  /\ IsFiniteSet(DOMAIN backups) /\ IsFiniteSet(applyFilters(backups, q))
           /\ applyFilters(backups, q) \subseteq DOMAIN backups /\ DOMAIN backups \subseteq Nat
  <1>1. IsFiniteSet(DOMAIN backups) /\ DOMAIN backups \subseteq Nat
    <2>1. edits \in Nat /\ DOMAIN backups \subseteq 1..edits
      BY DEF LogInv
    <2>2. IsFiniteSet(1..edits)
      BY <2>1, FS_Interval
    <2>3. IsFiniteSet(DOMAIN backups)
      BY <2>1, <2>2, FS_Subset
    <2> QED BY <2>1, <2>3
  <1>2. applyFilters(backups, q) \subseteq DOMAIN backups
    BY DEF applyFilters
  <1> QED BY <1>1, <1>2, FS_Subset

(* A ranking is a sequence of numbers.                                      *)
LEMMA RankingsAreRows ==
    ASSUME LogInv, NEW v, NEW rows \in Rankings(backups, v)
    PROVE  rows \in Seq(Nat)
  <1> DEFINE S == applyFilters(backups, v.question)
  <1>1. IsFiniteSet(S) /\ S \subseteq Nat
    BY MatchesAreFinite
  <1>2. rows \in SetToSeqs(S)
    BY DEF Rankings
  <1> HIDE DEF S
  <1>3. Cardinality(S) \in Nat /\ rows \in [1..Cardinality(S) -> S]
    BY <1>1, <1>2, ListedWhole
  <1>4. rows \in [1..Cardinality(S) -> Nat]
    BY <1>1, <1>3
  <1> QED BY <1>3, <1>4

(* Another page of what was asked is a visit.                               *)
LEMMA PagesAreVisits ==
    ASSUME NEW v \in Visit
    PROVE  /\ v # NothingAsked
           /\ \A page \in Int : [v EXCEPT !.page = page] \in Visit
  <1>1. v # NothingAsked
    <2>1. DOMAIN v = {"question", "page", "pageSize", "sortBy", "sortOrder"}
      BY DEF Visit
    <2>2. DOMAIN NothingAsked = {"page"}
      BY DEF NothingAsked
    <2> QED BY <2>1, <2>2
  <1>2. ASSUME NEW page \in Int PROVE [v EXCEPT !.page = page] \in Visit
    BY <1>2 DEF Visit
  <1> QED BY <1>1, <1>2

(* Steps of the reader, as visits of pages.                                 *)
LEMMA ReadSteps ==
    ASSUME AskInv, Read
    PROVE  \/ \E v \in Visit : Open(v) /\ v.page <= 1
           \/ NextPage /\ asked \in Visit
           \/ Leave
  <1>1. ASSUME NEW v \in Visits, Open(v) PROVE \E w \in Visit : Open(w) /\ w.page <= 1
    BY <1>1, ListingAssumption
  <1>2. CASE NextPage
    BY <1>2 DEF NextPage, Reading, AskInv
  <1> QED BY <1>1, <1>2 DEF Read

(* Every page asked for is a visit, and every answer one to it.             *)
LEMMA AskStep == LogInv /\ AskInv /\ [Next]_vars => AskInv'
  <1> SUFFICES ASSUME LogInv, AskInv, [Next]_vars PROVE AskInv'
    OBVIOUS
  <1>1. CASE UNCHANGED <<asked, answer>>
    BY <1>1 DEF AskInv, Reading
  <1>2. ASSUME NEW v \in Visit, handleBackups(v) PROVE AskInv'
    <2>1. PICK rows \in Rankings(backups, v) : answer' = GetBackupsPaginated(rows, v)
      BY <1>2 DEF handleBackups
    <2>2. asked' = v /\ rows \in Seq(Nat)
      BY <1>2, RankingsAreRows DEF handleBackups
    <2> QED BY <2>1, <2>2 DEF AskInv
  <1>3. CASE Read
    <2>1. ASSUME NEW v \in Visit, Open(v) PROVE AskInv'
      BY <1>2, <2>1 DEF Open
    <2>2. ASSUME asked \in Visit, NextPage PROVE AskInv'
      <3>1. [asked EXCEPT !.page = PageInForce(asked) + 1] \in Visit
        <4>1. PageInForce(asked) + 1 \in Int
          BY <2>2 DEF PageInForce, Visit
        <4> QED BY <2>2, <4>1, PagesAreVisits
      <3> QED BY <1>2, <2>2, <3>1 DEF NextPage
    <2>3. CASE Leave
      BY <2>3 DEF Leave, AskInv, Reading
    <2> QED BY <1>3, <2>1, <2>2, <2>3, ReadSteps
  <1>4. CASE Edit \/ Tick
    <2>1. UNCHANGED <<asked, answer>>
      BY <1>4, EditsAreLogs DEF Becomes, Tick
    <2> QED BY <1>1, <2>1
  <1> QED BY <1>1, <1>3, <1>4 DEF Next, vars

-------------------------------------------------------------------------------
(* Where a match is found: a page shows those with as many ahead of them as *)
(* there is room on the pages before it, and not more than on it as well;   *)
(* on the last page no match has more ahead of it than that.                *)
LEMMA PageShows ==
    ASSUME LogInv, NEW v \in Visit, NEW rows \in Rankings(backups, v),
           ~Tied(backups, applyFilters(backups, v.question), v.sortBy),
           NEW n \in applyFilters(backups, v.question)
    PROVE  LET before == Cardinality(Ahead(backups, v, n))
               a == GetBackupsPaginated(rows, v)
           IN  /\ before \in Nat
               /\ a.page = PageInForce(v) /\ a.pageSize = SizeInForce(v)
               /\ (PageInForce(v) - 1) * SizeInForce(v) <= before
                     /\ before < a.page * a.pageSize => n \in ToSet(a.data)
               /\ a.page >= a.totalPages => before < a.page * a.pageSize
  <1> DEFINE S == applyFilters(backups, v.question)
             before == Cardinality(Ahead(backups, v, n))
             a == GetBackupsPaginated(rows, v)
             s == SizeInForce(v)
             offset == (PageInForce(v) - 1) * s
  <1>1. IsLog(backups) /\ IsFiniteSet(DOMAIN backups) /\ IsFiniteSet(S) /\ S \subseteq DOMAIN backups
    BY MatchesAreFinite DEF LogInv
  <1>2. before \in Nat
    <2>1. Ahead(backups, v, n) \subseteq S
      BY DEF Ahead
    <2>2. IsFiniteSet(Ahead(backups, v, n))
      BY <1>1, <2>1, FS_Subset
    <2> QED BY <2>2, FS_CardinalityType
  <1>3. /\ a.page = PageInForce(v) /\ a.pageSize = s
        /\ a.page \in Nat /\ s \in Nat /\ offset \in Nat /\ a.page * s = offset + s
        /\ a.totalPages \in Nat /\ Len(rows) <= a.totalPages * s
        /\ \A i \in 1..Len(rows) :
              offset < i /\ i <= offset + s => rows[i] \in ToSet(a.data)
    <2>1. rows \in Seq(Nat)
      BY RankingsAreRows
    <2> QED BY <2>1, PageFacts
  <1>4. PICK i \in 1..Len(rows) : rows[i] = n
    <2>1. rows \in SetToSeqs(S) /\ n \in S
      BY DEF Rankings
    <2> HIDE DEF S
    <2> QED BY <1>1, <2>1, ListedWhole
  <1>5. before = i - 1
    BY <1>1, <1>4, PlaceIsRank
  <1>6. i \in Nat /\ Len(rows) \in Nat /\ i <= Len(rows)
    <2>1. rows \in Seq(Nat)
      BY RankingsAreRows
    <2> QED BY <1>4, <2>1
  <1> HIDE DEF before, offset, s, a
  <1>7. offset <= before /\ before < a.page * s => n \in ToSet(a.data)
    BY <1>3, <1>4, <1>5, <1>6
  <1>8. ASSUME a.page >= a.totalPages PROVE before < a.page * s
    <2>1. a.totalPages * s <= a.page * s
      BY <1>3, <1>8, TimesGrows
    <2> QED BY <1>3, <1>5, <1>6, <2>1
  <1> QED BY <1>2, <1>3, <1>7, <1>8 DEF before, offset, s, a

(* The first page of a listing.                                             *)
LEMMA OpenStep ==
    ASSUME LogInv, NEW v \in Visit, v.page <= 1, Open(v)
    PROVE  BrowseInv'
  <1> DEFINE S == applyFilters(backups, v.question)
  <1>0. PICK rows \in Rankings(backups, v) : answer' = GetBackupsPaginated(rows, v)
    BY DEF Open, handleBackups
  <1>1. /\ asked' = v /\ UNCHANGED backups
        /\ expected' = S /\ disturbed' = Tied(backups, S, v.sortBy)
        /\ seen' = ToSet(answer'.data)
    BY DEF Open, handleBackups, log
  <1>2. Reading' /\ MatchesIn(backups)' = S
    BY <1>1, PagesAreVisits DEF Reading, MatchesIn
  <1>3. PageInForce(v) = 1 /\ SizeInForce(v) \in Nat /\ (PageInForce(v) - 1) * SizeInForce(v) = 0
    <2>1. PageInForce(v) = 1
      BY DEF PageInForce, Visit
    <2>2. SizeInForce(v) \in Nat
      BY ListingAssumption DEF SizeInForce, Visit, Least
    <2> QED BY <2>1, <2>2
  <1>4. CASE disturbed'
    BY <1>4 DEF BrowseInv
  <1>5. CASE ~disturbed'
    <2>1. ~Tied(backups, S, v.sortBy)
      BY <1>1, <1>5
    <2>2. ASSUME NEW n \in S \ ToSet(answer'.data)
          PROVE  /\ Cardinality(Ahead(backups, v, n)) >= answer'.page * answer'.pageSize
                 /\ ~(answer'.page >= answer'.totalPages)
      <3> DEFINE before == Cardinality(Ahead(backups, v, n))
      <3>1. /\ before \in Nat
            /\ answer'.page = PageInForce(v) /\ answer'.pageSize = SizeInForce(v)
            /\ ~((PageInForce(v) - 1) * SizeInForce(v) <= before
                    /\ before < answer'.page * answer'.pageSize)
            /\ answer'.page >= answer'.totalPages => before < answer'.page * answer'.pageSize
        BY <1>0, <1>1, <2>1, PageShows
      <3> HIDE DEF before
      <3>2. answer'.page * answer'.pageSize \in Nat
        BY <1>3, <3>1
      <3>3. before >= answer'.page * answer'.pageSize
        BY <1>3, <3>1, <3>2
      <3> QED BY <3>1, <3>2, <3>3 DEF before
    <2>3. ~Tied(backups, MatchesIn(backups), asked.sortBy)'
      BY <1>1, <1>2, <2>1 DEF Tied
    <2>4. (expected \subseteq MatchesIn(backups))'
      BY <1>1, <1>2
    <2>5. (\A n \in expected \ seen :
              Cardinality(Ahead(backups, asked, n)) >= answer.page * answer.pageSize)'
      BY <1>1, <2>2
    <2>6. (OnLastPage => expected \subseteq seen)'
      BY <1>1, <2>2 DEF OnLastPage
    <2> QED BY <2>3, <2>4, <2>5, <2>6 DEF BrowseInv
  <1> QED BY <1>4, <1>5

(* The page after another.                                                  *)
LEMMA NextPageStep ==
    ASSUME LogInv, AskInv, BrowseInv, asked \in Visit, NextPage
    PROVE  BrowseInv'
  <1> DEFINE v == [asked EXCEPT !.page = PageInForce(asked) + 1]
             S == applyFilters(backups, v.question)
  <1>0. PICK rows \in Rankings(backups, v) : answer' = GetBackupsPaginated(rows, v)
    BY DEF NextPage, handleBackups
  <1>1. /\ asked' = v /\ UNCHANGED backups
        /\ UNCHANGED <<expected, disturbed>> /\ seen' = seen \cup ToSet(answer'.data)
        /\ Reading
    BY DEF NextPage, handleBackups, log
  <1>2. /\ v \in Visit
        /\ v.question = asked.question /\ v.sortBy = asked.sortBy /\ v.sortOrder = asked.sortOrder
        /\ PageInForce(v) = PageInForce(asked) + 1 /\ SizeInForce(v) = SizeInForce(asked)
        /\ PageInForce(asked) \in Nat /\ SizeInForce(asked) \in Nat
    <2>1. PageInForce(asked) \in Nat \ {0}
      BY DEF PageInForce, Visit
    <2>2. v \in Visit
      BY <2>1, PagesAreVisits
    <2>3. /\ v.question = asked.question /\ v.sortBy = asked.sortBy
          /\ v.sortOrder = asked.sortOrder /\ v.pageSize = asked.pageSize
          /\ v.page = PageInForce(asked) + 1
      BY DEF Visit
    <2> HIDE DEF v
    <2>4. PageInForce(v) = PageInForce(asked) + 1
      <3>1. ~(v.page < 1)
        BY <2>1, <2>3
      <3> QED BY <2>3, <3>1 DEF PageInForce
    <2>5. SizeInForce(v) = SizeInForce(asked) /\ SizeInForce(asked) \in Nat
      BY <2>3, ListingAssumption DEF SizeInForce, Visit, Least
    <2> QED BY <2>1, <2>2, <2>3, <2>4, <2>5
  <1>3. answer.page = PageInForce(asked) /\ answer.pageSize = SizeInForce(asked)
    <2>1. PICK before \in Seq(Nat) : answer = GetBackupsPaginated(before, asked)
      BY <1>1 DEF AskInv
    <2> QED BY <2>1, PageFacts
  <1> HIDE DEF v
  <1>4. Reading' /\ MatchesIn(backups)' = S /\ MatchesIn(backups) = S
    BY <1>1, <1>2, PagesAreVisits DEF Reading, MatchesIn
  <1>5. \A n : Ahead(backups, v, n) = Ahead(backups, asked, n)
    BY <1>2 DEF Ahead, Precedes
  <1>6. CASE disturbed'
    BY <1>6 DEF BrowseInv
  <1>7. CASE ~disturbed'
    <2>1. /\ ~Tied(backups, S, v.sortBy) /\ expected \subseteq S
          /\ \A n \in expected \ seen :
                Cardinality(Ahead(backups, asked, n)) >= answer.page * answer.pageSize
      BY <1>1, <1>2, <1>4, <1>7 DEF BrowseInv
    <2>2. ASSUME NEW n \in expected' \ seen'
          PROVE  /\ Cardinality(Ahead(backups, v, n)) >= answer'.page * answer'.pageSize
                 /\ ~(answer'.page >= answer'.totalPages)
      <3> DEFINE before == Cardinality(Ahead(backups, v, n))
      <3>1. n \in S /\ n \notin ToSet(answer'.data) /\ n \in expected \ seen
        BY <1>1, <2>1
      <3>2. /\ before \in Nat
            /\ answer'.page = PageInForce(v) /\ answer'.pageSize = SizeInForce(v)
            /\ ~((PageInForce(v) - 1) * SizeInForce(v) <= before
                    /\ before < answer'.page * answer'.pageSize)
            /\ answer'.page >= answer'.totalPages => before < answer'.page * answer'.pageSize
        BY <1>0, <1>1, <1>2, <2>1, <3>1, PageShows
      <3>3. before >= answer.page * answer.pageSize
        BY <1>5, <2>1, <3>1
      <3> HIDE DEF before
      <3>4. (PageInForce(v) - 1) * SizeInForce(v) = answer.page * answer.pageSize
        BY <1>2, <1>3
      <3>5. answer'.page * answer'.pageSize \in Nat
        BY <1>2, <3>2
      <3>6. before >= answer'.page * answer'.pageSize
        BY <3>2, <3>3, <3>4, <3>5
      <3> QED BY <3>2, <3>5, <3>6 DEF before
    <2>3. ~Tied(backups, MatchesIn(backups), asked.sortBy)'
      BY <1>1, <1>4, <2>1 DEF Tied
    <2>4. (expected \subseteq MatchesIn(backups))'
      BY <1>1, <1>4, <2>1
    <2>5. (\A n \in expected \ seen :
              Cardinality(Ahead(backups, asked, n)) >= answer.page * answer.pageSize)'
      BY <1>1, <2>2
    <2>6. (OnLastPage => expected \subseteq seen)'
      BY <2>2 DEF OnLastPage
    <2> QED BY <2>3, <2>4, <2>5, <2>6 DEF BrowseInv
  <1> QED BY <1>6, <1>7

(* An edit under the reader's eyes, which can only put more ahead.          *)
LEMMA EditKeepsPlaces ==
    ASSUME LogInv, AskInv, BrowseInv, Edit
    PROVE  BrowseInv'
  <1>1. PICK bs : Becomes(bs) /\ IsLog(bs) /\ DOMAIN bs \subseteq 1..(edits + 1)
    BY EditsAreLogs
  <1>2. /\ backups' = bs /\ expected' = expected \cap MatchesIn(bs)
        /\ UNCHANGED <<asked, answer, seen>>
    BY <1>1 DEF Becomes
  <1>3. CASE disturbed' \/ ~Reading
    BY <1>2, <1>3 DEF BrowseInv, Reading
  <1>4. CASE ~disturbed' /\ Reading
    <2>1. /\ ~disturbed /\ ~Tied(bs, MatchesIn(bs), asked.sortBy)
          /\ \A n \in MatchesIn(backups) : n \in MatchesIn(bs) /\ KeyIn(bs, n) = KeyIn(backups, n)
      BY <1>1, <1>4 DEF Becomes
    <2>2. /\ expected \subseteq MatchesIn(backups)
          /\ OnLastPage => expected \subseteq seen
          /\ \A n \in expected \ seen :
                Cardinality(Ahead(backups, asked, n)) >= answer.page * answer.pageSize
      BY <1>4, <2>1 DEF BrowseInv
    <2>3. MatchesIn(backups)' = MatchesIn(bs)
      BY <1>2 DEF MatchesIn, Reading
    <2>4. ~Tied(backups, MatchesIn(backups), asked.sortBy)'
      BY <1>2, <2>1, <2>3 DEF Tied
    <2>5. expected' \subseteq MatchesIn(backups)'
      BY <1>2, <2>3
    <2>6. \A n \in expected' \ seen :
             Cardinality(Ahead(bs, asked, n)) >= answer.page * answer.pageSize
      <3> SUFFICES ASSUME NEW n \in expected' \ seen
                   PROVE  Cardinality(Ahead(bs, asked, n)) >= answer.page * answer.pageSize
        OBVIOUS
      <3>1. n \in expected /\ n \in MatchesIn(backups)
        BY <1>2, <2>2
      <3>2. Ahead(backups, asked, n) \subseteq Ahead(bs, asked, n)
        <4> SUFFICES ASSUME NEW m \in Ahead(backups, asked, n) PROVE m \in Ahead(bs, asked, n)
          OBVIOUS
        <4>1. m \in MatchesIn(backups)
                /\ Precedes(KeyIn(backups, m), KeyIn(backups, n), asked)
          BY <1>4 DEF Ahead, MatchesIn, KeyIn
        <4>2. m \in MatchesIn(bs) /\ Precedes(KeyIn(bs, m), KeyIn(bs, n), asked)
          BY <2>1, <3>1, <4>1
        <4> QED BY <1>4, <4>2 DEF Ahead, MatchesIn, KeyIn
      <3>3. IsFiniteSet(Ahead(bs, asked, n))
        <4>1. Ahead(bs, asked, n) \subseteq 1..(edits + 1)
          BY <1>1 DEF Ahead, applyFilters
        <4>2. edits + 1 \in Nat
          BY DEF LogInv
        <4>3. IsFiniteSet(1..(edits + 1))
          BY <4>2, FS_Interval
        <4> QED BY <4>1, <4>3, FS_Subset
      <3>4. /\ Cardinality(Ahead(backups, asked, n)) <= Cardinality(Ahead(bs, asked, n))
            /\ Cardinality(Ahead(backups, asked, n)) \in Nat
            /\ Cardinality(Ahead(bs, asked, n)) \in Nat
        BY <3>2, <3>3, FS_Subset, FS_CardinalityType
      <3>5. Cardinality(Ahead(backups, asked, n)) >= answer.page * answer.pageSize
        BY <1>2, <2>2, <3>1
      <3>6. answer.page \in Int /\ answer.pageSize \in Int
        <4>1. asked \in Visit
          BY <1>4 DEF AskInv, Reading
        <4>2. PICK rows \in Seq(Nat) : answer = GetBackupsPaginated(rows, asked)
          BY <1>4 DEF AskInv
        <4>3. /\ answer.page = PageInForce(asked) /\ PageInForce(asked) \in Nat
              /\ answer.pageSize = SizeInForce(asked) /\ SizeInForce(asked) \in Nat
          BY <4>1, <4>2, PageFacts
        <4> QED BY <4>3
      <3>7. answer.page * answer.pageSize \in Int
        BY <3>6
      <3> QED BY <3>4, <3>5, <3>7
    <2>7. OnLastPage' => expected' \subseteq seen'
      BY <1>2, <2>2 DEF OnLastPage
    <2>8. (\A n \in expected \ seen :
              Cardinality(Ahead(backups, asked, n)) >= answer.page * answer.pageSize)'
      BY <1>2, <2>6
    <2> QED BY <2>4, <2>5, <2>7, <2>8 DEF BrowseInv
  <1> QED BY <1>3, <1>4

(* Every step keeps the places.                                             *)
LEMMA BrowseStep == LogInv /\ AskInv /\ BrowseInv /\ [Next]_vars => BrowseInv'
  <1> SUFFICES ASSUME LogInv, AskInv, BrowseInv, [Next]_vars PROVE BrowseInv'
    OBVIOUS
  <1>1. CASE Edit
    BY <1>1, EditKeepsPlaces
  <1>2. CASE Tick \/ UNCHANGED vars
    <2>1. UNCHANGED <<backups, asked, answer, expected, seen, disturbed>>
      BY <1>2 DEF Tick, vars, log
    <2> QED BY <2>1 DEF BrowseInv, Reading, MatchesIn, OnLastPage, Tied
  <1>3. CASE Leave
    BY <1>3 DEF Leave, BrowseInv, Reading
  <1>4. CASE Read /\ ~Leave
    <2>1. CASE \E v \in Visit : Open(v) /\ v.page <= 1
      BY <2>1, OpenStep
    <2>2. CASE NextPage /\ asked \in Visit
      BY <2>2, NextPageStep
    <2> QED BY <1>4, <2>1, <2>2, ReadSteps
  <1> QED BY <1>1, <1>2, <1>3, <1>4 DEF Next

(* Nothing is asked of an empty log in the beginning.                       *)
LEMMA Beginning == Init => LogInv /\ AskInv /\ BrowseInv
  <1> SUFFICES ASSUME Init PROVE LogInv /\ AskInv /\ BrowseInv
    OBVIOUS
  <1>1. LogInv
    BY EmptyLogType DEF Init, LogInv, EmptyLog
  <1>2. AskInv /\ BrowseInv
    BY DEF Init, AskInv, BrowseInv, Reading
  <1> QED BY <1>1, <1>2

(* The three parts hold together of every reachable state.                  *)
LEMMA ListingInvariant == Spec => [](LogInv /\ AskInv /\ BrowseInv)
  <1>1. Init => LogInv /\ AskInv /\ BrowseInv
    BY Beginning
  <1>2. LogInv /\ AskInv /\ BrowseInv /\ [Next]_vars => (LogInv /\ AskInv /\ BrowseInv)'
    BY LogStep, AskStep, BrowseStep
  <1> QED BY <1>1, <1>2, PTL DEF Spec

(* The records stay a log, and every page sent answers what was asked.      *)
THEOREM ListingType == Spec => [](LogInv /\ AskInv)
  BY ListingInvariant, PTL

(* Asking the API for every page of a listing to the last misses no backup  *)
(* that matched all along, whatever is created, settled, uploaded or        *)
(* deleted in between, as long as no match vanishes, moves or ties with     *)
(* another.                                                                 *)
THEOREM NothingIsMissed == Spec => []BrowsingMissesNothing
  <1>1. BrowseInv => BrowsingMissesNothing
    BY DEF BrowseInv, BrowsingMissesNothing
  <1> QED BY <1>1, ListingInvariant, PTL

-------------------------------------------------------------------------------
(* Whatever is asked, the listings give the same backups of a log.          *)
LEMMA SameAnswers ==
    ASSUME LogInv, NEW q \in Question,
           {q.start, q.end} \subseteq {NoDate, Garbled} \cup Nat
    PROVE  SameAnswer(q)
  <1> DEFINE byQuery == applyFilters(backups, q)
             byLoop == handleBackupsLegacy(backups, q)
             byPage(store) == BackupStatusPage(store, backups, q)
             named(store, n) == backups[n].target \in Wanted(store, q)
             found(by, n) == Finds(by, backups[n], q)
             made(n) == CreatedAt(backups[n])
  <1>1. /\ \A n \in DOMAIN backups : made(n) \in Nat
        /\ DayLength \in Nat /\ DayLength > 2
        /\ q.start \in Nat \cup {-1} /\ q.end \in Nat \cup {-1}
        /\ q.active \in BOOLEAN
    <2>1. \A n \in DOMAIN backups : made(n) \in Nat
      BY DEF LogInv, IsLog, Record, Ids, CreatedAt
    <2> QED BY <2>1, ListingAssumption DEF Question, NoDate, Garbled
  <1>2. /\ \A store \in Stores : \A n : named(store, n) => named("database", n)
        /\ \A n : found(FoundExactly, n) => found(FoundByLike, n)
        /\ \A n : found(FoundInAnyCase, n) => found(FoundByLike, n)
        /\ q.search \in Plain \cup {NoFilter} =>
              \A n : found(FoundByLike, n) => found(FoundInAnyCase, n)
    <2>1. \A store \in Stores : \A n : named(store, n) => named("database", n)
      BY DEF Wanted, IsName
    <2>2. q.search = NoFilter \/ q.search \in Texts
      BY DEF Question
    <2>3. /\ \A n : found(FoundExactly, n) => found(FoundByLike, n)
          /\ \A n : found(FoundInAnyCase, n) => found(FoundByLike, n)
      BY <2>2, ListingAssumption DEF Finds
    <2>4. q.search \in Plain \cup {NoFilter} =>
              \A n : found(FoundByLike, n) => found(FoundInAnyCase, n)
      BY ListingAssumption DEF Finds
    <2> QED BY <2>1, <2>3, <2>4
  <1>3. \A n : n \in byQuery <=>
           /\ n \in DOMAIN backups /\ named("database", n) /\ Between(backups[n], q)
           /\ IF q.status # NoFilter THEN backups[n].status = q.status
              ELSE q.active => backups[n].status = "success"
           /\ found(FoundByLike, n)
    BY DEF applyFilters
  <1>4. \A n : n \in byLoop <=>
           /\ n \in DOMAIN backups /\ named("file", n) /\ Between(backups[n], q)
           /\ q.active => backups[n].status = "success"
           /\ found(FoundExactly, n)
           /\ q.status # NoFilter => backups[n].status = q.status
    BY DEF handleBackupsLegacy, GetBackupsFiltered, Filtered
  <1>5. \A store, n : n \in byPage(store) <=>
           /\ n \in DOMAIN backups /\ named(store, n)
           /\ q.status \notin {NoFilter, "active"} => backups[n].status = q.status
           /\ Parsed(q.start) # NoTime => made(n) >= Parsed(q.start)
           /\ LastSecond(q) # NoTime => made(n) <= LastSecond(q)
           /\ found(FoundInAnyCase, n)
    <2> SUFFICES ASSUME NEW store, NEW n
                 PROVE  n \in byPage(store) <=>
                          /\ n \in DOMAIN backups /\ named(store, n)
                          /\ q.status \notin {NoFilter, "active"} => backups[n].status = q.status
                          /\ Parsed(q.start) # NoTime => made(n) >= Parsed(q.start)
                          /\ LastSecond(q) # NoTime => made(n) <= LastSecond(q)
                          /\ found(FoundInAnyCase, n)
      OBVIOUS
    <2>1. ~(q.status = "active" /\ q.status = NoFilter)
      BY Zenon DEF NoFilter
    <2>2. n \in GetBackupsFiltered(store, backups, q, q.status = "active" /\ q.status = NoFilter)
             <=> n \in DOMAIN backups /\ named(store, n)
      BY <2>1 DEF GetBackupsFiltered, Filtered
    <2> HIDE DEF named, found, made
    <2>3. n \in byPage(store) <=>
             /\ n \in GetBackupsFiltered(store, backups, q, q.status = "active" /\ q.status = NoFilter)
             /\ q.status \notin {NoFilter, "active"} => backups[n].status = q.status
             /\ Parsed(q.start) # NoTime => made(n) >= Parsed(q.start)
             /\ LastSecond(q) # NoTime => made(n) <= LastSecond(q)
             /\ found(FoundInAnyCase, n)
      BY DEF BackupStatusPage, made, found
    <2> HIDE DEF byPage
    <2> QED BY <2>2, <2>3
  <1>6. \A n \in DOMAIN backups : Between(backups[n], q) <=>
           (q.start > 0 => made(n) >= q.start) /\ (q.end > 0 => made(n) < q.end + DayLength)
    BY DEF Between, NoDate
  <1>7. /\ Parsed(q.start) = IF q.start = -1 THEN 0 ELSE q.start
        /\ LastSecond(q) = IF q.end = 0 THEN 0
                           ELSE IF q.end = -1 THEN DayLength - 2 ELSE q.end + DayLength - 2
    BY <1>1 DEF Parsed, LastSecond, Garbled, NoDate, NoTime, Second
  <1> HIDE DEF byQuery, byLoop, byPage, named, found, made
  <1>8. ASSUME NEW n \in DOMAIN backups
        PROVE  (q.start > 0 => made(n) >= q.start)
                  <=> (Parsed(q.start) # NoTime => made(n) >= Parsed(q.start))
    BY <1>1, <1>7 DEF NoTime
  <1>9. ASSUME NEW n \in DOMAIN backups, LastSecond(q) # NoTime => made(n) <= LastSecond(q)
        PROVE  q.end > 0 => made(n) < q.end + DayLength
    BY <1>1, <1>7, <1>9 DEF NoTime
  <1>10. q.status = NoFilter \/ ~q.active =>
            byLoop = {n \in byQuery : named("file", n) /\ found(FoundExactly, n)}
    <2>1. "file" \in Stores
      BY DEF Stores
    <2> SUFFICES ASSUME q.status = NoFilter \/ ~q.active, NEW n
                 PROVE  n \in byLoop <=> n \in byQuery /\ named("file", n) /\ found(FoundExactly, n)
      OBVIOUS
    <2>2. (q.active => backups[n].status = "success")
             /\ (q.status # NoFilter => backups[n].status = q.status)
          <=> IF q.status # NoFilter THEN backups[n].status = q.status
              ELSE q.active => backups[n].status = "success"
      OBVIOUS
    <2> QED BY <1>2, <1>3, <1>4, <2>1, <2>2
  <1>11. ASSUME q.status # "active", ~q.active, NEW store \in Stores
         PROVE  /\ byPage(store) \subseteq byQuery
                /\ q.end # Garbled =>
                      \A n \in byQuery \ byPage(store) :
                          \/ q.end # NoDate /\ made(n) > LastSecond(q)
                          \/ store = "file" /\ ~named(store, n)
                          \/ q.search \notin Plain \cup {NoFilter}
    <2>1. byPage(store) \subseteq byQuery
      <3> SUFFICES ASSUME NEW n \in byPage(store) PROVE n \in byQuery
        OBVIOUS
      <3>1. /\ n \in DOMAIN backups /\ named("database", n) /\ found(FoundByLike, n)
            /\ q.status # NoFilter => backups[n].status = q.status
        BY <1>2, <1>5, <1>11
      <3>2. Between(backups[n], q)
        BY <1>5, <1>6, <1>8, <1>9, <3>1
      <3> QED BY <1>3, <1>11, <3>1, <3>2
    <2>2. ASSUME q.end # Garbled, NEW n \in byQuery \ byPage(store),
                 ~(store = "file" /\ ~named(store, n)), q.search \in Plain \cup {NoFilter}
          PROVE  q.end # NoDate /\ made(n) > LastSecond(q)
      <3>1. /\ n \in DOMAIN backups /\ named("database", n) /\ found(FoundInAnyCase, n)
            /\ Between(backups[n], q)
            /\ q.status # NoFilter => backups[n].status = q.status
        BY <1>2, <1>3, <2>2
      <3>2. named(store, n)
        BY <2>2, <3>1 DEF Stores
      <3>3. Parsed(q.start) # NoTime => made(n) >= Parsed(q.start)
        BY <1>6, <1>8, <3>1
      <3>4. ~(LastSecond(q) # NoTime => made(n) <= LastSecond(q))
        BY <1>5, <2>2, <3>1, <3>2, <3>3
      <3>5. made(n) \in Nat /\ LastSecond(q) \in Int
        BY <1>1, <1>7, <3>1
      <3> QED BY <1>7, <3>4, <3>5 DEF NoTime, NoDate
    <2> QED BY <2>1, <2>2
  <1>12. ASSUME q = [q EXCEPT !.server = NoFilter, !.status = NoFilter, !.search = NoFilter,
                              !.start = NoDate, !.end = NoDate]
         PROVE  /\ listBackupsHandler("file", backups, q) = byLoop
                /\ listBackupsHandler("database", backups, q) = byQuery
    <2> DEFINE bare == [q EXCEPT !.server = NoFilter, !.status = NoFilter, !.search = NoFilter,
                                 !.start = NoDate, !.end = NoDate]
    <2>1. /\ bare.server = NoFilter /\ bare.status = NoFilter /\ bare.search = NoFilter
          /\ bare.start = NoDate /\ bare.end = NoDate
      BY DEF Question
    <2>2. /\ q.server = NoFilter /\ q.status = NoFilter /\ q.search = NoFilter
          /\ q.start = 0 /\ q.end = 0
      <3> HIDE DEF bare
      <3>1. q = bare
        BY <1>12 DEF bare
      <3> QED BY <2>1, <3>1 DEF NoDate
    <2> HIDE DEF bare
    <2>3. [q EXCEPT !.server = NoFilter] = q
      BY <2>2 DEF Question
    <2>4. \A store, n : n \in listBackupsHandler(store, backups, q) <=>
             /\ n \in DOMAIN backups /\ named(store, n)
             /\ q.active => backups[n].status = "success"
      BY <2>3 DEF listBackupsHandler, GetBackupsFiltered, Filtered, named
    <2>5. \A n \in DOMAIN backups : Between(backups[n], q)
      BY <1>6, <2>2
    <2>6. \A by, n : found(by, n)
      BY <2>2 DEF found, Finds
    <2>7. \A n : n \in listBackupsHandler("file", backups, q) <=> n \in byLoop
      BY <1>4, <2>2, <2>4, <2>5, <2>6
    <2>8. \A n : n \in listBackupsHandler("database", backups, q) <=> n \in byQuery
      BY <1>3, <2>2, <2>4, <2>5, <2>6
    <2>9. byLoop \subseteq DOMAIN backups /\ byQuery \subseteq DOMAIN backups
      BY <1>3, <1>4
    <2> QED BY <2>7, <2>8, <2>9
  <1>13. byQuery \subseteq listBackupsHandler("database", backups, [q EXCEPT !.active = FALSE])
    <2> DEFINE free == [q EXCEPT !.active = FALSE]
    <2>1. /\ free.database = q.database /\ free.type = q.type /\ ~free.active
          /\ free \in Question
      BY DEF Question
    <2> HIDE DEF free
    <2>2. /\ [free EXCEPT !.server = NoFilter].server = NoFilter
          /\ [free EXCEPT !.server = NoFilter].database = q.database
          /\ [free EXCEPT !.server = NoFilter].type = q.type
      BY <2>1 DEF Question
    <2>3. Wanted("database", q) \subseteq Wanted("database", [free EXCEPT !.server = NoFilter])
      BY <2>2 DEF Wanted, IsName
    <2>4. \A n \in byQuery :
             n \in Filtered(backups, Wanted("database", [free EXCEPT !.server = NoFilter]), FALSE)
      BY <1>3, <2>3 DEF Filtered, named
    <2>5. byQuery \subseteq listBackupsHandler("database", backups, free)
      BY <2>1, <2>4 DEF listBackupsHandler, GetBackupsFiltered, Filtered
    <2> QED BY <2>5 DEF free
  <1> QED BY <1>10, <1>11, <1>12, <1>13
        DEF SameAnswer, byQuery, byLoop, byPage, named, found, made

(* The listings agree, whatever has become of the records.                  *)
THEOREM ListingsAlwaysAgree == Spec => []ListingsAgree
  <1>1. LogInv => ListingsAgree
    <2> SUFFICES ASSUME LogInv, NEW q \in Questions PROVE SameAnswer(q)
      BY DEF ListingsAgree
    <2>1. q \in Question /\ {q.start, q.end} \subseteq {NoDate, Garbled} \cup Nat
      BY ListingAssumption
    <2> QED BY <2>1, SameAnswers
  <1> QED BY <1>1, ListingInvariant, PTL

-------------------------------------------------------------------------------
(* A row's page and its place on it, and what comes of them.                *)
LEMMA PlaceOfRow ==
    ASSUME NEW k \in Nat \ {0}, NEW s \in Nat \ {0}
    PROVE  LET p == ((k - 1) \div s) + 1
               place == ((k - 1) % s) + 1
           IN  /\ p \in Nat \ {0} /\ place \in 1..s
               /\ (p - 1) * s \in Nat /\ k = (p - 1) * s + place
  <1> DEFINE d == (k - 1) \div s
             r == (k - 1) % s
  <1>1. d \in Nat /\ r \in 0..(s - 1) /\ k - 1 = s * d + r
    BY k - 1 \in Nat
  <1> HIDE DEF d, r
  <1>2. d + 1 \in Nat \ {0} /\ r + 1 \in 1..s /\ (d + 1) - 1 = d
    BY <1>1
  <1>3. d * s \in Nat /\ d * s = s * d
    BY <1>1
  <1>4. k = d * s + (r + 1)
    BY <1>1, <1>3
  <1> QED BY <1>2, <1>3, <1>4 DEF d, r

(* Each page of rows: its size and number, and what is on it.               *)
LEMMA PagesOfRows ==
    ASSUME NEW rows \in Seq(Nat), NEW v \in Visit
    PROVE  \E s \in Nat \ {0}, pages \in Nat :
              /\ Len(rows) <= pages * s
              /\ pages > 0 => (pages - 1) * s < Len(rows)
              /\ \A p \in Nat \ {0} :
                    LET page == PageOf(rows, v, p)
                        offset == (p - 1) * s
                    IN  /\ page.page = p /\ page.pageSize = s /\ page.totalPages = pages
                        /\ page.data \in Seq(Nat)
                        /\ Len(page.data) = IF Len(rows) <= offset THEN 0
                                            ELSE Least(offset + s, Len(rows)) - offset
                        /\ \A i \in 1..Len(page.data) : page.data[i] = rows[offset + i]
  <1> DEFINE s == SizeInForce(v)
             pages == GetBackupsPaginated(rows, v).totalPages
  <1>1. /\ s \in Nat \ {0} /\ pages \in Nat /\ Len(rows) <= pages * s
        /\ pages > 0 => (pages - 1) * s < Len(rows)
    BY PageFacts
  <1>2. ASSUME NEW p \in Nat \ {0}
        PROVE  LET page == PageOf(rows, v, p)
                   offset == (p - 1) * s
               IN  /\ page.page = p /\ page.pageSize = s /\ page.totalPages = pages
                   /\ page.data \in Seq(Nat)
                   /\ Len(page.data) = IF Len(rows) <= offset THEN 0
                                       ELSE Least(offset + s, Len(rows)) - offset
                   /\ \A i \in 1..Len(page.data) : page.data[i] = rows[offset + i]
    <2> DEFINE w == [v EXCEPT !.page = p]
    <2>1. w \in Visit /\ w.page = p /\ w.pageSize = v.pageSize
      BY PagesAreVisits DEF Visit
    <2>2. PageOf(rows, v, p) = GetBackupsPaginated(rows, w)
      BY DEF PageOf
    <2> HIDE DEF w
    <2>3. PageInForce(w) = p /\ SizeInForce(w) = s
      BY <2>1 DEF PageInForce, SizeInForce
    <2>4. GetBackupsPaginated(rows, w).totalPages = pages
      BY <2>3 DEF GetBackupsPaginated, PageFrom
    <2> DEFINE cut == GetBackupsPaginated(rows, w)
               size == SizeInForce(w)
               from == (PageInForce(w) - 1) * size
    <2>5. /\ cut.page = PageInForce(w) /\ cut.pageSize = size
          /\ cut.data \in Seq(Nat)
          /\ Len(cut.data) = IF Len(rows) <= from THEN 0 ELSE Least(from + size, Len(rows)) - from
          /\ \A i \in 1..Len(cut.data) : cut.data[i] = rows[from + i]
      <3>1. cut.page = PageInForce(w) /\ cut.pageSize = size
        BY <2>1, PageFacts
      <3>2. cut.data \in Seq(Nat)
        BY <2>1, PageFacts
      <3>3. Len(cut.data) = IF Len(rows) <= from THEN 0 ELSE Least(from + size, Len(rows)) - from
        BY <2>1, PageFacts
      <3>4. \A i \in 1..Len(cut.data) : cut.data[i] = rows[from + i]
        BY <2>1, PageFacts
      <3> QED BY <3>1, <3>2, <3>3, <3>4
    <2>6. size = s /\ from = (p - 1) * s
      BY <2>3
    <2> HIDE DEF s, pages, cut, size, from
    <2> QED BY <2>2, <2>3, <2>4, <2>5, <2>6 DEF cut
  <1> HIDE DEF s, pages
  <1> QED BY <1>1, <1>2

(* Every row has its place, and just the pages counted have rows.           *)
LEMMA AllPagesHold ==
    ASSUME NEW rows \in Seq(Nat), NEW v \in Visit
    PROVE  PagesHold(rows, v)
  <1> DEFINE n == Len(rows)
  <1>1. n \in Nat
    OBVIOUS
  <1>2. PICK s \in Nat \ {0}, pages \in Nat :
            /\ n <= pages * s
            /\ pages > 0 => (pages - 1) * s < n
            /\ \A p \in Nat \ {0} :
                  LET page == PageOf(rows, v, p)
                      offset == (p - 1) * s
                  IN  /\ page.page = p /\ page.pageSize = s /\ page.totalPages = pages
                      /\ page.data \in Seq(Nat)
                      /\ Len(page.data) = IF n <= offset THEN 0 ELSE Least(offset + s, n) - offset
                      /\ \A i \in 1..Len(page.data) : page.data[i] = rows[offset + i]
    BY PagesOfRows
  <1>3. PageOf(rows, v, 1).pageSize = s /\ PageOf(rows, v, 1).totalPages = pages
    BY <1>2
  <1> HIDE DEF n
  <1>4. ASSUME NEW k \in 1..n
        PROVE  LET p == ((k - 1) \div s) + 1
                   place == ((k - 1) % s) + 1
               IN  /\ p <= pages
                   /\ place <= Len(PageOf(rows, v, p).data)
                   /\ PageOf(rows, v, p).data[place] = rows[k]
    <2> DEFINE p == ((k - 1) \div s) + 1
               place == ((k - 1) % s) + 1
               offset == (p - 1) * s
               data == PageOf(rows, v, p).data
    <2>1. /\ k \in Nat \ {0} /\ k <= n
          /\ p \in Nat \ {0} /\ place \in 1..s /\ offset \in Nat /\ k = offset + place
      <3>1. k \in Nat \ {0} /\ k <= n
        BY <1>1
      <3> QED BY <3>1, PlaceOfRow
    <2> HIDE DEF p, place
    <2>2. p <= pages
      <3> SUFFICES ASSUME pages < p PROVE FALSE
        BY <2>1
      <3>1. pages <= p - 1 /\ p - 1 \in Nat
        BY <2>1
      <3>2. pages * s <= offset
        BY <3>1, TimesGrows
      <3> HIDE DEF offset
      <3>3. pages * s \in Nat
        OBVIOUS
      <3> QED BY <1>1, <1>2, <2>1, <3>2, <3>3
    <2>3. /\ data \in Seq(Nat)
          /\ Len(data) = IF n <= offset THEN 0 ELSE Least(offset + s, n) - offset
          /\ \A i \in 1..Len(data) : data[i] = rows[offset + i]
      BY <1>2, <2>1
    <2> HIDE DEF offset, data
    <2>4. place <= Len(data) /\ place \in 1..Len(data)
      BY <1>1, <2>1, <2>3 DEF Least
    <2>5. data[place] = rows[k]
      BY <2>1, <2>3, <2>4
    <2> QED BY <2>2, <2>4, <2>5 DEF p, place, data
  <1>5. ASSUME NEW p \in 1..(pages + 2)
        PROVE  LET page == PageOf(rows, v, p)
               IN  /\ page.totalPages = pages /\ page.pageSize = s /\ page.page = p
                   /\ (page.data = << >>) <=> p > pages
                   /\ Len(page.data) <= s
    <2> DEFINE offset == (p - 1) * s
               page == PageOf(rows, v, p)
    <2>1. p \in Nat \ {0} /\ p - 1 \in Nat
      OBVIOUS
    <2>2. offset \in Nat
      BY <2>1
    <2>3. /\ page.page = p /\ page.pageSize = s /\ page.totalPages = pages
          /\ page.data \in Seq(Nat)
          /\ Len(page.data) = IF n <= offset THEN 0 ELSE Least(offset + s, n) - offset
      BY <1>2, <2>1
    <2>4. ASSUME p > pages PROVE n <= offset
      <3>1. pages <= p - 1
        BY <2>1, <2>4
      <3>2. pages * s <= offset /\ pages * s \in Nat
        BY <2>1, <3>1, TimesGrows
      <3> HIDE DEF offset
      <3> QED BY <1>1, <1>2, <2>2, <3>2
    <2>5. ASSUME ~(p > pages) PROVE offset < n
      <3>1. p - 1 <= pages - 1 /\ pages - 1 \in Nat /\ pages > 0
        BY <2>1, <2>5
      <3> DEFINE before == (pages - 1) * s
      <3>2. offset <= before /\ before \in Nat
        BY <2>1, <3>1, TimesGrows
      <3>3. before < n
        BY <1>2, <3>1
      <3> HIDE DEF offset, before
      <3> QED BY <1>1, <2>2, <3>2, <3>3
    <2> HIDE DEF offset, page
    <2>6. Len(page.data) = 0 <=> n <= offset
      BY <1>1, <2>2, <2>3 DEF Least
    <2>7. Len(page.data) <= s
      BY <1>1, <2>2, <2>3 DEF Least
    <2>8. page.data = << >> <=> Len(page.data) = 0
      BY <2>3
    <2>9. page.data = << >> <=> p > pages
      BY <1>1, <2>2, <2>4, <2>5, <2>6, <2>8
    <2> QED BY <2>3, <2>7, <2>9 DEF page
  <1> QED BY <1>3, <1>4, <1>5 DEF PagesHold, n

(* A listing is sent whole, for any rows, page and size.                    *)
THEOREM PagesAreAlwaysWhole == Spec => []PagesAreWhole
  <1>1. LogInv => PagesAreWhole
    <2> SUFFICES ASSUME LogInv, NEW v \in Visits, NEW rows \in Rankings(backups, v)
                 PROVE  PagesHold(rows, v)
      BY DEF PagesAreWhole
    <2>1. v \in Visit /\ rows \in Seq(Nat)
      BY ListingAssumption, RankingsAreRows
    <2> QED BY <2>1, AllPagesHold
  <1> QED BY <1>1, ListingInvariant, PTL

-------------------------------------------------------------------------------
(* Records are made one after the other, none later than now, and what      *)
(* succeeded says when it did.                                              *)
Ordered(bs, at) ==
    /\ \A n \in DOMAIN bs : /\ CreatedAt(bs[n]) <= at
                            /\ bs[n].status = "success" => bs[n].doneAt # NoTime
    /\ \A m, n \in DOMAIN bs : m < n => CreatedAt(bs[m]) <= CreatedAt(bs[n])

OrderInv == Ordered(backups, now)

(* It is so whatever the edit: only a new record gets an identifier, one of *)
(* now, and only an outcome makes a success, now.                           *)
LEMMA EditsKeepOrder ==
    ASSUME LogInv, OrderInv, Edit
    PROVE  OrderInv'
  <1>1. /\ now \in Nat /\ now # NoTime /\ edits \in Nat /\ IsLog(backups)
        /\ DOMAIN backups \subseteq 1..edits
    BY ListingAssumption DEF LogInv, NoTime
  <1>2. ASSUME NEW bs, Becomes(bs), Ordered(bs, now) PROVE OrderInv'
    BY <1>2 DEF Becomes, OrderInv
  <1>3. ASSUME NEW bs, DOMAIN bs \subseteq DOMAIN backups,
               \A n \in DOMAIN bs :
                  /\ bs[n].id = backups[n].id
                  /\ bs[n].status = "success" => bs[n].doneAt \in {backups[n].doneAt, now}
                  /\ bs[n].status = "success" /\ bs[n].doneAt # now =>
                        backups[n].status = "success"
        PROVE  Ordered(bs, now)
    BY <1>1, <1>3 DEF OrderInv, Ordered, CreatedAt
  <1>4. ASSUME NEW t \in Targets, Create(t) PROVE OrderInv'
    <2> DEFINE bs == WithNew(backups, edits + 1, t, now)
    <2>1. /\ DOMAIN bs = DOMAIN backups \cup {edits + 1}
          /\ \A n \in DOMAIN backups : bs[n] = backups[n] /\ n < edits + 1
          /\ bs[edits + 1] = NewRecord(t, now)
      BY <1>1 DEF WithNew
    <2>2. CreatedAt(bs[edits + 1]) = now /\ bs[edits + 1].status = "pending"
      BY <2>1 DEF CreatedAt, NewRecord, IdAt
    <2>3. \A n \in DOMAIN backups : n \in Nat /\ CreatedAt(backups[n]) \in Nat
      BY <1>1 DEF IsLog, Record, Ids, CreatedAt, Numbers
    <2>4. Becomes(bs)
      BY <1>4 DEF Create
    <2> HIDE DEF bs
    <2>5. Ordered(bs, now)
      <3>1. \A n \in DOMAIN bs : /\ CreatedAt(bs[n]) <= now
                                 /\ bs[n].status = "success" => bs[n].doneAt # NoTime
        BY <1>1, <2>1, <2>2 DEF OrderInv, Ordered
      <3>2. ASSUME NEW m \in DOMAIN bs, NEW n \in DOMAIN bs, m < n
            PROVE  CreatedAt(bs[m]) <= CreatedAt(bs[n])
        <4>1. CASE n = edits + 1
          BY <2>2, <3>1, <4>1
        <4>2. CASE n # edits + 1
          <5>1. n \in DOMAIN backups /\ m # edits + 1
            BY <1>1, <2>1, <2>3, <3>2, <4>2
          <5>2. m \in DOMAIN backups
            BY <2>1, <5>1
          <5> QED BY <2>1, <3>2, <5>1, <5>2 DEF OrderInv, Ordered
        <4> QED BY <4>1, <4>2
      <3> QED BY <3>1, <3>2 DEF Ordered
    <2> QED BY <1>2, <2>4, <2>5
  <1>5. ASSUME NEW n, NEW status, NEW size, Settle(n, status, size) PROVE OrderInv'
    <2> DEFINE bs == WithStatus(backups, backups[n].id, status, {}, size, now)
    <2>1. Becomes(bs) /\ DOMAIN bs = DOMAIN backups
      BY <1>5, EditDomains DEF Settle
    <2>2. \A m \in DOMAIN backups : bs[m] \in {backups[m], Settled(backups[m], status, {}, size, now)}
      BY DEF WithStatus, EditFirst
    <2> HIDE DEF bs
    <2>3. \A r \in Record : /\ Settled(r, status, {}, size, now).id = r.id
                            /\ Settled(r, status, {}, size, now).doneAt = now
      BY DEF Settled, Record
    <2>4. \A m \in DOMAIN backups : backups[m] \in Record
      BY <1>1 DEF IsLog
    <2>5. Ordered(bs, now)
      BY <1>3, <2>1, <2>2, <2>3, <2>4
    <2> QED BY <1>2, <2>1, <2>5
  <1>6. ASSUME NEW n, Upload(n) PROVE OrderInv'
    <2> DEFINE bs == WithUpload(backups, backups[n].id, "success")
    <2>1. Becomes(bs) /\ DOMAIN bs = DOMAIN backups
      BY <1>6, EditDomains DEF Upload
    <2>2. \A m \in DOMAIN backups : bs[m] \in {backups[m], Uploaded(backups[m], "success")}
      BY DEF WithUpload, EditFirst
    <2> HIDE DEF bs
    <2>3. \A r \in Record : /\ Uploaded(r, "success").id = r.id
                            /\ Uploaded(r, "success").doneAt = r.doneAt
                            /\ Uploaded(r, "success").status = r.status
      BY DEF Uploaded, Record
    <2>4. \A m \in DOMAIN backups : backups[m] \in Record
      BY <1>1 DEF IsLog
    <2>5. Ordered(bs, now)
      BY <1>3, <2>1, <2>2, <2>3, <2>4
    <2> QED BY <1>2, <2>1, <2>5
  <1>7. ASSUME NEW n, Delete(n) PROVE OrderInv'
    <2> DEFINE bs == WithDeletion(backups, backups[n].id)
    <2>1. Becomes(bs) /\ DOMAIN bs = DOMAIN backups
      BY <1>7, EditDomains DEF Delete
    <2>2. \A m \in DOMAIN backups : bs[m] \in {backups[m], Deleted(backups[m])}
      BY DEF WithDeletion, EditFirst
    <2> HIDE DEF bs
    <2>3. \A r \in Record : Deleted(r).id = r.id /\ Deleted(r).status = "deleted"
      BY DEF Deleted, Record
    <2>4. \A m \in DOMAIN backups : backups[m] \in Record
      BY <1>1 DEF IsLog
    <2>5. Ordered(bs, now)
      BY <1>3, <2>1, <2>2, <2>3, <2>4
    <2> QED BY <1>2, <2>1, <2>5
  <1>8. ASSUME Purge PROVE OrderInv'
    <2> DEFINE bs == Purged(backups, now)
    <2>1. Becomes(bs) /\ DOMAIN bs \subseteq DOMAIN backups /\ \A n \in DOMAIN bs : bs[n] = backups[n]
      BY <1>8 DEF Purge, Purged
    <2> HIDE DEF bs
    <2>2. Ordered(bs, now)
      BY <1>3, <2>1
    <2> QED BY <1>2, <2>1, <2>2
  <1> QED BY <1>4, <1>5, <1>6, <1>7, <1>8 DEF Edit

(* Reading changes no record, and time only goes on.                        *)
LEMMA OrderStep == LogInv /\ OrderInv /\ [Next]_vars => OrderInv'
  <1> SUFFICES ASSUME LogInv, OrderInv, [Next]_vars PROVE OrderInv'
    OBVIOUS
  <1>1. CASE Tick
    <2>1. now' > now /\ UNCHANGED backups /\ now \in Nat /\ now' \in Nat
      BY <1>1, ListingAssumption DEF Tick, LogInv
    <2>2. \A n \in DOMAIN backups : CreatedAt(backups[n]) \in Nat
      BY DEF LogInv, IsLog, Record, Ids, CreatedAt
    <2> QED BY <2>1, <2>2 DEF OrderInv, Ordered
  <1>2. CASE Read \/ UNCHANGED vars
    <2>1. UNCHANGED log
      BY <1>2 DEF Read, NextPage, Leave, Open, handleBackups, vars
    <2> QED BY <2>1 DEF log, OrderInv
  <1> QED BY <1>1, <1>2, EditsKeepOrder DEF Next

-------------------------------------------------------------------------------
(* The sums and counts of the summaries, as sums over sets of numbers.      *)
SizesIn(bs) == [n \in DOMAIN bs |-> bs[n].size]

(* What a distribution adds up to is the sum of its values.                 *)
LEMMA TotalIsSum == \A f : TotalOf(f) = SumFunctionOnSet(f, DOMAIN f)
  BY DEF TotalOf, SumFunctionOnSet, FoldFunctionOnSet, MapThenSumSet, MapThenFoldSet

(* The queries add up the sizes of records as the loops over them do.       *)
LEMMA WhereIsSum ==
    ASSUME NEW bs, IsFiniteSet(DOMAIN bs), NEW ns \in SUBSET DOMAIN bs
    PROVE  SumWhere(bs, ns) = SumFunctionOnSet(SizesIn(bs), ns)
  <1> DEFINE f == SizesIn(bs)
             W(g) == g = [s \in SUBSET ns |->
                             IF s = {} THEN 0 ELSE bs[Pick(s)].size + g[s \ {Pick(s)}]]
             w == CHOOSE g : W(g)
             h == CHOOSE g : Sums(g, f, ns)
  <1>1. SumWhere(bs, ns) = w[ns] /\ SumFunctionOnSet(f, ns) = h[ns]
    BY DEF SumWhere, MapThenSumSet, MapThenFoldSet, Pick, SumFunctionOnSet, FoldFunctionOnSet,
           Sums, SumFrom
  <1>2. IsFiniteSet(ns)
    BY FS_Subset
  <1>3. \A g : W(g) <=> Sums(g, f, ns)
    <2> SUFFICES ASSUME NEW g PROVE W(g) <=> Sums(g, f, ns)
      OBVIOUS
    <2>1. ASSUME NEW s \in SUBSET ns
          PROVE  SumFrom(g, f, s) = IF s = {} THEN 0 ELSE bs[Pick(s)].size + g[s \ {Pick(s)}]
      BY Picked DEF SumFrom, SizesIn
    <2>2. [s \in SUBSET ns |-> SumFrom(g, f, s)]
              = [s \in SUBSET ns |-> IF s = {} THEN 0 ELSE bs[Pick(s)].size + g[s \ {Pick(s)}]]
      BY <2>1
    <2> QED BY <2>2 DEF Sums
  <1>4. Sums(h, f, ns)
    <2> HIDE DEF f
    <2> QED BY <1>2, SumsExist
  <1>5. Sums(w, f, ns)
    <2> HIDE DEF W, f
    <2> QED BY <1>3, <1>4
  <1> HIDE DEF f, w, h
  <1>6. w[ns] = h[ns]
    <2>1. ns \in SUBSET ns
      OBVIOUS
    <2> QED BY <1>2, <1>4, <1>5, <2>1, SumsAgree
  <1> QED BY <1>1, <1>6 DEF f

(* part is f, added up by key: what there is of it has keys in K.           *)
PartsOf(part, K, f, S, key) ==
    /\ \A x \in S : f[x] \in Nat /\ key[x] \in K
    /\ \A k \in K : part[k] = SumFunctionOnSet(f, {x \in S : key[x] = k})

LEMMA PartsAddUp ==
    ASSUME NEW part, NEW K, NEW f, NEW S, NEW key, PartsOf(part, K, f, S, key),
           IsFiniteSet(K), IsFiniteSet(S)
    PROVE  SumFunctionOnSet(part, K) = SumFunctionOnSet(f, S)
  <1>1. /\ \A x \in S : f[x] \in Nat
        /\ \A x \in S : key[x] \in K
        /\ \A k \in K : part[k] = SumFunctionOnSet(f, {x \in S : key[x] = k})
    BY DEF PartsOf
  <1> QED BY <1>1, SumByKey, Z3

(* f counts the members of S by key.                                        *)
CountedBy(f, K, S, key) ==
    /\ IsFiniteSet(S) /\ IsFiniteSet(K)
    /\ \A x \in S : key[x] \in K
    /\ \A k \in K : f[k] = Cardinality({x \in S : key[x] = k})

(* What is counted by a key is counted once.                                *)
LEMMA CountsAddUp ==
    ASSUME NEW f, NEW K, NEW S, NEW key, CountedBy(f, K, S, key)
    PROVE  SumFunctionOnSet(f, K) = Cardinality(S)
  <1> USE DEF CountedBy
  <1> DEFINE ones == [x \in S |-> 1]
  <1>1. \A s \in SUBSET S : SumFunctionOnSet(ones, s) = Cardinality(s)
    <2> SUFFICES ASSUME NEW s \in SUBSET S PROVE SumFunctionOnSet(ones, s) = Cardinality(s)
      OBVIOUS
    <2>1. IsFiniteSet(s) /\ \A x \in s : ones[x] = 1
      BY FS_Subset
    <2> HIDE DEF ones
    <2> QED BY <2>1, CardinalityIsSum
  <1>2. \A x \in S : ones[x] \in Nat
    OBVIOUS
  <1> HIDE DEF ones
  <1>3. \A k \in K : f[k] = SumFunctionOnSet(ones, {x \in S : key[x] = k})
    BY <1>1
  <1>4. PartsOf(f, K, ones, S, key)
    BY <1>2, <1>3 DEF PartsOf
  <1>5. SumFunctionOnSet(f, K) = SumFunctionOnSet(ones, S)
    BY <1>4, PartsAddUp
  <1> QED BY <1>1, <1>5

LEMMA CountedOnce ==
    ASSUME NEW f, NEW S, NEW key, CountedBy(f, DOMAIN f, S, key)
    PROVE  TotalOf(f) = Cardinality(S)
  BY CountsAddUp, TotalIsSum

(* The values of a function on a finite set are finitely many.              *)
LEMMA FiniteImage ==
    ASSUME NEW S, IsFiniteSet(S), NEW key
    PROVE  IsFiniteSet({key[x] : x \in S})
  <1> DEFINE T == {key[x] : x \in S}
             f == [x \in S |-> key[x]]
  <1>1. f \in Surjection(S, T)
    BY DEF Surjection
  <1> HIDE DEF T, f
  <1>2. IsFiniteSet(T)
    BY <1>1, FS_Surjection
  <1> QED BY <1>2 DEF T

(* The first few of a finite set of numbers are as many as there are, up to *)
(* the limit.                                                               *)
LEMMA FirstFew ==
    ASSUME NEW S, IsFiniteSet(S), S \subseteq Int, NEW limit \in Nat
    PROVE  Cardinality(FirstOf(S, limit)) = Least(limit, Cardinality(S))
  <1> DEFINE Bad == {t \in SUBSET S : Cardinality(FirstOf(t, limit)) # Least(limit, Cardinality(t))}
  <1> SUFFICES ASSUME Bad # {} PROVE FALSE
    OBVIOUS
  <1>1. PICK t \in Bad : \A u \in Bad : u \subseteq t => u = t
    <2>1. Bad \subseteq SUBSET S
      OBVIOUS
    <2>2. IsFiniteSet(S) /\ Bad # {}
      OBVIOUS
    <2> HIDE DEF Bad
    <2> QED BY ONLY <2>1, <2>2, LeastCounterexample
  <1>2. IsFiniteSet(t) /\ t \subseteq Int /\ Cardinality(t) \in Nat
    BY <1>1, FS_Subset, FS_CardinalityType
  <1>3. t # {}
    <2>1. FirstOf({}, limit) = {} /\ Cardinality({}) = 0 /\ Least(limit, 0) = 0
      BY FS_EmptySet DEF FirstOf, Least
    <2> QED BY <1>1, <2>1
  <1>4. PICK x \in t : \A y \in t : x >= y
    BY <1>2, <1>3, Extremes DEF HasExtremes
  <1> DEFINE u == t \ {x}
  <1>5. /\ IsFiniteSet(u) /\ Cardinality(u) = Cardinality(t) - 1 /\ Cardinality(u) \in Nat
        /\ u \subseteq t /\ u # t
    BY <1>2, <1>4, FS_RemoveElement, FS_CardinalityType
  <1>6. Cardinality(FirstOf(u, limit)) = Least(limit, Cardinality(u))
    BY <1>1, <1>5
  <1>7. Cardinality(FirstOf(t, limit)) # Least(limit, Cardinality(t))
    BY <1>1
  <1> HIDE DEF Bad
  <1>8. /\ \A m \in t : m < x <=> m # x
        /\ \A n \in u : ~(x < n)
    BY <1>2, <1>4
  <1>9. /\ {m \in t : m < x} = u
        /\ \A n \in u : {m \in t : m < n} = {m \in u : m < n}
    BY <1>8
  <1>10. CASE Cardinality(u) < limit
    <2>1. FirstOf(t, limit) = FirstOf(u, limit) \cup {x} /\ x \notin FirstOf(u, limit)
      <3>1. x \in FirstOf(t, limit)
        BY <1>4, <1>9, <1>10 DEF FirstOf
      <3>2. \A n \in u : n \in FirstOf(t, limit) <=> n \in FirstOf(u, limit)
        BY <1>9 DEF FirstOf
      <3>3. FirstOf(t, limit) \subseteq u \cup {x} /\ FirstOf(u, limit) \subseteq u
        BY DEF FirstOf
      <3>4. x \notin u
        OBVIOUS
      <3> HIDE DEF u
      <3> QED BY <3>1, <3>2, <3>3, <3>4
    <2>2. FirstOf(u, limit) \subseteq u
      BY DEF FirstOf
    <2> HIDE DEF u
    <2>3. IsFiniteSet(FirstOf(u, limit))
      BY <1>5, <2>2, FS_Subset
    <2>4. Cardinality(FirstOf(t, limit)) = Cardinality(FirstOf(u, limit)) + 1
      BY <2>1, <2>3, FS_AddElement
    <2>5. Least(limit, Cardinality(u)) = Cardinality(u) /\ Least(limit, Cardinality(t)) = Cardinality(t)
      BY <1>2, <1>5, <1>10 DEF Least
    <2> QED BY <1>7, <1>2, <1>5, <1>6, <2>4, <2>5
  <1>11. CASE ~(Cardinality(u) < limit)
    <2>1. FirstOf(t, limit) = FirstOf(u, limit)
      BY <1>4, <1>5, <1>9, <1>11 DEF FirstOf
    <2> HIDE DEF u
    <2>2. Least(limit, Cardinality(u)) = limit /\ Least(limit, Cardinality(t)) = limit
      BY <1>2, <1>5, <1>11 DEF Least
    <2> QED BY <1>7, <1>6, <2>1, <2>2
  <1> QED BY <1>10, <1>11

(* There are four statuses.                                                 *)
LEMMA FewStatuses == IsFiniteSet(Statuses)
  <1>1. IsFiniteSet({"pending"})
    BY FS_Singleton
  <1>2. IsFiniteSet({"pending"} \cup {"success"})
    BY <1>1, FS_AddElement
  <1>3. IsFiniteSet(({"pending"} \cup {"success"}) \cup {"error"})
    BY <1>2, FS_AddElement
  <1>4. IsFiniteSet((({"pending"} \cup {"success"}) \cup {"error"}) \cup {"deleted"})
    BY <1>3, FS_AddElement
  <1>5. Statuses = (({"pending"} \cup {"success"}) \cup {"error"}) \cup {"deleted"}
    BY DEF Statuses
  <1> QED BY <1>4, <1>5

(* The classes of a distribution, and how many records each has.            *)
NamesIn(bs, nameOf) == [n \in DOMAIN bs |-> nameOf[bs[n].target]]

LEMMA DistributionFacts ==
    ASSUME NEW bs, IsFiniteSet(DOMAIN bs), NEW nameOf
    PROVE  /\ DOMAIN Distribution(bs, nameOf) = {NamesIn(bs, nameOf)[n] : n \in DOMAIN bs}
           /\ CountedBy(Distribution(bs, nameOf), DOMAIN Distribution(bs, nameOf),
                        DOMAIN bs, NamesIn(bs, nameOf))
  <1> DEFINE D == DOMAIN bs
             key == NamesIn(bs, nameOf)
             K == {key[n] : n \in D}
  <1>1. IsFiniteSet(K)
    <2> HIDE DEF key
    <2> QED BY FiniteImage
  <1>2. K = {nameOf[bs[n].target] : n \in D}
    BY DEF NamesIn
  <1>3. \A x : {n \in D : nameOf[bs[n].target] = x} = {n \in D : key[n] = x}
    BY DEF NamesIn
  <1>4. Distribution(bs, nameOf) = [x \in K |-> Cardinality({n \in D : key[n] = x})]
    BY <1>2, <1>3 DEF Distribution
  <1> HIDE DEF K
  <1>5. /\ DOMAIN Distribution(bs, nameOf) = K
        /\ \A x \in K : Distribution(bs, nameOf)[x] = Cardinality({n \in D : key[n] = x})
    BY <1>4
  <1> HIDE DEF key
  <1>6. \A n \in D : key[n] \in K
    BY DEF K
  <1>7. CountedBy(Distribution(bs, nameOf), K, D, key)
    BY <1>1, <1>5, <1>6 DEF CountedBy
  <1> QED BY <1>5, <1>7 DEF K, key

(* Every backup is counted once in a distribution.                          *)
LEMMA DistributionAddsUp ==
    ASSUME NEW bs, IsFiniteSet(DOMAIN bs), NEW nameOf
    PROVE  TotalOf(Distribution(bs, nameOf)) = Cardinality(DOMAIN bs)
  BY DistributionFacts, CountedOnce

(* And so it is among the statuses.                                         *)
LEMMA StatusesAddUp ==
    ASSUME NEW bs, IsLog(bs), IsFiniteSet(DOMAIN bs)
    PROVE  TotalOf([s \in Statuses |-> Count(bs, DOMAIN bs, s)]) = Cardinality(DOMAIN bs)
  <1> DEFINE D == DOMAIN bs
             status == [n \in D |-> bs[n].status]
             statuses == [s \in Statuses |-> Count(bs, D, s)]
  <1>1. /\ \A n \in D : status[n] \in Statuses
        /\ DOMAIN statuses = Statuses
        /\ \A s \in Statuses : statuses[s] = Cardinality({n \in D : status[n] = s})
    BY DEF IsLog, Record, Count
  <1> HIDE DEF status, statuses
  <1>2. TotalOf(statuses) = Cardinality(D)
    <2>1. CountedBy(statuses, Statuses, D, status)
      BY <1>1, FewStatuses DEF CountedBy
    <2> QED BY <1>1, <2>1, CountedOnce
  <1> QED BY <1>2 DEF statuses

(* The counts of the groups of the database are those of the names in them. *)
LEMMA GroupsAddUp ==
    ASSUME NEW bs, IsLog(bs), IsFiniteSet(DOMAIN bs), NEW nameOf
    PROVE  PutTogether(Distribution(bs, nameOf), GroupedBy(bs, nameOf))
  <1> DEFINE D == DOMAIN bs
             folded == [t \in Targets |-> Folded(nameOf[t])]
             counted == Distribution(bs, nameOf)
             grouped == Distribution(bs, folded)
             key == NamesIn(bs, nameOf)
             group == NamesIn(bs, folded)
  <1>1. /\ DOMAIN counted = {key[n] : n \in D}
        /\ IsFiniteSet({key[n] : n \in D})
        /\ \A x \in {key[n] : n \in D} : counted[x] = Cardinality({n \in D : key[n] = x})
    <2>1. /\ DOMAIN counted = {key[n] : n \in D}
          /\ CountedBy(counted, DOMAIN counted, D, key)
      BY DistributionFacts
    <2> HIDE DEF counted, key
    <2> QED BY <2>1 DEF CountedBy
  <1>2. /\ DOMAIN grouped = {group[n] : n \in D}
        /\ \A x \in {group[n] : n \in D} : grouped[x] = Cardinality({n \in D : group[n] = x})
    <2> HIDE DEF folded
    <2>1. /\ DOMAIN grouped = {group[n] : n \in D}
          /\ CountedBy(grouped, DOMAIN grouped, D, group)
      BY DistributionFacts
    <2> HIDE DEF grouped, group
    <2> QED BY <2>1 DEF CountedBy
  <1>3. \A n \in D : group[n] = Folded(key[n])
    <2>1. \A n \in D : bs[n].target \in Targets
      BY DEF IsLog, Record
    <2> QED BY <2>1 DEF NamesIn
  <1>4. GroupedBy(bs, nameOf) = grouped
    BY DEF GroupedBy
  <1> HIDE DEF counted, grouped, D, folded, key, group
  <1>5. DOMAIN grouped = {Folded(x) : x \in DOMAIN counted}
    BY <1>1, <1>2, <1>3
  <1>6. ASSUME NEW c \in DOMAIN grouped
        PROVE  grouped[c] = MapThenSumSet(LAMBDA x : counted[x],
                                          {x \in DOMAIN counted : Folded(x) = c})
    <2> DEFINE S == {n \in D : Folded(key[n]) = c}
               K == {x \in DOMAIN counted : Folded(x) = c}
    <2>1. IsFiniteSet(S) /\ IsFiniteSet(K)
      <3>1. S \subseteq D /\ K \subseteq DOMAIN counted /\ IsFiniteSet(D)
        BY DEF D
      <3> QED BY <1>1, <3>1, FS_Subset
    <2>2. \A n \in S : key[n] \in K
      BY <1>1
    <2>3. \A x \in K : counted[x] = Cardinality({n \in S : key[n] = x})
      <3> SUFFICES ASSUME NEW x \in K PROVE counted[x] = Cardinality({n \in S : key[n] = x})
        OBVIOUS
      <3>1. {n \in S : key[n] = x} = {n \in D : key[n] = x}
        OBVIOUS
      <3> QED BY <1>1, <3>1
    <2>4. grouped[c] = Cardinality(S)
      <3>1. {n \in D : group[n] = c} = S
        BY <1>3
      <3> QED BY <1>2, <1>6, <3>1
    <2> HIDE DEF S, K
    <2> HIDE DEF counted, key
    <2>5. SumFunctionOnSet(counted, K) = Cardinality(S)
      <3>1. CountedBy(counted, K, S, key)
        BY <2>1, <2>2, <2>3 DEF CountedBy
      <3> QED BY <3>1, CountsAddUp
    <2>6. MapThenSumSet(LAMBDA x : counted[x], K) = SumFunctionOnSet(counted, K)
      BY DEF SumFunctionOnSet, FoldFunctionOnSet, MapThenSumSet, MapThenFoldSet
    <2> QED BY <2>4, <2>5, <2>6 DEF K
  <1>7. PutTogether(counted, grouped)
    BY <1>5, <1>6 DEF PutTogether
  <1> QED BY <1>4, <1>7 DEF counted

(* The queries of the database count like the loop over the file.           *)
LEMMA QueriesCountAlike ==
    ASSUME NEW bs, IsLog(bs), IsFiniteSet(DOMAIN bs), NEW at
    PROVE  LET stats == GetStats(bs)
               counted == GetStatsOptimized(bs, at)
           IN  /\ counted.totalLocalSize = stats.totals.local
               /\ counted.totalS3Size = stats.totals.s3
               /\ PutTogether(stats.typeDistribution, counted.typeDistribution)
               /\ PutTogether(stats.serverDistribution, counted.serverDistribution)
               /\ \A s \in Statuses :
                     stats.statusCounts[s] = IF s \in DOMAIN counted.statusCounts
                                             THEN counted.statusCounts[s] ELSE 0
  <1> DEFINE D == DOMAIN bs
             stats == GetStats(bs)
             counted == GetStatsOptimized(bs, at)
             local == {n \in D : bs[n].status = "success"}
             s3 == {n \in D : bs[n].s3 = "success"}
  <1>1. /\ counted.totalLocalSize = SumWhere(bs, local) /\ counted.totalS3Size = SumWhere(bs, s3)
        /\ stats.totals.local = SumFunctionOnSet(SizesIn(bs), local)
        /\ stats.totals.s3 = SumFunctionOnSet(SizesIn(bs), s3)
    BY DEF GetStats, GetStatsOptimized, Totals, SizesIn
  <1>2. local \in SUBSET D /\ s3 \in SUBSET D
    OBVIOUS
  <1>3. /\ stats.typeDistribution = Distribution(bs, TypeOf)
        /\ stats.serverDistribution = Distribution(bs, ServerOf)
        /\ counted.typeDistribution = GroupedBy(bs, TypeOf)
        /\ counted.serverDistribution = GroupedBy(bs, ServerOf)
    BY DEF GetStats, GetStatsOptimized
  <1>4. /\ PutTogether(Distribution(bs, TypeOf), GroupedBy(bs, TypeOf))
        /\ PutTogether(Distribution(bs, ServerOf), GroupedBy(bs, ServerOf))
    BY GroupsAddUp
  <1>5. ASSUME NEW s \in Statuses
        PROVE  stats.statusCounts[s] = IF s \in DOMAIN counted.statusCounts
                                       THEN counted.statusCounts[s] ELSE 0
    <2>1. /\ stats.statusCounts[s] = Count(bs, D, s)
          /\ counted.statusCounts = [t \in {bs[n].status : n \in D} |-> Count(bs, D, t)]
      BY DEF GetStats, GetStatsOptimized
    <2>2. ASSUME s \notin {bs[n].status : n \in D} PROVE Count(bs, D, s) = 0
      <3>1. {n \in D : bs[n].status = s} = {}
        BY <2>2
      <3> QED BY <3>1, FS_EmptySet DEF Count
    <2> HIDE DEF stats, counted
    <2> QED BY <2>1, <2>2
  <1> HIDE DEF local, s3
  <1>6. SumWhere(bs, local) = SumFunctionOnSet(SizesIn(bs), local)
        /\ SumWhere(bs, s3) = SumFunctionOnSet(SizesIn(bs), s3)
    BY <1>2, WhereIsSum
  <1> HIDE DEF stats, counted
  <1>7. /\ counted.totalLocalSize = stats.totals.local /\ counted.totalS3Size = stats.totals.s3
    BY <1>1, <1>6
  <1>8. /\ PutTogether(stats.typeDistribution, counted.typeDistribution)
        /\ PutTogether(stats.serverDistribution, counted.serverDistribution)
    BY <1>3, <1>4
  <1> QED BY <1>5, <1>7, <1>8 DEF stats, counted

(* Failures are shown while there is room, a last success is known when     *)
(* there is one, and the dashboard has the newest.                          *)
LEMMA LatestAreShown ==
    ASSUME NEW bs, IsLog(bs), IsFiniteSet(DOMAIN bs), NEW at \in Nat, Ordered(bs, at)
    PROVE  LET stats == GetStats(bs)
               recent == RecentBackups(bs)
           IN  /\ \A q : q.status # "error" =>
                     Cardinality(RecentErrors(bs, q)) = Least(ErrorCount, stats.statusCounts["error"])
               /\ (stats.lastBackupTime = NoTime) <=> (stats.statusCounts["success"] = 0)
               /\ \A n \in recent, m \in DOMAIN bs \ recent :
                     CreatedAt(bs[n]) >= CreatedAt(bs[m])
  <1> DEFINE D == DOMAIN bs
             with(status) == {n \in D : bs[n].status = status}
             done == [n \in D |-> bs[n].doneAt]
             ends == {done[n] : n \in with("success")}
             last == Max({NoTime} \cup ends)
             recent == RecentBackups(bs)
  <1>1. D \subseteq Int /\ \A n \in D : CreatedAt(bs[n]) \in Int /\ done[n] \in Nat
    BY DEF IsLog, Numbers, Record, Ids, CreatedAt
  <1>2. \A status : with(status) \in SUBSET D /\ IsFiniteSet(with(status))
    BY FS_Subset
  <1>3. /\ GetStats(bs).statusCounts["error"] = Cardinality(with("error"))
        /\ GetStats(bs).statusCounts["success"] = Cardinality(with("success"))
    BY DEF GetStats, Count, Statuses
  <1>4. GetStats(bs).lastBackupTime = last
    <2>1. {done[n] : n \in with("success")} =
              {bs[n].doneAt : n \in {m \in DOMAIN bs : bs[m].status = "success"}}
      OBVIOUS
    <2> QED BY <2>1 DEF GetStats, LastBackupTime
  <1>5. Cardinality(FirstOf(with("error"), ErrorCount)) = Least(ErrorCount, Cardinality(with("error")))
    <2>1. with("error") \subseteq Int /\ IsFiniteSet(with("error")) /\ ErrorCount \in Nat
      BY <1>1, <1>2, ListingAssumption
    <2> HIDE DEF with
    <2> QED BY <2>1, FirstFew
  <1>8. \A q : q.status # "error" => RecentErrors(bs, q) = FirstOf(with("error"), ErrorCount)
    BY DEF RecentErrors
  <1>6. (last = NoTime) <=> (Cardinality(with("success")) = 0)
    <2>1. \A n \in with("success") : done[n] \in Nat \ {NoTime}
      BY <1>1 DEF Ordered
    <2> HIDE DEF with, done
    <2>2. IsFiniteSet(ends)
      BY <1>2, FiniteImage
    <2>3. ends \subseteq Nat \ {NoTime}
      BY <2>1
    <2>4. ends = {} <=> with("success") = {}
      OBVIOUS
    <2> DEFINE all == {NoTime} \cup ends
    <2> HIDE DEF ends
    <2>5. IsFiniteSet(all) /\ all # {} /\ all \subseteq Int
      <3>1. IsFiniteSet(ends \cup {NoTime})
        BY <2>2, FS_AddElement
      <3>2. all = ends \cup {NoTime}
        OBVIOUS
      <3>3. NoTime \in Int
        BY DEF NoTime
      <3> QED BY <2>3, <3>1, <3>2, <3>3
    <2>6. last \in all /\ \A y \in all : last >= y
      <3> HIDE DEF all
      <3>1. \E x \in all : \A y \in all : x >= y
        BY <2>5, Extremes DEF HasExtremes
      <3>2. last = CHOOSE x \in all : \A y \in all : x >= y
        BY DEF Max, all
      <3> HIDE DEF last
      <3> QED BY <3>1, <3>2
    <2> HIDE DEF last
    <2>7. last = NoTime <=> ends = {}
      <3>1. ASSUME ends # {} PROVE last # NoTime
        <4>1. PICK y \in ends : TRUE
          BY <3>1
        <4>2. y \in Nat /\ y # 0 /\ last >= y
          BY <2>3, <2>6, <4>1 DEF NoTime
        <4> QED BY <4>2 DEF NoTime
      <3> QED BY <2>6, <3>1
    <2>8. Cardinality(with("success")) = 0 <=> with("success") = {}
      BY <1>2, FS_EmptySet
    <2> QED BY <2>4, <2>7, <2>8
  <1>7. ASSUME NEW n \in recent, NEW m \in D \ recent PROVE CreatedAt(bs[n]) >= CreatedAt(bs[m])
    <2> DEFINE after(k) == {j \in D : j > k}
    <2>1. n \in D /\ Cardinality(after(n)) < RecentCount /\ ~(Cardinality(after(m)) < RecentCount)
      BY <1>7 DEF RecentBackups, LastOf
    <2>2. \A k : IsFiniteSet(after(k)) /\ Cardinality(after(k)) \in Nat
      BY FS_Subset, FS_CardinalityType
    <2>3. ASSUME m > n PROVE FALSE
      <3>1. after(m) \in SUBSET after(n)
        BY <1>1, <2>1, <2>3
      <3> HIDE DEF after
      <3>2. Cardinality(after(m)) <= Cardinality(after(n))
        BY <2>2, <3>1, FS_Subset
      <3> QED BY <2>1, <2>2, <3>2, ListingAssumption
    <2>4. m # n
      BY <1>7
    <2>5. m < n
      BY <1>1, <2>1, <2>3, <2>4
    <2>6. CreatedAt(bs[m]) <= CreatedAt(bs[n])
      BY <2>1, <2>5 DEF Ordered
    <2> QED BY <1>1, <2>1, <2>6
  <1> QED BY <1>3, <1>4, <1>5, <1>6, <1>7, <1>8

(* The summaries count every backup once and agree with each other, for any *)
(* records, types and servers, and the newest and the failed are shown.     *)
THEOREM SummariesAlwaysAgree == Spec => []SummariesAgree
  <1>1. Init => OrderInv
    BY DEF Init, OrderInv, Ordered, EmptyLog
  <1>2. LogInv /\ OrderInv => SummariesAgree
    <2> SUFFICES ASSUME LogInv, OrderInv PROVE SummariesAgree
      OBVIOUS
    <2>1. IsLog(backups) /\ IsFiniteSet(DOMAIN backups)
      BY MatchesAreFinite DEF LogInv
    <2>2. now \in Nat /\ Ordered(backups, now)
      BY ListingAssumption DEF LogInv, OrderInv
    <2> DEFINE stats == GetStats(backups)
    <2>3. /\ TotalOf(stats.typeDistribution) = stats.totalCount
          /\ TotalOf(stats.serverDistribution) = stats.totalCount
          /\ TotalOf(stats.databaseDistribution) = stats.totalCount
          /\ TotalOf(stats.statusCounts) = stats.totalCount
      BY <2>1, DistributionAddsUp, StatusesAddUp DEF GetStats
    <2>4. \A f \in {stats.statusCounts, stats.typeDistribution, stats.serverDistribution,
                    stats.databaseDistribution} : TotalOf(f) = stats.totalCount
      BY <2>3
    <2> HIDE DEF stats
    <2> QED
      BY <2>1, <2>2, <2>4, QueriesCountAlike, LatestAreShown, Zenon DEF SummariesAgree, stats
  <1> QED BY <1>1, <1>2, OrderStep, ListingInvariant, PTL DEF Spec
===============================================================================
