-------------------------------- MODULE Listing --------------------------------
(***************************************************************************)
(* What the program shows of its backups: the listings of the web page and *)
(* of the API with their filters, the pages a listing of the database      *)
(* store is cut into, and the counts (pkg/metadata/metadata.go,            *)
(* mysql_store.go, mysql_store_optimized.go; pkg/api/backups.go;           *)
(* pkg/adminserver/adminserver.go; pkg/pages/backupStatusPage.go;          *)
(* pkg/handlers/dashboard.go).                                             *)
(*                                                                         *)
(* Both stores hold the same records here: MetadataStore and CatalogStore  *)
(* have their edits in detail.  A client of the API reads the listing of   *)
(* the database store page after page while the records change: every page *)
(* is a query of its own.                                                  *)
(***************************************************************************)
EXTENDS BackupRecords, SequencesExt

CONSTANTS
    ServerOf, DatabaseOf, TypeOf,   (* the names a target is made of         *)
    Folded(_),        (* a name as the database compares it                  *)
    Texts,            (* that are searched for                               *)
    FoundExactly,     (* text -> targets in whose names it is found          *)
    FoundInAnyCase,   (* ... letters of either case being the same           *)
    FoundByLike,      (* ... by the LIKE of the database                     *)
    Plain,            (* texts that mean to LIKE no more than their letters  *)
    Questions,        (* the filters somebody may ask with                   *)
    Visits,           (* the page, its size and the order they may ask for   *)
    Sizes,            (* of successful backups                               *)
    Moments,          (* when something happens, in half seconds             *)
    DayLength,        (* half seconds in a day                               *)
    DefaultPageSize, MaxPageSize,   (* 50 1000                               *)
    RecentCount, ErrorCount,        (* 5 10                                  *)
    MaxEdits          (* bound: the log is edited no more often              *)

(* A filter that is absent, a date that does not parse.                     *)
NoFilter == ""
NoDate == 0
Garbled == -1

Question ==
    [server: STRING, database: STRING, type: STRING,
     status: Statuses \cup {NoFilter, "active"}, search: Texts \cup {NoFilter},
     start: Int, end: Int, active: BOOLEAN]

(* What the API is asked: the answer to a question, from a page on, so many *)
(* on each, in some order.                                                  *)
Visit ==
    [question: Questions, page: Int, pageSize: Int,
     sortBy: {NoFilter, "created_at", "size"}, sortOrder: {NoFilter, "asc", "desc"}]

(* A text is no filter; LIKE finds at least what is found letter by letter, *)
(* and of a plain text no more.  Reading begins with a first page.          *)
ASSUME ListingAssumption ==
    /\ NoFilter \notin Texts /\ Plain \subseteq Texts
    /\ \A x \in Texts : /\ FoundExactly[x] \subseteq FoundInAnyCase[x]
                        /\ FoundInAnyCase[x] \subseteq FoundByLike[x]
    /\ \A x \in Plain : FoundByLike[x] = FoundInAnyCase[x]
    /\ DayLength \in Nat /\ DayLength > 2
    /\ \A q \in Questions : {q.start, q.end} \subseteq {NoDate, Garbled}
                                \cup {d \in Nat \ {0} : d % DayLength = 0}
    /\ Questions \subseteq Question
    /\ Visits \subseteq Visit /\ \A v \in Visits : v.page <= 1
    /\ Sizes \subseteq Nat
    /\ \A m \in Moments : m \in Nat /\ m >= DayLength
    /\ DefaultPageSize \in Nat \ {0} /\ MaxPageSize \in Nat \ {0}
    /\ RecentCount \in Nat /\ ErrorCount \in Nat /\ MaxEdits \in Nat

VARIABLES
    backups,     (* the records, as a log                                    *)
    now,         (* the clock                                                *)
    edits,       (* made to the log so far                                   *)
    asked,       (* what the client asks: a question, a page, its size, ...  *)
    answer       (* the page it got                                          *)

(* Observed, not used: what should be seen in the end, what was seen, and   *)
(* whether the places of what matches may have moved up meanwhile.          *)
VARIABLES expected, seen, disturbed

log == <<backups, now, edits>>
vars == <<log, asked, answer, expected, seen, disturbed>>

NothingAsked == [page |-> 0]
NoAnswer == [data |-> << >>]

-------------------------------------------------------------------------------
(* A name that is asked for: the loop over the file wants its very letters, *)
(* the database what its collation takes for the same.                      *)
Stores == {"file", "database"}

IsName(store, wanted, name) ==
    \/ wanted = NoFilter
    \/ wanted = name
    \/ store = "database" /\ Folded(wanted) = Folded(name)

Wanted(store, q) ==
    {t \in Targets : /\ IsName(store, q.server, ServerOf[t])
                     /\ IsName(store, q.database, DatabaseOf[t])
                     /\ IsName(store, q.type, TypeOf[t])}

GetBackupsFiltered(store, bs, q, activeOnly) == Filtered(bs, Wanted(store, q), activeOnly)

CreatedAt(r) == r.id[2]

(* Both dates as the API reads them: one that does not parse is passed      *)
(* over, and the end of a range is the midnight after its last day.         *)
Between(r, q) ==
    /\ q.start > NoDate => CreatedAt(r) >= q.start
    /\ q.end > NoDate => CreatedAt(r) < q.end + DayLength

(* The text is looked for in the identifier, the server and the database.   *)
Finds(found, r, q) == q.search # NoFilter => r.target \in found[q.search]

(* Mutant: the range ends at the midnight before its last day.              *)
applyFiltersToMidnight(bs, q) ==
    {n \in DOMAIN bs :
        /\ bs[n].target \in Wanted("database", q)
        /\ IF q.status # NoFilter THEN bs[n].status = q.status
           ELSE q.active => bs[n].status = "success"
        /\ q.start > NoDate => CreatedAt(bs[n]) >= q.start
        /\ q.end > NoDate => CreatedAt(bs[n]) < q.end
        /\ Finds(FoundByLike, bs[n], q)}

(* The query of the database: a status takes the place of activeOnly.       *)
applyFilters(bs, q) ==
    {n \in DOMAIN bs :
        /\ bs[n].target \in Wanted("database", q)
        /\ IF q.status # NoFilter THEN bs[n].status = q.status
           ELSE q.active => bs[n].status = "success"
        /\ Between(bs[n], q)
        /\ Finds(FoundByLike, bs[n], q)}

(* The API of the file store: both filters of the status apply.             *)
handleBackupsLegacy(bs, q) ==
    {n \in GetBackupsFiltered("file", bs, q, q.active) :
        /\ Between(bs[n], q)
        /\ Finds(FoundExactly, bs[n], q)
        /\ q.status # NoFilter => bs[n].status = q.status}

(* /api/backups as it is served, of either store: three filters.            *)
listBackupsHandler(store, bs, q) ==
    GetBackupsFiltered(store, bs, [q EXCEPT !.server = NoFilter], q.active)

(* The page of the backups, of either store.  "active" is no status of a    *)
(* record: it should make the store leave out the others, which it is asked *)
(* to when no status is given.  A date that does not parse is the zero      *)
(* time, which as a start counts for nothing; the end is moved to the last  *)
(* second of its day.                                                       *)
Second == 2
Parsed(date) == IF date = Garbled THEN NoTime ELSE date
LastSecond(q) ==
    IF q.end = NoDate THEN NoTime ELSE Parsed(q.end) + DayLength - Second

BackupStatusPage(store, bs, q) ==
    LET filterActive == q.status = "active"
        useActiveOnly == filterActive /\ q.status = NoFilter
        start == Parsed(q.start)
        end == LastSecond(q)
    IN  {n \in GetBackupsFiltered(store, bs, q, useActiveOnly) :
            /\ q.status \notin {NoFilter, "active"} => bs[n].status = q.status
            /\ start # NoTime => CreatedAt(bs[n]) >= start
            /\ end # NoTime => CreatedAt(bs[n]) <= end
            /\ Finds(FoundInAnyCase, bs[n], q)}

(* The first and the last few of some records, in the order of the slice.   *)
FirstOf(ns, limit) == {n \in ns : Cardinality({m \in ns : m < n}) < limit}
LastOf(ns, limit) == {n \in ns : Cardinality({m \in ns : m > n}) < limit}

(* The same page shows some of the failures, which all have a message,      *)
(* unless it is a listing of failures already.                              *)
RecentErrors(bs, q) ==
    IF q.status = "error" THEN {}
    ELSE FirstOf({n \in DOMAIN bs : bs[n].status = "error"}, ErrorCount)

-------------------------------------------------------------------------------
(* What matches, in the order asked for: by creation or by size, the newest *)
(* or largest first unless asked otherwise.  Equal ones come in any order,  *)
(* and in another one the next time.                                        *)
SortKey(r, sortBy) == IF sortBy = "size" THEN r.size ELSE CreatedAt(r)

InOrder(rows, bs, v) ==
    \A i, j \in DOMAIN rows :
        i < j => LET a == SortKey(bs[rows[i]], v.sortBy)
                     b == SortKey(bs[rows[j]], v.sortBy)
                 IN  IF v.sortOrder = "asc" THEN a <= b ELSE a >= b

Rankings(bs, v) == {rows \in SetToSeqs(applyFilters(bs, v.question)) : InOrder(rows, bs, v)}

Least(a, b) == IF a < b THEN a ELSE b

(* Page and size as the query uses them, and the page that is cut out.      *)
PageFrom(rows, page, pageSize, offset) ==
    [page |-> page, pageSize |-> pageSize, total |-> Len(rows),
     data |-> SubSeq(rows, offset + 1, Least(offset + pageSize, Len(rows))),
     totalPages |-> (Len(rows) \div pageSize) + (IF Len(rows) % pageSize > 0 THEN 1 ELSE 0)]

PageInForce(v) == IF v.page < 1 THEN 1 ELSE v.page
SizeInForce(v) == IF v.pageSize < 1 THEN DefaultPageSize ELSE Least(v.pageSize, MaxPageSize)

(* Mutants: the last page must be full; pages are counted from zero.        *)
PaginatedInFull(rows, v) ==
    [PageFrom(rows, PageInForce(v), SizeInForce(v), (PageInForce(v) - 1) * SizeInForce(v))
        EXCEPT !.totalPages = Len(rows) \div SizeInForce(v)]
PaginatedFromZero(rows, v) ==
    PageFrom(rows, PageInForce(v), SizeInForce(v), PageInForce(v) * SizeInForce(v))

GetBackupsPaginated(rows, v) ==
    PageFrom(rows, PageInForce(v), SizeInForce(v), (PageInForce(v) - 1) * SizeInForce(v))

-------------------------------------------------------------------------------
(* Counts of the dashboard and of the API.                                  *)
Count(bs, ns, status) == Cardinality({n \in ns : bs[n].status = status})

(* How many records there are of each server, database or type.             *)
Distribution(bs, nameOf) ==
    [x \in {nameOf[bs[n].target] : n \in DOMAIN bs} |->
        Cardinality({n \in DOMAIN bs : nameOf[bs[n].target] = x})]

LastBackupTime(bs) ==
    Max({NoTime} \cup {bs[n].doneAt : n \in {m \in DOMAIN bs : bs[m].status = "success"}})

GetStats(bs) ==
    [totalCount |-> Cardinality(DOMAIN bs), totals |-> Totals(bs),
     statusCounts |-> [s \in Statuses |-> Count(bs, DOMAIN bs, s)],
     typeDistribution |-> Distribution(bs, TypeOf),
     serverDistribution |-> Distribution(bs, ServerOf),
     databaseDistribution |-> Distribution(bs, DatabaseOf),
     lastBackupTime |-> LastBackupTime(bs)]

(* The same by queries of the database, with the recent activity.  A status *)
(* no backup has is not counted at all, and GROUP BY puts names together    *)
(* that the collation takes for the same.                                   *)
SumWhere(bs, ns) == MapThenSumSet(LAMBDA n : bs[n].size, ns)
MadeSince(bs, moment) == Cardinality({n \in DOMAIN bs : CreatedAt(bs[n]) >= moment})
GroupedBy(bs, nameOf) == Distribution(bs, [t \in Targets |-> Folded(nameOf[t])])

GetStatsOptimized(bs, at) ==
    [totalCount |-> Cardinality(DOMAIN bs),
     totalLocalSize |-> SumWhere(bs, {n \in DOMAIN bs : bs[n].status = "success"}),
     totalS3Size |-> SumWhere(bs, {n \in DOMAIN bs : bs[n].s3 = "success"}),
     statusCounts |-> [s \in {bs[n].status : n \in DOMAIN bs} |-> Count(bs, DOMAIN bs, s)],
     typeDistribution |-> GroupedBy(bs, TypeOf),
     serverDistribution |-> GroupedBy(bs, ServerOf),
     recentActivity |-> [days \in {1, 7, 30} |-> MadeSince(bs, at - days * DayLength)],
     lastBackupTime |-> LastBackupTime(bs)]

(* The last few of the list of all backups, in the order of the file store. *)
(* Mutant: the first few.                                                   *)
FirstBackups(bs) == FirstOf(DOMAIN bs, RecentCount)
RecentBackups(bs) == LastOf(DOMAIN bs, RecentCount)

-------------------------------------------------------------------------------
Init ==
    /\ backups = EmptyLog
    /\ now \in Moments /\ \A m \in Moments : now <= m
    /\ edits = 0
    /\ asked = NothingAsked /\ answer = NoAnswer
    /\ expected = {} /\ seen = {} /\ disturbed = FALSE

Reading == asked # NothingAsked
MatchesIn(bs) == IF Reading THEN applyFilters(bs, asked.question) ELSE {}
KeyIn(bs, n) == SortKey(bs[n], asked.sortBy)

(* Two that match are equal in the order asked for.                         *)
Tied(bs, ns, sortBy) ==
    \E n, m \in ns : n # m /\ SortKey(bs[n], sortBy) = SortKey(bs[m], sortBy)

(* The log changes under whoever is reading it.                             *)
Becomes(bs) ==
    /\ edits < MaxEdits /\ edits' = edits + 1
    /\ backups' = bs
    /\ expected' = expected \cap MatchesIn(bs)
    /\ disturbed' =
          \/ disturbed
          \/ Reading /\ Tied(bs, MatchesIn(bs), asked.sortBy)
          \/ \E n \in MatchesIn(backups) : n \notin MatchesIn(bs) \/ KeyIn(bs, n) # KeyIn(backups, n)
    /\ UNCHANGED <<now, asked, answer, seen>>

(* The edits of the stores.  Every backup has an identifier of its own.     *)
Create(t) ==
    /\ ~Known(backups, IdAt(t, now))
    /\ Becomes(WithNew(backups, edits + 1, t, now))

Settle(n, status, size) ==
    /\ backups[n].status = "pending"
    /\ Becomes(WithStatus(backups, backups[n].id, status, {}, size, now))

Upload(n) ==
    /\ backups[n].status = "success" /\ backups[n].s3 = "pending"
    /\ Becomes(WithUpload(backups, backups[n].id, "success"))

Delete(n) == Becomes(WithDeletion(backups, backups[n].id))

Purge ==
    /\ \E n \in DOMAIN backups : Purgeable(backups[n], now)
    /\ Becomes(Purged(backups, now))

Tick ==
    /\ \E m \in Moments : /\ m > now /\ \A k \in Moments : k > now => m <= k
                          /\ now' = m
    /\ UNCHANGED <<backups, edits, asked, answer, expected, seen, disturbed>>

-------------------------------------------------------------------------------
(* A page is asked for, and sent.  A query that fails is answered with 500  *)
(* and without a page: the client has what it had, and may ask again, a     *)
(* step that changes nothing here.  (Over the file store the handler sends  *)
(* all of handleBackupsLegacy as the one page there is.)                    *)
handleBackups(v) ==
    /\ asked' = v
    /\ \E rows \in Rankings(backups, v) : answer' = GetBackupsPaginated(rows, v)
    /\ UNCHANGED log

(* The first page of a listing, from which reading begins.                  *)
Open(v) ==
    /\ ~Reading
    /\ handleBackups(v)
    /\ LET matching == applyFilters(backups, v.question)
       IN  /\ expected' = matching
           /\ disturbed' = Tied(backups, matching, v.sortBy)
    /\ seen' = ToSet(answer'.data)

(* The client goes on until it has as many pages as it was told there are.  *)
OnLastPage == answer.page >= answer.totalPages

NextPage ==
    /\ Reading /\ ~OnLastPage
    /\ handleBackups([asked EXCEPT !.page = PageInForce(asked) + 1])
    /\ seen' = seen \cup ToSet(answer'.data)
    /\ UNCHANGED <<expected, disturbed>>

Leave ==
    /\ Reading
    /\ asked' = NothingAsked /\ answer' = NoAnswer
    /\ expected' = {} /\ seen' = {} /\ disturbed' = FALSE
    /\ UNCHANGED log

-------------------------------------------------------------------------------
Edit ==
    \/ \E t \in Targets : Create(t)
    \/ \E n \in DOMAIN backups :
          \/ \E size \in Sizes : Settle(n, "success", size)
          \/ Settle(n, "error", 0)
          \/ Upload(n) \/ Delete(n)
    \/ Purge

Read == NextPage \/ Leave \/ \E v \in Visits : Open(v)

Next == Edit \/ Tick \/ Read

Spec == Init /\ [][Next]_vars

-------------------------------------------------------------------------------
(* Whoever reads a listing of the API to its last page has been sent every  *)
(* backup that matched all along, if meanwhile none that matched vanished,  *)
(* ceased to match or changed its place, and no two were equal in the       *)
(* order; new ones only move others to later pages ("returns paginated      *)
(* backup results").                                                        *)
BrowsingMissesNothing ==
    (Reading /\ OnLastPage /\ ~disturbed) => expected \subseteq seen

(* Asked for all its pages at once, a listing is sent whole: whatever page  *)
(* and size were asked for and whatever size is used instead, every row has *)
(* one place on one of the pages that are counted, none of these is empty,  *)
(* and every later one is ("Calculate total pages").                        *)
PageOf(rows, v, p) == GetBackupsPaginated(rows, [v EXCEPT !.page = p])

PagesHold(rows, v) ==
    LET size == PageOf(rows, v, 1).pageSize
        pages == PageOf(rows, v, 1).totalPages
    IN  /\ \A k \in 1 .. Len(rows) :
              LET p == ((k - 1) \div size) + 1
                  place == ((k - 1) % size) + 1
              IN  /\ p <= pages
                  /\ place <= Len(PageOf(rows, v, p).data)
                  /\ PageOf(rows, v, p).data[place] = rows[k]
        /\ \A p \in 1 .. pages + 2 :
              LET page == PageOf(rows, v, p)
              IN  /\ page.totalPages = pages /\ page.pageSize = size /\ page.page = p
                  /\ (page.data = << >>) <=> p > pages
                  /\ Len(page.data) <= size

PagesAreWhole ==
    ~Reading => \A v \in Visits : \A rows \in Rankings(backups, v) : PagesHold(rows, v)

(* Whatever is asked for, the listings give the same backups.  The loops    *)
(* over the file differ from the queries of the database about the names    *)
(* and texts that only the database takes for the same, and about a status  *)
(* together with activeOnly; the page differs from the API about a date     *)
(* that does not parse, about what was made within the last second of a     *)
(* day, and about "active", for which it shows all ("Add 1 day to include   *)
(* the entire end date", "Add 23:59:59 to include the entire end date").    *)
SameAnswer(q) ==
    LET byQuery == applyFilters(backups, q)
        byLoop == handleBackupsLegacy(backups, q)
        named(store, n) == backups[n].target \in Wanted(store, q)
    IN  /\ q.status = NoFilter \/ ~q.active =>
              byLoop = {n \in byQuery : named("file", n) /\ Finds(FoundExactly, backups[n], q)}
        /\ q.status # "active" /\ ~q.active =>
              \A store \in Stores :
                  LET byPage == BackupStatusPage(store, backups, q)
                  IN  /\ byPage \subseteq byQuery
                      /\ q.end # Garbled =>
                            \A n \in byQuery \ byPage :
                                \/ q.end # NoDate /\ CreatedAt(backups[n]) > LastSecond(q)
                                \/ store = "file" /\ ~named(store, n)
                                \/ q.search \notin Plain \cup {NoFilter}
        /\ q = [q EXCEPT !.server = NoFilter, !.status = NoFilter, !.search = NoFilter,
                         !.start = NoDate, !.end = NoDate] =>
              /\ listBackupsHandler("file", backups, q) = byLoop
              /\ listBackupsHandler("database", backups, q) = byQuery
        /\ byQuery \subseteq listBackupsHandler("database", backups, [q EXCEPT !.active = FALSE])

ListingsAgree == ~Reading => \A q \in Questions : SameAnswer(q)

(* The counts are those of the listings: every backup is counted once among *)
(* the statuses, the types, the servers and the databases, the queries of   *)
(* the database count like the loop over the file, with the counts of names *)
(* it takes for the same put together, no failure is kept from the page of  *)
(* the backups while there is room for it, and the dashboard has the newest *)
(* backups ("Get recent backups (last 5)") where the list of all is that of *)
(* the file store.                                                          *)
TotalOf(f) == MapThenSumSet(LAMBDA x : f[x], DOMAIN f)

PutTogether(counted, grouped) ==
    /\ DOMAIN grouped = {Folded(x) : x \in DOMAIN counted}
    /\ \A c \in DOMAIN grouped :
          grouped[c] = MapThenSumSet(LAMBDA x : counted[x],
                                     {x \in DOMAIN counted : Folded(x) = c})

SummariesAgree ==
    LET stats == GetStats(backups)
        counted == GetStatsOptimized(backups, now)
        recent == RecentBackups(backups)
    IN  ~Reading =>
        /\ \A f \in {stats.statusCounts, stats.typeDistribution, stats.serverDistribution,
                     stats.databaseDistribution} :
              TotalOf(f) = stats.totalCount
        /\ counted.totalLocalSize = stats.totals.local
        /\ counted.totalS3Size = stats.totals.s3
        /\ \A s \in Statuses :
              stats.statusCounts[s] = IF s \in DOMAIN counted.statusCounts
                                      THEN counted.statusCounts[s] ELSE 0
        /\ PutTogether(stats.typeDistribution, counted.typeDistribution)
        /\ PutTogether(stats.serverDistribution, counted.serverDistribution)
        /\ \A q \in Questions : q.status # "error" =>
              Cardinality(RecentErrors(backups, q)) = Least(ErrorCount, stats.statusCounts["error"])
        /\ (stats.lastBackupTime = NoTime) <=> (stats.statusCounts["success"] = 0)
        /\ \A n \in recent, m \in DOMAIN backups \ recent :
              CreatedAt(backups[n]) >= CreatedAt(backups[m])
===============================================================================
