-------------------------------- MODULE MCListing --------------------------------
(* Values for model checking Listing: databases of two servers whose names  *)
(* differ in their case only; a plain text to search for, found in one of   *)
(* them by its letters and in both in any case, and one with a wildcard,    *)
(* which LIKE finds in both; days of two seconds; every question with at    *)
(* most two filters.                                                        *)
EXTENDS Listing

CONSTANTS orders, users

MCTargets == {orders, users}
MCNameOf == [t \in Targets |-> IF t = orders THEN 1 ELSE 2]
MCServerOf == [t \in Targets |-> IF t = orders THEN "shop" ELSE "Shop"]
MCDatabaseOf == [t \in Targets |-> IF t = orders THEN "my_orders" ELSE "MyUsers"]
MCTypeOf == [t \in Targets |-> "daily"]
MCFolded(name) ==
    CASE name = "Shop" -> "shop" [] name = "MyUsers" -> "myusers" [] OTHER -> name

MCTexts == {"my", "my_"}
MCPlain == {"my"}
MCFoundExactly == [x \in MCTexts |-> {orders}]
MCFoundInAnyCase == [x \in MCTexts |-> IF x = "my" THEN {orders, users} ELSE {orders}]
MCFoundByLike == [x \in MCTexts |-> {orders, users}]

Everything ==
    [server |-> NoFilter, database |-> NoFilter, type |-> NoFilter, status |-> NoFilter,
     search |-> NoFilter, start |-> NoDate, end |-> NoDate, active |-> FALSE]

Values(filter) ==
    CASE filter = "server" -> {"shop"}
      [] filter = "database" -> {"myusers"}
      [] filter = "type" -> {"weekly"}
      [] filter = "status" -> {"success", "error", "pending", "active"}
      [] filter = "search" -> MCTexts
      [] filter = "start" -> {8, Garbled}
      [] filter = "end" -> {4, Garbled}
      [] filter = "active" -> {TRUE}

WithFilter(qs) ==
    qs \cup UNION {{[q EXCEPT ![filter] = v] : v \in Values(filter)} :
                        q \in qs, filter \in DOMAIN Everything}

MCQuestions == WithFilter(WithFilter({Everything}))

VisitTo(q, page, pageSize, sortBy, sortOrder) ==
    [question |-> q, page |-> page, pageSize |-> pageSize,
     sortBy |-> sortBy, sortOrder |-> sortOrder]

MCVisits ==
    {VisitTo(Everything, 1, 9, NoFilter, NoFilter),
     VisitTo([Everything EXCEPT !.status = "success", !.end = 4], -1, 0, "size", "desc"),
     VisitTo([Everything EXCEPT !.search = "my_"], 1, 1, "created_at", "asc")}
===============================================================================
