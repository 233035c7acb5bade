---------------------------- MODULE MCBackOffice ----------------------------
\* Small instances of UserEvents, MongoLog, Catalog, Directory, Promotions, Kitchen,
\* Settings, CustomerAddresses and Seed for TLC, one component and one workload per
\* behaviour.
EXTENDS UserEvents, TLC

CONSTANTS Null, Blank, NoRow, a1, a2, n1, n2, z1, i1, i2, b1, k1, t1, t2,
          Organizations, Names, Digits, Items, Stations, Products, Branches, Keys, Values,
          Created, Changes, Windows,
          Roles, Permissions, RolePermissions, OldRoles, OldPermissions,
          MaxRequests, MaxRows, MaxAddresses, MaxCoupons, MaxDay, MaxEdits,
          Workloads \* what a behaviour may be about

ASSUME ThreadsAreBounded == IsFiniteSet(Threads)

ASSUME NullIsNoValue == Null \notin Branches /\ Null \notin Values

VARIABLES client, next_retry_at, opened, created, server, clock, logger, logs,
          rows, catalog_session, asked,
          item_status, been, cancelled, kitchen_session, moves,
          settings, wanted, settings_session, updates,
          addresses, address_session, address_requests,
          entries, directory_session, directory_requests,
          promotions, coupons, today, promo_session, promo_answers, closed, promo_requests,
          stored, seeder, seeds, edits, up_to_date, began,
          workload \* what this behaviour is about; chosen once

Log == INSTANCE MongoLog WITH
    Loggers <- Threads, COOLDOWN <- 2, MaxClock <- 4, MaxLogs <- 5

Goods == INSTANCE Catalog WITH
    Barcodes <- Digits, Requests <- Threads

MCStations == [i \in {i1, i2} |-> IF i = i1 THEN "kitchen" ELSE "bar"]

Pass == INSTANCE Kitchen WITH Requests <- Threads, MaxMoves <- MaxRequests

Preferences == INSTANCE Settings WITH Requests <- Threads, MaxUpdates <- MaxRequests

Delivery == INSTANCE CustomerAddresses WITH Requests <- Threads

MCProducts == [p \in {i1, i2} |-> IF p = i1 THEN a1 ELSE a2]

People == INSTANCE Directory WITH
    Codes <- Names, Phones <- Digits, Requests <- Threads

MCCreated == {[title |-> n1, images |-> "list", is_active |-> TRUE]}
MCChanges == {[title |-> n2], [title |-> Null], [images |-> Null], [is_active |-> FALSE]}
MCWindows == {<<1, 2>>, <<1, 3>>, <<2, 1>>}

Site == INSTANCE Promotions WITH
    Promos <- Items, Titles <- Names, Codes <- Digits, Requests <- Threads

\* What clients send: columns of a promotion and nothing else, any of them null.
Sent(change) ==
    /\ DOMAIN change \subseteq {"title", "images", "is_active"}
    /\ "title" \in DOMAIN change => change["title"] \in Names \union {Null}
    /\ "images" \in DOMAIN change => change["images"] \in {"list", Null}
    /\ "is_active" \in DOMAIN change => change["is_active"] \in BOOLEAN \union {Null}

ASSUME PromotionsAssumption ==
    /\ NoRow \notin Site!Promotion /\ Null \notin Digits \union {"database error", "valid"}
    /\ Created \subseteq Site!Promotion
    /\ \A change \in Changes : Sent(change)
    /\ \A window \in Windows : window[1] \in Nat /\ window[2] \in Nat

\* Two roles and one code are of the first version, the Kitchen and kds of this one.
MCOldRoles == {"Superadmin", "Cashier"}
MCRoles == MCOldRoles \union {"Kitchen"}
MCOldPermissions == {"orders"}
MCPermissions == MCOldPermissions \union {"kds"}
MCRolePermissions ==
    {"Superadmin"} \X MCPermissions \union {<<"Cashier", "orders">>, <<"Kitchen", "kds">>}

Script == INSTANCE Seed WITH
    Seeders <- Threads, Codes <- Permissions, Configured <- RolePermissions,
    OldCodes <- OldPermissions, MaxSeeds <- MaxRequests

\* component, requests in flight at a time, handlers used, requests begun, organizations.
Workload(component, width, handlers, limit, organizations) ==
    [component |-> component, width |-> width, handlers |-> handlers, limit |-> limit,
     organizations |-> organizations]

MCWorkloads == {
    Workload("events", 2, {}, 4, {a1}),
    Workload("log", 1, {}, 5, {a1}),
    Workload("catalog", 1, {"category"}, 3, {a1, a2}),
    Workload("catalog", 1, {"product", "delete"}, 4, {a1}),
    Workload("catalog", 1, {"category", "product"}, 3, {a1, a2}),
    Workload("catalog", 1, {"supplier"}, 4, {a1, a2}),
    Workload("catalog", 1, {"product", "delete", "supplier", "link"}, 4, {a1}),
    Workload("catalog", 2, {"product", "supplier", "link"}, 3, {a1, a2}),
    Workload("kitchen", 1, {}, 6, {a1}),
    Workload("kitchen", 2, {}, 5, {a1}),
    Workload("settings", 1, {}, 4, {a1}),
    Workload("settings", 2, {}, 4, {a1}),
    Workload("addresses", 1, {}, 6, {a1}),
    Workload("addresses", 2, {}, 4, {a1}),
    Workload("directory", 1, {"branch"}, 4, {a1}),
    Workload("directory", 1, {"customer"}, 5, {a1}),
    Workload("directory", 1, {"customer", "review"}, 4, {a1, a2}),
    Workload("directory", 2, {"customer", "review"}, 3, {a1, a2}),
    Workload("promotions", 1, {"create", "update", "bulk", "delete"}, 3, {a1}),
    Workload("promotions", 2, {"create", "update", "delete"}, 3, {a1}),
    Workload("promotions", 2, {"create", "bulk"}, 3, {a1}),
    Workload("promotions", 1, {"coupon"}, 5, {a1}),
    Workload("promotions", 2, {"coupon"}, 3, {a1}),
    Workload("seed", 1, {"edit"}, 3, {a1}),
    Workload("seed", 2, {"edit"}, 2, {a1})}

MCInit ==
    /\ workload \in Workloads
    /\ Init /\ Log!Init /\ Goods!Init /\ Pass!Init /\ Preferences!Init /\ Delivery!Init
    /\ People!Init /\ Site!Init /\ Script!Init
    /\ workload.component = "events" \/ broker.up
    /\ workload.component = "log" \/ server
    /\ workload.component = "seed" \/ stored = {}

About(component) == workload.component = component
Serial == workload.width = 1
Uses(handler) == handler \in workload.handlers

Busy(sessions) == Cardinality({t \in Threads : sessions[t].stage # "idle"})

Within(sessions, count) ==
    /\ Busy(sessions) <= workload.width
    /\ count <= workload.limit
    /\ UNCHANGED workload

logVars == <<client, next_retry_at, opened, created, server, clock, logger, logs>>
goodsVars == <<rows, catalog_session, asked>>
passVars == <<item_status, been, cancelled, kitchen_session, moves>>
preferenceVars == <<settings, wanted, settings_session, updates>>
deliveryVars == <<addresses, address_session, address_requests>>
peopleVars == <<entries, directory_session, directory_requests>>
siteVars == <<promotions, coupons, today, promo_session, promo_answers, closed, promo_requests>>
scriptVars == <<stored, seeder, seeds, edits, up_to_date, began>>
NotEvents == <<logVars, goodsVars, passVars, preferenceVars, deliveryVars,
               peopleVars, siteVars, scriptVars, workload>>

LogStep ==
    /\ About("log") /\ Log!Next
    /\ UNCHANGED <<eventVars, goodsVars, passVars, preferenceVars, deliveryVars,
                   peopleVars, siteVars, scriptVars>>
    /\ Within(logger', logs')

OrganizationsUsed == workload.organizations \intersect Organizations

GoodsStep ==
    /\ About("catalog")
    /\ \E t \in Threads :
         \/ \E org \in OrganizationsUsed :
              \/ Uses("category") /\ Goods!SomeCategory(t, org)
              \/ Uses("product") /\ Goods!SomeProduct(t, org)
              \/ Uses("delete") /\ Goods!SomeDelete(t, org)
              \/ Uses("supplier") /\ Goods!SomeSupplier(t, org)
              \/ Uses("link") /\ Goods!SomeLink(t, org)
         \/ Goods!FlushInsert(t) \/ Goods!FlushUpdate(t) \/ Goods!Fail(t)
    /\ UNCHANGED <<eventVars, logVars, passVars, preferenceVars, deliveryVars,
                   peopleVars, siteVars, scriptVars>>
    /\ Within(catalog_session', asked')

PassStep ==
    /\ About("kitchen") /\ Pass!Next
    /\ UNCHANGED <<eventVars, logVars, goodsVars, preferenceVars, deliveryVars,
                   peopleVars, siteVars, scriptVars>>
    /\ Within(kitchen_session', moves')

PreferencesStep ==
    /\ About("settings") /\ Preferences!Next
    /\ UNCHANGED <<eventVars, logVars, goodsVars, passVars, deliveryVars,
                   peopleVars, siteVars, scriptVars>>
    /\ Within(settings_session', updates')

DeliveryStep ==
    /\ About("addresses") /\ Delivery!Next
    /\ UNCHANGED <<eventVars, logVars, goodsVars, passVars, preferenceVars,
                   peopleVars, siteVars, scriptVars>>
    /\ Within(address_session', address_requests')

PeopleStep ==
    /\ About("directory")
    /\ \E t \in Threads :
         \/ \E org \in OrganizationsUsed :
              \/ Uses("branch") /\ People!SomeBranch(t, org)
              \/ Uses("customer") /\ People!SomeCustomer(t, org)
              \/ Uses("review") /\ People!SomeReview(t, org)
         \/ People!FlushInsert(t) \/ People!FlushUpdate(t) \/ People!Fail(t)
    /\ UNCHANGED <<eventVars, logVars, goodsVars, passVars, preferenceVars, deliveryVars,
                   siteVars, scriptVars>>
    /\ Within(directory_session', directory_requests')

SiteStep ==
    /\ About("promotions")
    /\ \/ \E t \in Threads :
            \/ Uses("create") /\ Site!SomeCreate(t)
            \/ Uses("update") /\ Site!SomeUpdate(t)
            \/ Uses("bulk") /\ Site!SomeBulk(t)
            \/ Uses("delete") /\ Site!SomeDelete(t)
            \/ Uses("coupon") /\ Site!SomeCoupon(t, i1)
            \/ Site!Continue(t)
       \/ Uses("coupon") /\ Site!NextDay
    /\ UNCHANGED <<eventVars, logVars, goodsVars, passVars, preferenceVars, deliveryVars,
                   peopleVars, scriptVars>>
    /\ Within(promo_session', promo_requests')

NotScript == <<eventVars, logVars, goodsVars, passVars, preferenceVars, deliveryVars,
               peopleVars, siteVars, workload>>

ScriptStep ==
    /\ About("seed")
    /\ \/ \E t \in Threads : Script!Begin(t) \/ Script!Work(t) \/ Script!Crash(t)
       \/ Uses("edit") /\ (Script!Narrow \/ Script!CreateRole)
    /\ Cardinality({t \in Threads : seeder'[t].step # 0}) <= workload.width
    /\ seeds' <= workload.limit
    /\ UNCHANGED NotScript

MCNext ==
    \/ About("events") /\ Next /\ UNCHANGED NotEvents
    \/ LogStep \/ GoodsStep \/ PassStep \/ PreferencesStep \/ DeliveryStep
    \/ PeopleStep \/ SiteStep \/ ScriptStep

MCFairSpec ==
    /\ MCInit /\ [][MCNext]_<<eventVars, NotEvents>>
    /\ \A t \in Threads : WF_<<eventVars, NotEvents>>(About("events") /\ Work(t) /\ UNCHANGED NotEvents)
    /\ \A t \in Threads : WF_scriptVars(About("seed") /\ Script!Work(t) /\ UNCHANGED NotScript)

-----------------------------------------------------------------------------
(* The tables of the back office keep their types.                          *)
BackOfficeTypes ==
    /\ Goods!TypeOK /\ Pass!TypeOK /\ Preferences!TypeOK /\ Delivery!TypeOK
    /\ People!TypeOK /\ Site!TypeOK /\ Script!TypeOK

(* Whatever the broker does, publishers share one configured channel, what  *)
(* they report as published is queued, and only the broker makes one fail.  *)
PublishersAgree == [](PublishedIsQueued /\ ChannelIsConfigured) /\ OnlyTheBrokerFails

(* MongoLog, one thread at a time: writing a log never raises, no client is *)
(* lost without being closed, and no attempt comes before the cooldown ends *)
(* (mongodb/client.py:94).                                                  *)
LogIsHarmless ==
    [](Serial => Log!NeverRaises /\ Log!NoClientLeaks) /\ [][Serial => Log!CooldownStep]_logVars

(* Rows of one organization refer to rows of the same one, whatever         *)
(* overlaps: products, categories, suppliers and links, and reviews.        *)
OrganizationsApart == Goods!OrganizationsApart /\ People!ReviewersBelong

(* The lookups before an insert or a renaming find what its unique index    *)
(* would find, one request at a time (for what is stored: SKUs, barcodes,   *)
(* codes, phones) and, for the ids of promotions, whatever overlaps while   *)
(* none is deleted; supplier names, which no index covers, stay unique.     *)
ChecksForeseeInserts ==
    /\ Serial => /\ Goods!ChecksForeseeInserts /\ Goods!SuppliersNamedOnce
                 /\ People!ChecksForeseeInserts
    /\ ~Uses("delete") => Site!CreatesOnlyConflict

(* Reads that expect one row find it: the setting of a branch, whatever     *)
(* overlaps, with the value last set, one request at a time; and the        *)
(* default address of a customer.                                           *)
ReadersFindOneRow ==
    /\ Preferences!BranchSettingsReadable
    /\ Serial => Preferences!ReadsWhatWasSet /\ Delivery!OneDefault

(* What is over stays over: one request at a time deleted products and      *)
(* customers are not written again and final kitchen items do not move; and *)
(* a coupon code once refused as inactive or expired is never valid again.  *)
ClosedStaysClosed ==
    /\ [][Serial => Goods!DeletedStep]_goodsVars
    /\ [][Serial => People!DeletedStep]_peopleVars
    /\ [][Serial => Pass!FinalStep]_passVars
    /\ Site!ClosedCodesStayClosed

(* Updates do what they name: a bulk update changes all its promotions or   *)
(* none and an address asked to be the default is, one request at a time; a *)
(* promotion changes in the columns of the request only, whatever overlaps. *)
UpdatesAreExact ==
    /\ [][Serial => Site!BulkStep]_siteVars
    /\ [][Serial => Delivery!AskedStep]_deliveryVars
    /\ Site!OnlyNamedColumnsChange

(* Kitchen.ServedWasReady, whatever overlaps: no item is served that a      *)
(* station did not prepare, step by step.                                   *)
KitchenServedWasReady == Pass!ServedWasReady

(* Seed, whatever overlaps, fails or crashes: no row is there twice, the    *)
(* users of the seed have their roles, and after an undisturbed run nothing *)
(* configured is missing.                                                   *)
SeedLeavesComplete ==
    Script!TablesFilledOnce /\ Script!SeedUsersHaveRoles /\ Script!UpToDateIsComplete

(* Every publish ends and every run of the seed script ends, whatever the   *)
(* broker does and whichever run waits for the other: callers wait for both.*)
EveryRunEnds == EveryPublishEnds /\ Script!EverySeedEnds

(* Seed.SeedsAreIdempotent: a further run changes nothing (seed.py:7).      *)
SeedsAreIdempotent == Script!SeedsAreIdempotent
=============================================================================
