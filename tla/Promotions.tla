------------------------------ MODULE Promotions ------------------------------
(***************************************************************************)
(* The promotions of the public site and the coupons that name them.       *)
(*                                                                         *)
(* A request loads the promotions it names one by one, commits, and then   *)
(* reads what it answers with once more; others may commit at any point.   *)
(* The database does not know that coupons refer to promotions.            *)
(***************************************************************************)
EXTENDS Integers, Sequences, SequencesExt, FiniteSetsExt

CONSTANTS
    Promos,     \* ids, chosen by the client; numerals, as coupons name them by number
    Titles,
    Codes,      \* of coupons
    Null,       \* null in a request, NULL in a column
    NoRow,
    Created,    \* what clients send of a promotion to create
    Changes,    \* what they send to change one: the columns they name, null for some
    Windows,    \* what they send as start_date and end_date of a coupon, pairs of days
    Requests,   \* requests that may be in flight; a singleton is a serial run
    MaxCoupons, \* bound of the model: coupons
    MaxDay,     \* bound of the model: days
    MaxRequests \* bound of the model: requests begun

VARIABLES
    promotions,     \* id -> its columns, or NoRow
    coupons,        \* in the order of their ids
    today,
    promo_session,  \* per request: what it was asked and what it has loaded
    promo_answers,  \* per request: its handler, its coupon code and its answer (history)
    closed,         \* history: codes refused as inactive or expired
    promo_requests  \* requests so far (bound of the model)

promoVars == <<promotions, coupons, today, promo_session, promo_answers, closed, promo_requests>>

\* All columns are NOT NULL, but the null of images is stored as the JSON value null.
Promotion == [title : Titles, images : {"list", Null}, is_active : BOOLEAN]

Item(id, change) == [id |-> id, change |-> change]

Coupon(code, id, start_date, end_date) ==
    [code |-> code, promotion |-> id, is_active |-> TRUE,
     start_date |-> start_date, end_date |-> end_date]

IdleRequest == [stage |-> "idle", handler |-> Null, items |-> <<>>, loaded |-> <<>>, coupon |-> Null]

NoAnswer == [handler |-> Null, code |-> Null, answer |-> Null]

Init ==
    /\ promotions = [id \in Promos |-> NoRow]
    /\ coupons = <<>>
    /\ today = 1
    /\ promo_session = [r \in Requests |-> IdleRequest]
    /\ promo_answers = [r \in Requests |-> NoAnswer]
    /\ closed = {}
    /\ promo_requests = 0

-----------------------------------------------------------------------------
Begin(r, handler, stage, items, coupon) ==
    /\ promo_session[r].stage = "idle"
    /\ promo_requests < MaxRequests
    /\ promo_requests' = promo_requests + 1
    /\ promo_session' = [promo_session EXCEPT ![r] =
            [stage |-> stage, handler |-> handler, items |-> items, loaded |-> <<>>,
             coupon |-> coupon]]
    /\ promo_answers' = [promo_answers EXCEPT ![r] = NoAnswer]
    /\ UNCHANGED <<promotions, coupons, today, closed>>

Goto(r, session) ==
    promo_session' = [promo_session EXCEPT ![r] = session] /\ UNCHANGED <<promo_answers, promo_requests>>

Answer(r, answer) ==
    /\ promo_session' = [promo_session EXCEPT ![r] = IdleRequest]
    /\ promo_answers' = [promo_answers EXCEPT ![r] =
            [handler |-> promo_session[r].handler, answer |-> answer,
             code |-> IF promo_session[r].coupon = Null THEN Null ELSE promo_session[r].coupon.code]]
    /\ UNCHANGED promo_requests

At(r, stage, handlers) ==
    promo_session[r].stage = stage /\ promo_session[r].handler \in handlers

\* Wrong on purpose: bulk_update passes over ids that are not there.
MissingInSingle(r, id) == promo_session[r].handler # "bulk" /\ promotions[id] = NoRow

Missing(r, id) == promotions[id] = NoRow

\* The next db.get of update, bulk_update or delete.
LoadPromotion(r) ==
    LET s == promo_session[r]
        id == s.items[Len(s.loaded) + 1].id
        last == Len(s.loaded) + 1 = Len(s.items)
    IN
    /\ At(r, "load", {"update", "bulk", "delete"})
    /\ IF Missing(r, id)
       THEN Answer(r, "not found")
       ELSE Goto(r, [s EXCEPT !.loaded = Append(@, promotions[id]),
                              !.stage = IF last THEN "commit" ELSE "load"])
    /\ UNCHANGED <<promotions, coupons, today, closed>>

\* create: the id is looked up, inserted, and the row read once more.
LoadNew(r) ==
    /\ At(r, "load", {"create"})
    /\ IF promotions[promo_session[r].items[1].id] # NoRow
       THEN Answer(r, "conflict")
       ELSE Goto(r, [promo_session[r] EXCEPT !.stage = "commit"])
    /\ UNCHANGED <<promotions, coupons, today, closed>>

Duplicate == "conflict"

CommitNew(r) ==
    LET s == promo_session[r] item == s.items[1] IN
    /\ At(r, "commit", {"create"})
    /\ IF promotions[item.id] # NoRow
       THEN Answer(r, Duplicate) /\ UNCHANGED promotions
       ELSE /\ promotions' = [promotions EXCEPT ![item.id] = item.change]
            /\ Goto(r, [s EXCEPT !.stage = "refresh"])
    /\ UNCHANGED <<coupons, today, closed>>

\* The columns an item changes: what it names and the loaded row has otherwise.
Changed(item, loaded) == {c \in DOMAIN item.change : loaded = NoRow \/ item.change[c] # loaded[c]}

\* An UPDATE that finds no row, or sets a NOT NULL column to NULL.
Refused(item, loaded) ==
    LET columns == Changed(item, loaded) IN
    columns # {} /\ (promotions[item.id] = NoRow \/ \E c \in columns : c # "images" /\ item.change[c] = Null)

Written(current, item, loaded) ==
    [c \in DOMAIN current |-> IF c \in Changed(item, loaded) THEN item.change[c] ELSE current[c]]

\* All the items of a request, or none.
CommitChanges(r) ==
    LET s == promo_session[r]
        written == [id \in Promos |->
            IF \E i \in DOMAIN s.items : s.items[i].id = id /\ promotions[id] # NoRow
            THEN LET i == CHOOSE n \in DOMAIN s.items : s.items[n].id = id
                 IN Written(promotions[id], s.items[i], s.loaded[i])
            ELSE promotions[id]]
    IN
    /\ At(r, "commit", {"update", "bulk"})
    /\ IF \E i \in DOMAIN s.items : s.loaded[i] # NoRow /\ Refused(s.items[i], s.loaded[i])
       THEN Answer(r, "database error") /\ UNCHANGED promotions
       ELSE /\ promotions' = written
            /\ IF s.handler = "bulk" THEN Answer(r, "ok") ELSE Goto(r, [s EXCEPT !.stage = "refresh"])
    /\ UNCHANGED <<coupons, today, closed>>

\* A row that is gone by now is deleted without an error.
CommitDelete(r) ==
    /\ At(r, "commit", {"delete"})
    /\ promotions' = [promotions EXCEPT ![promo_session[r].items[1].id] = NoRow]
    /\ Answer(r, "ok")
    /\ UNCHANGED <<coupons, today, closed>>

Readable(id) == promotions[id].images # Null

\* db.refresh, and the response model, which wants a list of images.
Refresh(r) ==
    LET id == promo_session[r].items[1].id IN
    /\ At(r, "refresh", {"create", "update"})
    /\ Answer(r, IF promotions[id] = NoRow THEN "database error"
                 ELSE IF Readable(id) THEN "ok" ELSE "server error")
    /\ UNCHANGED <<promotions, coupons, today, closed>>

-----------------------------------------------------------------------------
\* Coupons.

WithCode(code) == {i \in DOMAIN coupons : coupons[i].code = code}

LoadCode(r) ==
    /\ At(r, "load", {"coupon"})
    /\ IF WithCode(promo_session[r].coupon.code) # {}
       THEN Answer(r, "conflict")
       ELSE Goto(r, [promo_session[r] EXCEPT !.stage = "commit"])
    /\ UNCHANGED <<promotions, coupons, today, closed>>

\* uq_coupon_org_code and ck_coupon_date_range; both end in a server error.
InsertCoupon(r) ==
    LET coupon == promo_session[r].coupon IN
    /\ At(r, "commit", {"coupon"})
    /\ IF WithCode(coupon.code) = {} /\ coupon.end_date > coupon.start_date
       THEN coupons' = Append(coupons, coupon) /\ Answer(r, "ok")
       ELSE Answer(r, "database error") /\ UNCHANGED coupons
    /\ UNCHANGED <<promotions, today, closed>>

Deactivated(coupon) == [coupon EXCEPT !.is_active = FALSE]

\* delete writes the same value whatever was read.
DeleteCoupon(r) ==
    /\ At(r, "load", {"delete coupon"})
    /\ \E i \in DOMAIN coupons : coupons' = [coupons EXCEPT ![i] = Deactivated(@)]
    /\ Answer(r, "ok")
    /\ UNCHANGED <<promotions, today, closed>>

\* Uses are never counted: used_count stays 0 and coupon_usages empty, so that
\* neither limit is ever reached.
Verdict(code) ==
    IF WithCode(code) = {} THEN "not found"
    ELSE LET coupon == coupons[CHOOSE i \in WithCode(code) : TRUE] IN
         CASE ~coupon.is_active -> "inactive"
           [] coupon.is_active /\ coupon.end_date < today -> "expired"
           [] coupon.is_active /\ coupon.end_date >= today /\ coupon.start_date > today -> "not yet"
           [] OTHER -> "valid"

\* _validate_coupon_inner; whatever promotion is found, its discount is None.
ValidateCoupon(r) ==
    LET verdict == Verdict(promo_session[r].coupon.code) IN
    /\ At(r, "load", {"validate"})
    /\ closed' = IF verdict \in {"inactive", "expired"}
                 THEN closed \union {promo_session[r].coupon.code} ELSE closed
    /\ Answer(r, verdict)
    /\ UNCHANGED <<promotions, coupons, today>>

NextDay ==
    /\ today < MaxDay
    /\ today' = today + 1
    /\ UNCHANGED <<promotions, coupons, promo_session, promo_answers, closed, promo_requests>>

-----------------------------------------------------------------------------
SomeCreate(r) ==
    \E id \in Promos, p \in Created : Begin(r, "create", "load", <<Item(id, p)>>, Null)

SomeUpdate(r) ==
    \E id \in Promos, change \in Changes : Begin(r, "update", "load", <<Item(id, change)>>, Null)

\* Two changes of one object: of a column both name the second one stays.
Later(x, y) ==
    [c \in DOMAIN x \union DOMAIN y |-> IF c \in DOMAIN y THEN y[c] ELSE x[c]]

\* Two items.  An id that is named twice is loaded once, the second db.get finds the
\* object in the session, and one UPDATE writes what both items left in it.
SomeBulk(r) ==
    \E a, b \in Promos, x, y \in Changes :
        Begin(r, "bulk", "load",
              IF a = b THEN <<Item(a, Later(x, y))>> ELSE <<Item(a, x), Item(b, y)>>, Null)

SomeDelete(r) ==
    \E id \in Promos : Begin(r, "delete", "load", <<Item(id, [title |-> Null])>>, Null)

SomeCoupon(r, id) ==
    \/ Len(coupons) < MaxCoupons /\ \E code \in Codes, window \in Windows :
         Begin(r, "coupon", "load", <<>>, Coupon(code, id, window[1], window[2]))
    \/ Begin(r, "delete coupon", "load", <<>>, Null)
    \/ \E code \in Codes : Begin(r, "validate", "load", <<>>, [code |-> code])

\* A client that is gone: close without commit.
Abandon(r) ==
    /\ promo_session[r].stage # "idle"
    /\ Answer(r, Null)
    /\ UNCHANGED <<promotions, coupons, today, closed>>

Continue(r) ==
    \/ LoadPromotion(r) \/ LoadNew(r) \/ CommitNew(r) \/ CommitChanges(r) \/ CommitDelete(r)
    \/ Refresh(r) \/ LoadCode(r) \/ InsertCoupon(r) \/ DeleteCoupon(r) \/ ValidateCoupon(r)
    \/ Abandon(r)

Next ==
    \/ \E r \in Requests :
         \/ SomeCreate(r) \/ SomeUpdate(r) \/ SomeBulk(r) \/ SomeDelete(r)
         \/ \E id \in Promos : SomeCoupon(r, id)
         \/ Continue(r)
    \/ NextDay

Spec == Init /\ [][Next]_promoVars

-----------------------------------------------------------------------------
TypeOK ==
    /\ promotions \in [Promos -> Promotion \union {NoRow}]
    /\ \A i \in DOMAIN coupons :
         coupons[i].code \in Codes /\ coupons[i].start_date < coupons[i].end_date
    /\ closed \subseteq Codes

(* One request at a time: a bulk update that changes anything has changed   *)
(* all it was asked to; an id that is missing leaves the others as they     *)
(* were (bulk_update's rollback).                                           *)
BulkStep ==
    \A r \in Requests :
        LET s == promo_session[r] IN
        s.handler = "bulk" /\ promotions' # promotions =>
            \A i \in DOMAIN s.items :
                /\ promotions'[s.items[i].id] # NoRow
                /\ \A c \in DOMAIN s.items[i].change :
                     promotions'[s.items[i].id][c] = s.items[i].change[c]

BulkIsAtomic == [][BulkStep]_promoVars

(* Whatever overlaps: a write changes no column its client did not name.    *)
ColumnStep ==
    \A id \in Promos : promotions[id] # NoRow /\ promotions'[id] # NoRow =>
        \A c \in DOMAIN promotions[id] : promotions'[id][c] # promotions[id][c] =>
            \E r \in Requests, i \in 1..2 :
                /\ i \in DOMAIN promo_session[r].items
                /\ promo_session[r].items[i].id = id
                /\ c \in DOMAIN promo_session[r].items[i].change
                /\ promo_session[r].items[i].change[c] = promotions'[id][c]

OnlyNamedColumnsChange == [][ColumnStep]_promoVars

(* Without deletions: of two requests that create the same id one ends in a *)
(* conflict; neither ends in an error of the database (service.py:28).      *)
CreatesOnlyConflict ==
    \A r \in Requests :
        promo_answers[r].handler = "create" => promo_answers[r].answer # "database error"

(* A code that was refused as inactive or expired is never valid again:     *)
(* its coupon keeps the code.                                               *)
ClosedStep ==
    \A r \in Requests :
        promo_answers'[r] # promo_answers[r] /\ promo_answers'[r].code \in closed =>
            promo_answers'[r].answer # "valid"

ClosedCodesStayClosed == [][ClosedStep]_promoVars

(* Refuted: the public list can be built.  An update with images null is    *)
(* stored, answered with an error, and from then on the list of all active  *)
(* promotions fails as well.                                                *)
PublicListReadable ==
    \A id \in Promos : promotions[id] # NoRow /\ promotions[id].is_active => Readable(id)

(* Refuted: a coupon that validates names a promotion.                      *)
CouponsHavePromotions ==
    \A i \in DOMAIN coupons : coupons[i].is_active => promotions[coupons[i].promotion] # NoRow
=============================================================================
