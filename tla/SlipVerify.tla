------------------------------ MODULE SlipVerify ------------------------------
(***************************************************************************)
(* Uploads of payment slips: duplicate checks, fraud score, the status the *)
(* payment_verifications row gets, and an administrator's rejections.      *)
(*                                                                         *)
(* An upload runs without an await from its first statement to its commit, *)
(* so a worker process serves one at a time; Workers are the processes.    *)
(* What the OCR service and the parser find in an image is a constant of   *)
(* the image.                                                              *)
(***************************************************************************)
EXTENDS Integers, Sequences, FiniteSets, FiniteSetsExt

CONSTANTS
    Orders,     \* ids of the orders
    Images,     \* images clients upload
    Workers,    \* server processes
    None,       \* "not found", NULL
    GrandTotal, \* orders.grand_total
    Text,       \* what recognition makes of an image, see Texts
    MaxRows,    \* bound of the model: payment_verifications rows
    MaxAttempts \* bound of the model: verification_attempts rows of an order

\* SIGNAL_VALUES in hundredths.  assess rounds its sum to hundredths, so the
\* thresholds compare these integers.
SignalValue ==
    [low_ocr_confidence |-> 15, very_low_ocr_confidence |-> 30,
     amount_mismatch |-> 50, amount_significantly_lower |-> 60,
     amount_significantly_higher |-> 25,
     reference_not_found |-> 80, reference_duplicate |-> 100,
     sender_is_receiver |-> 60, old_transaction |-> 20, future_transaction |-> 40,
     multiple_failed_attempts |-> 40, low_confidence_amount |-> 25,
     low_confidence_reference |-> 20, missing_sender |-> 30, missing_receiver |-> 30,
     unusual_round_amount |-> 15, missing_date |-> 20]

\* Signals that depend on the image alone.
TextSignals ==
    {"low_ocr_confidence", "very_low_ocr_confidence", "sender_is_receiver", "old_transaction",
     "future_transaction", "low_confidence_amount", "low_confidence_reference",
     "missing_sender", "missing_receiver", "unusual_round_amount", "missing_date"}

\* valid: format and size are accepted; recognized: the OCR service answered; time:
\* a time of day was found; an amount or reference not found has confidence 0, and
\* nothing is found in an image that is not read.
Texts ==
    {t \in [valid : BOOLEAN, recognized : BOOLEAN, time : BOOLEAN, reference : STRING \cup {None},
            amount : Nat \cup {None}, signals : SUBSET TextSignals] :
        /\ ~t.valid \/ ~t.recognized => t.reference = None /\ t.amount = None
        /\ t.reference = None => "low_confidence_reference" \in t.signals
        /\ t.amount = None => "low_confidence_amount" \in t.signals}

\* What the instances give the constants.
ConstantsAllowed ==
    /\ GrandTotal \in [Orders -> Nat]
    /\ DOMAIN Text = Images
    /\ \A i \in Images : Text[i] \in Texts
    /\ MaxRows \in Nat /\ MaxAttempts \in Nat

VARIABLES
    order_status,  \* "open" stands for every status but completed and cancelled
    verifications, \* the payment_verifications rows, in the order of their commits
    attempts,      \* per order: verification_attempts rows that are not verified
    payments,      \* per order: payments rows made for slips
    session        \* per worker: the upload it is serving

vars == <<order_status, verifications, attempts, payments, session>>

\* Statuses an upload may give its row.
FiledStatuses ==
    {"ocr_failed", "verified", "review", "rejected", "amount_mismatch", "duplicate_reference"}

Verification == [order : Orders, image : Images, status : FiledStatuses]

IdleSession == [stage |-> "idle", order |-> None, image |-> None,
                duplicate |-> FALSE, status |-> None, files |-> FALSE]

Init ==
    /\ order_status = [o \in Orders |-> "open"]
    /\ verifications = <<>>
    /\ attempts = [o \in Orders |-> 0]
    /\ payments = [o \in Orders |-> 0]
    /\ session = [w \in Workers |-> IdleSession]

-----------------------------------------------------------------------------
\* Lookups among the rows that are not rejected.

Live == {n \in DOMAIN verifications : verifications[n].status # "rejected"}

\* Wrong on purpose: an image counts as seen only when its slip was verified.
SeenVerified(o, i) ==
    {n \in Live : /\ verifications[n].order = o /\ verifications[n].image = i
                  /\ verifications[n].status = "verified"}

\* find_existing_verification_by_image_hash, of one order.
Seen(o, i) == {n \in Live : verifications[n].order = o /\ verifications[n].image = i}

Carrying(reference) == {n \in Live : Text[verifications[n].image].reference = reference}

\* Wrong on purpose: the row of this upload is inserted after the lookup.
FoundBeforeInsert(reference) == Cardinality(Carrying(reference))

\* Rows find_existing_verification_by_reference finds: the row of this very upload
\* is among them, it was flushed before.
Found(reference) == Cardinality(Carrying(reference)) + 1

-----------------------------------------------------------------------------
\* The fraud score.

AmountSignals(amount, expected) ==
    CASE amount = None \/ amount = expected -> {}
      [] amount > expected -> {"amount_significantly_higher"}
      [] amount < expected /\ 10 * (expected - amount) > expected -> {"amount_significantly_lower"}
      [] OTHER -> {"amount_mismatch"}

ReferenceSignals(reference, duplicate) ==
    IF reference = None THEN {"reference_not_found"}
    ELSE IF duplicate THEN {"reference_duplicate"}
    ELSE {}

Signals(o, i, duplicate, failed) ==
    Text[i].signals \cup AmountSignals(Text[i].amount, GrandTotal[o])
                    \cup ReferenceSignals(Text[i].reference, duplicate)
                    \cup (IF failed >= 2 THEN {"multiple_failed_attempts"} ELSE {})

Score(signals) == LET total == MapThenSumSet(LAMBDA s : SignalValue[s], signals)
                  IN  IF total > 100 THEN 100 ELSE total

Level(score) == IF score >= 50 THEN "rejected" ELSE IF score >= 20 THEN "review" ELSE "verified"

\* Step 11 of verify_slip.
FinalStatus(o, i, duplicate, failed) ==
    IF duplicate THEN "duplicate_reference"
    ELSE IF Text[i].amount # None /\ GrandTotal[o] > 0 /\ Text[i].amount # GrandTotal[o]
         THEN "amount_mismatch"
         ELSE Level(Score(Signals(o, i, duplicate, failed)))

-----------------------------------------------------------------------------
\* verify_slip

Continue(w, s) ==
    /\ session' = [session EXCEPT ![w] = s]
    /\ UNCHANGED <<order_status, verifications, attempts, payments>>

\* The upload ends in an error response whose transaction leaves nothing behind,
\* the attempt it has logged included.
Fail(w) == Continue(w, IdleSession)

\* Order and image checks.  An upload for a cancelled order ends in an error and
\* changes nothing.
Upload(w, o, i) ==
    LET s == [IdleSession EXCEPT !.stage = "recognize", !.order = o, !.image = i] IN
    /\ session[w].stage = "idle"
    /\ attempts[o] < MaxAttempts
    /\ \/ /\ order_status[o] = "completed"
          /\ Continue(w, [s EXCEPT !.stage = "commit", !.status = "order_already_paid"])
       \/ /\ order_status[o] = "open" /\ ~Text[i].valid
          /\ Continue(w, [s EXCEPT !.stage = "commit", !.status = "ocr_failed"])
       \/ /\ order_status[o] = "open" /\ Text[i].valid
          /\ Cardinality(Seen(o, i)) <= 1 \* else scalar_one_or_none raises
          /\ Continue(w, IF Seen(o, i) # {}
                         THEN [s EXCEPT !.stage = "commit", !.status = "duplicate_image"]
                         ELSE s)

\* The OCR service does not answer or reads nothing.
OcrFails(w) ==
    /\ session[w].stage = "recognize"
    /\ ~Text[session[w].image].recognized
    /\ Continue(w, [session[w] EXCEPT !.stage = "commit", !.status = "ocr_failed", !.files = TRUE])

\* INSERT of the row and lookup of its reference.
CheckReference(w) ==
    LET s == session[w]
        t == Text[s.image]
    IN
    /\ s.stage = "recognize"
    /\ t.recognized
    /\ ~t.time
    /\ t.reference # None => Found(t.reference) <= 1 \* else scalar_one_or_none raises
    /\ Continue(w, [s EXCEPT !.stage = "assess",
                             !.duplicate = t.reference # None /\ Found(t.reference) = 1])

\* The INSERT fails when a time was found: a time is no value of the TIMESTAMP
\* column ocr_time.  The lookup fails when it finds two rows.
CheckFails(w) ==
    LET s == session[w]
        t == Text[s.image]
    IN
    /\ s.stage = "recognize"
    /\ t.recognized
    /\ t.time \/ (t.reference # None /\ Found(t.reference) > 1)
    /\ Fail(w)

Assess(w) ==
    LET s == session[w] IN
    /\ s.stage = "assess"
    /\ Continue(w, [s EXCEPT !.stage = "commit", !.files = TRUE,
            !.status = FinalStatus(s.order, s.image, s.duplicate, attempts[s.order])])

\* The router's commit: the row, its payment and the attempt.
CommitUpload(w) ==
    LET s == session[w] IN
    /\ s.stage = "commit"
    /\ s.files => Len(verifications) < MaxRows
    /\ verifications' = IF s.files
                        THEN Append(verifications, [order |-> s.order, image |-> s.image,
                                                    status |-> s.status])
                        ELSE verifications
    /\ attempts' = [attempts EXCEPT ![s.order] = @ + IF s.status = "verified" THEN 0 ELSE 1]
    /\ payments' = [payments EXCEPT ![s.order] = @ + IF s.status = "verified" THEN 1 ELSE 0]
    /\ session' = [session EXCEPT ![w] = IdleSession]
    /\ UNCHANGED order_status

-----------------------------------------------------------------------------
\* moderate_verification with approve = False, and the orders' own life.

RejectVerification(n) ==
    /\ verifications[n].status \notin {"rejected", "verified", "duplicate_reference"}
    /\ verifications' = [verifications EXCEPT ![n].status = "rejected"]
    /\ UNCHANGED <<order_status, attempts, payments, session>>

CloseOrder(o, status) ==
    /\ order_status[o] = "open"
    /\ order_status' = [order_status EXCEPT ![o] = status]
    /\ UNCHANGED <<verifications, attempts, payments, session>>

ServeUpload(w) ==
    \/ \E o \in Orders, i \in Images : Upload(w, o, i)
    \/ OcrFails(w)
    \/ CheckReference(w)
    \/ CheckFails(w)
    \/ Assess(w)
    \/ CommitUpload(w)

Next ==
    \/ \E w \in Workers : ServeUpload(w)
    \/ \E n \in DOMAIN verifications : RejectVerification(n)
    \/ \E o \in Orders, status \in {"completed", "cancelled"} : CloseOrder(o, status)

Spec == Init /\ [][Next]_vars

-----------------------------------------------------------------------------
TypeOK ==
    /\ order_status \in [Orders -> {"open", "completed", "cancelled"}]
    /\ \A n \in DOMAIN verifications : verifications[n] \in Verification
    /\ Len(verifications) <= MaxRows
    /\ attempts \in [Orders -> Nat]
    /\ payments \in [Orders -> Nat]
    /\ \A w \in Workers : session[w].stage \in {"idle", "recognize", "assess", "commit"}

(* With at most "workers" uploads at a time, an image has no more rows of    *)
(* an order that are not rejected: the lookup of duplicate images           *)
(* (service.py:64) misses what others have not committed, and nothing else. *)
LivePerImage(workers) ==
    \A o \in Orders, i \in Images :
        Cardinality({n \in Live : verifications[n].order = o /\ verifications[n].image = i})
            <= workers

(* The same for a reference (service.py:145), over all images and orders:   *)
(* with one worker a transfer cannot be shown twice.                        *)
LivePerReference(workers) ==
    \A i \in Images :
        Text[i].reference # None => Cardinality(Carrying(Text[i].reference)) <= workers

\* Nothing is wrong with the image, and it shows what the order costs.
ReadsWell(o, i) ==
    /\ Text[i].reference # None
    /\ Text[i].amount = GrandTotal[o]
    /\ Text[i].signals = {}

(* The answer API_CONTRACT.md:636 documents, "status": "verified": a slip   *)
(* that reads well, whose reference no other slip carries and whose order   *)
(* had less than two failed attempts before, is filed as verified.          *)
GoodSlipsAreVerified ==
    \A n \in DOMAIN verifications :
        LET slip == verifications[n] IN
        /\ ReadsWell(slip.order, slip.image)
        /\ \A m \in DOMAIN verifications \ {n} :
             Text[verifications[m].image].reference # Text[slip.image].reference
        /\ attempts[slip.order] <= 2 \* this one is among them unless it is verified
        => slip.status = "verified"

\* How far the refutation of GoodSlipsAreVerified goes: no upload files a slip that
\* moderate_verification may approve, and none is paid by itself.
NoSlipIsApprovable ==
    /\ \A n \in DOMAIN verifications :
            verifications[n].status \notin {"pending", "review", "verified"}
    /\ \A o \in Orders : payments[o] = 0

(* "Reference already used for another transaction": a slip is filed as a   *)
(* duplicate reference only when another slip carries its reference.        *)
DuplicateHasOriginal ==
    \A n \in DOMAIN verifications :
        verifications[n].status = "duplicate_reference" =>
            \E m \in DOMAIN verifications \ {n} :
                Text[verifications[m].image].reference = Text[verifications[n].image].reference
=============================================================================
