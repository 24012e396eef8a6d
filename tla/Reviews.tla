-------- MODULE Reviews --------
(***************************************************************************)
(* The reviews of one astrologer and the rating computed from them         *)
(* (RatingReviewService, AdminReviewModerationService).  A review is       *)
(* written on an order, moderated, edited and deleted; each time the       *)
(* rating is computed anew from the reviews that are approved.             *)
(***************************************************************************)
EXTENDS Handlers, FiniteSetsExt

CONSTANTS
  Orders, NoOrder,  \* reviews by an administrator have no order
  MaxReviews, Stars, MaxFailures

VARIABLES
  review,    \* review[i]
  given,     \* orders with reviewGiven
  ratings,   \* astrologer.ratings: [sum, approved, total], the average is sum / approved
  failures,
  unrated,   \* a change of the reviews has not reached the rating (history)
  erased     \* a deleted review was deleted again (history)

vvars == <<review, given, ratings, failures, unrated, erased, work>>

----------------
Reviewed == 1..MaxReviews
NoReview == [order |-> NoOrder, stars |-> 0, status |-> "none", deleted |-> FALSE]

Exists(i) == review[i].status # "none"
Kept == {i \in Reviewed : Exists(i) /\ ~review[i].deleted}
Approved == {i \in Kept : review[i].status = "approved"}
StarsOf(ids) == MapThenSumSet(LAMBDA i : review[i].stars, ids)

Free == {i \in Reviewed : ~Exists(i)}
New(fields) == \E i \in Free : (\A j \in Free : i <= j) /\ review' = [review EXCEPT ![i] = fields]

Handler(pc, o, n) == [pc |-> pc, o |-> o, n |-> n, seen |-> ratings, sum |-> 0, approved |-> 0]
\* save() writes a field only if it differs from the copy that was read.
Write(seen, new, old) == IF new = seen THEN old ELSE new

Init ==
  /\ review = [i \in Reviewed |-> NoReview] /\ given = {}
  /\ ratings = [sum |-> 0, approved |-> 0, total |-> 0]
  /\ NoHandler /\ failures = 0 /\ unrated = FALSE /\ erased = FALSE

(* The user. *)

\* Fault: the order is not asked.
AddReviewAgain(r, o, n) ==
  /\ Free # {} /\ Begin(r, Handler("add", o, n))
  /\ UNCHANGED <<review, given, ratings, failures, unrated, erased>>
\* "This session has already been reviewed".
AddReview(r, o, n) ==
  /\ o \notin given /\ Free # {} /\ Begin(r, Handler("add", o, n))
  /\ UNCHANGED <<review, given, ratings, failures, unrated, erased>>

SaveReview(r) ==
  /\ At(r, "add") /\ Goto(r, "mark")
  /\ New([order |-> work[r].o, stars |-> work[r].n, status |-> "pending", deleted |-> FALSE])
  /\ UNCHANGED <<given, ratings, failures, unrated, erased>>

\* The order or the session is marked, and the rating computed in background.
MarkOrder(r) ==
  /\ At(r, "mark") /\ Goto(r, "rate") /\ given' = given \cup {work[r].o}
  /\ UNCHANGED <<review, ratings, failures, unrated, erased>>

\* editReview: the review is pending again.
EditReview(r, i, n) ==
  /\ Exists(i) /\ review[i].order # NoOrder
  /\ review' = [review EXCEPT ![i].stars = n, ![i].status = "pending"]
  /\ Begin(r, Handler("rate", NoOrder, 0)) /\ unrated' = TRUE
  /\ UNCHANGED <<given, ratings, failures, erased>>

\* deleteReview does not look whether the review is deleted already ...
DeleteReview(r, i) ==
  /\ Exists(i) /\ review[i].order # NoOrder
  /\ review' = [review EXCEPT ![i].deleted = TRUE]
  /\ erased' = (erased \/ review[i].deleted) /\ unrated' = TRUE
  /\ Begin(r, Handler("unmark", review[i].order, 0))
  /\ UNCHANGED <<given, ratings, failures>>

\* ... and allows another review of the order.
UnmarkOrder(r) ==
  /\ At(r, "unmark") /\ Goto(r, "rate") /\ given' = given \ {work[r].o}
  /\ UNCHANGED <<review, ratings, failures, unrated, erased>>

(* The administrator. *)

\* Fault: the rating waits for the next review.
ModerateOnly(r, i) ==
  /\ At(r, "idle") /\ Exists(i) /\ \E st \in {"approved", "rejected"} : review' = [review EXCEPT ![i].status = st]
  /\ UNCHANGED <<given, ratings, failures, unrated, erased, work>>
Moderate(r, i) ==
  /\ Exists(i)
  /\ \E st \in {"approved", "rejected"} : review' = [review EXCEPT ![i].status = st]
  /\ Begin(r, Handler("rate", NoOrder, 0)) /\ unrated' = TRUE
  /\ UNCHANGED <<given, ratings, failures, erased>>

\* flagReview leaves the rating as it is.
FlagReview(r, i) ==
  /\ At(r, "idle") /\ Exists(i) /\ review' = [review EXCEPT ![i].status = "flagged"]
  /\ unrated' = TRUE
  /\ UNCHANGED <<given, ratings, failures, erased, work>>

EditByAdmin(r, i, n) ==
  /\ Exists(i) /\ review' = [review EXCEPT ![i].stars = n]
  /\ Begin(r, Handler("rate", NoOrder, 0)) /\ unrated' = TRUE
  /\ UNCHANGED <<given, ratings, failures, erased>>

\* The order stays marked.
DeleteByAdmin(r, i) ==
  /\ Exists(i) /\ review' = [review EXCEPT ![i].deleted = TRUE]
  /\ Begin(r, Handler("rate", NoOrder, 0)) /\ unrated' = TRUE
  /\ UNCHANGED <<given, ratings, failures, erased>>

\* addAdminCustomReview: approved at once.
AddCustomReview(r, n) ==
  /\ New([order |-> NoOrder, stars |-> n, status |-> "approved", deleted |-> FALSE])
  /\ Begin(r, Handler("rate", NoOrder, 0)) /\ unrated' = TRUE
  /\ UNCHANGED <<given, ratings, failures, erased>>

(* updateAstrologerRatings. *)
ReadAstrologer(r) ==
  /\ At(r, "rate")
  /\ work' = [work EXCEPT ![r].pc = "approved", ![r].seen = ratings]
  /\ UNCHANGED <<review, given, ratings, failures, unrated, erased>>

ReadApproved(r) ==
  /\ At(r, "approved")
  /\ work' = [work EXCEPT ![r].pc = "save", ![r].approved = Cardinality(Approved),
                          ![r].sum = StarsOf(Approved)]
  /\ UNCHANGED <<review, given, ratings, failures, unrated, erased>>

\* Without an approved review the total stays.
Computed(seen, h) ==
  IF h.approved = 0 THEN [seen EXCEPT !.sum = 0, !.approved = 0]
  ELSE [sum |-> h.sum, approved |-> h.approved, total |-> Cardinality(Kept)]

SaveRating(r) ==
  /\ At(r, "save") /\ Finish(r) /\ unrated' = FALSE
  /\ LET seen == work[r].seen  new == Computed(seen, work[r]) IN
       ratings' = [f \in DOMAIN ratings |-> Write(seen[f], new[f], ratings[f])]
  /\ UNCHANGED <<review, given, failures, erased>>

Fails(r) ==
  /\ ~At(r, "idle") /\ failures < MaxFailures /\ failures' = failures + 1 /\ Finish(r)
  /\ UNCHANGED <<review, given, ratings, unrated, erased>>

UserRequests(r) ==
  \/ \E o \in Orders, n \in Stars : AddReview(r, o, n)
  \/ \E i \in Reviewed : DeleteReview(r, i) \/ \E n \in Stars : EditReview(r, i, n)

AdminRequests(r) ==
  \/ \E i \in Reviewed :
       Moderate(r, i) \/ DeleteByAdmin(r, i) \/ FlagReview(r, i) \/ \E n \in Stars : EditByAdmin(r, i, n)
  \/ \E n \in Stars : AddCustomReview(r, n)

Next ==
  \E r \in Slots :
    \/ UserRequests(r) \/ AdminRequests(r) \/ Fails(r)
    \/ SaveReview(r) \/ MarkOrder(r) \/ UnmarkOrder(r)
    \/ ReadAstrologer(r) \/ ReadApproved(r) \/ SaveRating(r)

Spec == Init /\ [][Next]_vvars

----------------
TypeOK ==
  /\ review \in [Reviewed -> {NoReview} \cup
       [order : Orders \cup {NoOrder}, stars : Stars,
        status : {"pending", "approved", "rejected", "flagged"}, deleted : BOOLEAN]]
  /\ given \in SUBSET Orders /\ ratings \in [{"sum", "approved", "total"} -> Nat]
  /\ failures \in 0..MaxFailures /\ unrated \in BOOLEAN /\ erased \in BOOLEAN

\* Between requests the rating is that of the approved reviews, unless one
\* was flagged or a request failed on the way and nothing was computed since.
RatingMatchesApproved ==
  OneAtATime /\ Quiet /\ ~unrated =>
    /\ ratings.sum = StarsOf(Approved) /\ ratings.approved = Cardinality(Approved)
    /\ ratings.approved <= ratings.total

\* "This session has already been reviewed": an order has one review that is
\* not deleted, unless a request failed or deleted a review a second time.
OneReviewPerOrder ==
  OneAtATime /\ failures = 0 /\ ~erased =>
    \A o \in Orders : Cardinality({i \in Kept : review[i].order = o}) <= 1
================
