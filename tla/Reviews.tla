------------------------------ MODULE Reviews ------------------------------
(***************************************************************************)
(* reviews.service.ts: a guest's review of a completed stay, and the       *)
(* average cleanliness rating that every change of a review writes anew    *)
(* into the property.  The row, the look for the ratings and the write of  *)
(* the average are three steps.                                            *)
(***************************************************************************)
EXTENDS Properties, Prices, SequencesExt

CONSTANTS
    Ratings,            \* cleanlinessRating values in use
    MaxReviews

VARIABLES
    reviews,            \* the reviews table, ids from 1; Null once deleted
    average,            \* property -> averageCleanlinessRating, in hundredths, or Null
    astray,             \* history: properties whose average may be out of date
    repointed           \* history: reviews that an update has moved to another booking

reviewVars == <<reviews, average, astray, repointed>>

Review == [booking : BookingIds, prop : PropertyIds, clean : Ratings \cup {Null}, public : BOOLEAN]

ASSUME ReviewsAssumption ==
    /\ Ratings \subseteq 1 .. 5 /\ Null \notin Ratings \cup Review
    /\ MaxReviews \in Nat

ReviewsInit ==
    /\ reviews = << >>
    /\ average = [p \in PropertyIds |-> Null]
    /\ astray = {} /\ repointed = {}

Reviewed == {v \in DOMAIN reviews : reviews[v] # Null}
Rated(p) == {v \in Reviewed : reviews[v].prop = p /\ reviews[v].clean # Null}

Stars(v) == IF reviews[v].clean = Null THEN 0 ELSE reviews[v].clean

\* Mean of some ratings, rounded to hundredths.
Mean(found) ==
    RoundDiv(100 * FoldSet(LAMBDA v, sum : Stars(v) + sum, 0, found), Cardinality(found))

-----------------------------------------------------------------------------
\* Calls about to change or average the reviews of property p.
Averaging(p) == {h \in Busy : handler[h].op = "review" /\ handler[h].prop = p}

\* A call takes up property p; another one on the way there leads both astray.
TakesUp(p) == astray' = IF Averaging(p) = {} THEN astray ELSE astray \cup {p}

\* create: the booking is completed and nobody has reviewed it.  The property is
\* the client's word, not the booking's.
CreateReview(h, b, p) ==
    /\ IsBooking(b) /\ bookings[b].st = "COMPLETED"
    /\ \A v \in Reviewed : reviews[v].booking # b
    /\ Begin(h, [op |-> "review", pc |-> "insert", booking |-> b, prop |-> p])
    /\ TakesUp(p)
    /\ UNCHANGED <<reviews, average, repointed>>

\* Variant: the look-up of create alone keeps a second review out.
AnyReview(b, others) == TRUE

\* bookingId is unique.
AdmitsReview(b, others) == \A v \in others : reviews[v].booking # b

\* The table takes a row unless a foreign key is broken or its booking has another.
Valid(b, p, others) == IsBooking(b) /\ PropertyHere(p) /\ AdmitsReview(b, others)

InsertReview(h) ==
    LET c == handler[h] IN
    /\ At(h, "review", "insert")
    /\ IF Valid(c.booking, c.prop, Reviewed)
       THEN /\ Len(reviews) < MaxReviews
            /\ \E clean \in Ratings, public \in BOOLEAN :
                reviews' = Append(reviews, [booking |-> c.booking, prop |-> c.prop,
                                            clean |-> clean, public |-> public])
            /\ Goto(h, [op |-> "review", pc |-> "average", prop |-> c.prop])
       ELSE Return(h) /\ UNCHANGED reviews
    /\ UNCHANGED <<average, astray, repointed>>

\* update has found the review; what the request sends is picked where it is written.
UpdateReview(h, v) ==
    LET p == reviews[v].prop IN
    /\ v \in Reviewed
    /\ Begin(h, [op |-> "review", pc |-> "update", review |-> v, prop |-> p])
    /\ TakesUp(p)
    /\ UNCHANGED <<reviews, average, repointed>>

\* A request may send every field of create, the rating as null and the booking and
\* the property included; what it leaves out the row keeps.  Only with a rating
\* (rated) is an average taken, for the property of the row as it was read.  The
\* write fails when the review has gone or a key that is sent is not to be had; an
\* owner's response changes nothing of what is here.
WriteReview(h) ==
    LET c == handler[h]
        row == reviews[c.review]
        Changed(new, rated) ==
            /\ reviews' = [reviews EXCEPT ![c.review] = new]
            /\ repointed' = IF new.booking = row.booking THEN repointed ELSE repointed \cup {c.review}
            /\ IF rated
               THEN /\ Goto(h, [op |-> "review", pc |-> "average", prop |-> c.prop])
                    /\ astray' = astray \cup ({row.prop, new.prop} \ {c.prop})
               ELSE /\ Return(h) /\ new.clean = row.clean
                    /\ astray' = IF new.prop = row.prop THEN astray
                                 ELSE astray \cup {row.prop, new.prop}
    IN
    /\ At(h, "review", "update")
    /\ \/ /\ c.review \in Reviewed
          /\ \E new \in Review, rated \in BOOLEAN :
                Valid(new.booking, new.prop, Reviewed \ {c.review}) /\ Changed(new, rated)
       \/ Return(h) /\ UNCHANGED <<reviews, astray, repointed>>
    /\ UNCHANGED average

\* remove has found the review.
RemoveReview(h, v) ==
    LET p == reviews[v].prop IN
    /\ v \in Reviewed
    /\ Begin(h, [op |-> "review", pc |-> "delete", review |-> v, prop |-> p])
    /\ TakesUp(p)
    /\ UNCHANGED <<reviews, average, repointed>>

\* The average is taken for the property of the row as it was read.
DeleteReview(h) ==
    LET c == handler[h] IN
    /\ At(h, "review", "delete")
    /\ IF c.review \in Reviewed
       THEN /\ reviews' = [reviews EXCEPT ![c.review] = Null]
            /\ Goto(h, [op |-> "review", pc |-> "average", prop |-> c.prop])
            /\ astray' = astray \cup ({reviews[c.review].prop} \ {c.prop})
       ELSE Return(h) /\ UNCHANGED <<reviews, astray>>
    /\ UNCHANGED <<average, repointed>>

\* Variant: reviews without a rating count as a rating of 0.
RatedOrNot(p) == {v \in Reviewed : reviews[v].prop = p}

Averaged(p) == Rated(p)

\* updatePropertyCleanlinessRating: without a rating it leaves the average as it is.
\* A call that is alone sets the property right again.
FindRatings(h) ==
    LET p == handler[h].prop
        found == Averaged(p)
    IN
    /\ At(h, "review", "average")
    /\ IF found = {}
       THEN Return(h)
       ELSE Goto(h, [op |-> "review", pc |-> "write", prop |-> p, mean |-> Mean(found)])
    /\ astray' = IF Averaging(p) = {h} THEN astray \ {p} ELSE astray
    /\ UNCHANGED <<reviews, average, repointed>>

WriteAverage(h) ==
    LET c == handler[h] IN
    /\ At(h, "review", "write")
    /\ average' = IF PropertyHere(c.prop) THEN [average EXCEPT ![c.prop] = c.mean] ELSE average
    /\ Return(h)
    /\ UNCHANGED <<reviews, astray, repointed>>

\* What a deletion of bookings takes along; nobody averages anew.
CascadeReviews(bookingsLeft, propertiesLeft) ==
    LET lost == {v \in Reviewed : reviews[v].booking \notin bookingsLeft
                                  \/ reviews[v].prop \notin propertiesLeft}
    IN  /\ reviews' = [v \in DOMAIN reviews |-> IF v \in lost THEN Null ELSE reviews[v]]
        /\ astray' = astray \cup {reviews[v].prop : v \in lost}
        /\ UNCHANGED <<average, repointed>>

-----------------------------------------------------------------------------
\* getPropertyReviews averages the public reviews that have a rating.
PublicMean(p) ==
    LET found == {v \in Rated(p) : reviews[v].public}
    IN  IF found = {} THEN Null ELSE Mean(found)

\* getPropertyCleanliness averages all of them.
CleanlinessMean(p) == IF Rated(p) = {} THEN Null ELSE Mean(Rated(p))

ReviewCalls(h) ==
    /\ "review" \in workload
    /\ \/ \E b \in BookingIds, p \in PropertyIds : CreateReview(h, b, p)
       \/ \E v \in DOMAIN reviews : UpdateReview(h, v) \/ RemoveReview(h, v)

ReviewSteps(h) ==
    \/ InsertReview(h) \/ WriteReview(h) \/ DeleteReview(h)
    \/ FindRatings(h) \/ WriteAverage(h)

-----------------------------------------------------------------------------
\* A stay has one review although two calls for one booking both find none, and
\* although updates move reviews between bookings; and "Can only review completed
\* bookings" (reviews.service.ts:41) holds of every review that no update has moved
\* to another booking, whose status update does not ask for.
OneReviewPerStay ==
    /\ \A v, w \in Reviewed : reviews[v].booking = reviews[w].booking => v = w
    /\ \A v \in Reviewed \ repointed : reviews[v].booking \in completed

\* "Update property's average cleanliness rating" (reviews.service.ts:69): when
\* nobody is changing the reviews of a property, its stored average is the mean of
\* the ratings it has, the one the cleaning page works out, and with only public
\* ratings the one the review page shows; unless calls overlapped, a restart or a
\* deletion came between, or a review was moved here or away, and no call has had
\* the property for itself since.
AverageFollowsReviews ==
    \A p \in PropertyIds \ astray :
        (Averaging(p) = {} /\ Rated(p) # {}) =>
            /\ average[p] = CleanlinessMean(p)
            /\ (\A v \in Rated(p) : reviews[v].public) => average[p] = PublicMean(p)
=============================================================================
