------------------------------- MODULE Reviews -------------------------------
(* backend/src/reviews/reviews.service.ts: the review of one product on one   *)
(* order, the votes it gets and the count of them kept beside it, while       *)
(* shoppers vote twice, the author posts twice and an admin moderates.        *)
EXTENDS Integers, FiniteSets

CONSTANTS
  Voter,
  ReviewRequest,  \* requests served at the same time
  MaxRows         \* bound on the rows ever created, reviews and votes alike

ASSUME ReviewAssumption == IsFiniteSet(Voter) /\ MaxRows \in Nat

VARIABLES
  review,         \* the reviews row: id 0 when there is none
  vote,           \* id of each voter's review_helpful_votes row, 0 for none
  reports,        \* review_reports rows of the review
  lastId,         \* newest row id
  post            \* the requests in flight

reviewVars == <<review, vote, reports, lastId, post>>

NoReview == [id |-> 0, status |-> "NONE", helpfulCount |-> 0]
NoPost   == [op |-> "idle"]
RowId    == 0 .. MaxRows
OnReview == {"update", "report", "hide", "unhide", "remove"}

ReviewsTypeOK ==
  /\ review \in [id : RowId, status : {"NONE", "PUBLISHED", "HIDDEN"},
                 helpfulCount : Int]
  /\ vote \in [Voter -> RowId]
  /\ reports \in 0 .. MaxRows
  /\ lastId \in RowId
  /\ post \in [ReviewRequest ->
       {NoPost} \cup [op : {"create"}]
                \cup [op : OnReview, id : RowId]
                \cup [op : {"toggle"}, id : RowId, voter : Voter, saw : RowId]]

ReviewsInit ==
  /\ review = NoReview
  /\ vote = [v \in Voter |-> 0]
  /\ reports = 0 /\ lastId = 0
  /\ post = [r \in ReviewRequest |-> NoPost]

Exists == review.id # 0
Ends(r) == post' = [post EXCEPT ![r] = NoPost]
Begins(r, q) ==
  /\ post[r] = NoPost
  /\ post' = [post EXCEPT ![r] = q]
  /\ UNCHANGED <<review, vote, reports, lastId>>

------------------------------------------------------------------------------
(* create: the order qualifies (it is the author's, and delivered for good);  *)
(* the unique key refuses a second review of it.                              *)
CreateAsk(r) == Begins(r, [op |-> "create"])

CreateInsert(r) ==
  /\ post[r].op = "create" /\ lastId < MaxRows
  /\ Ends(r)
  /\ IF Exists THEN UNCHANGED <<review, lastId>>
     ELSE /\ lastId' = lastId + 1
          /\ review' = [id |-> lastId + 1, status |-> "PUBLISHED",
                        helpfulCount |-> 0]
  /\ UNCHANGED <<vote, reports>>

------------------------------------------------------------------------------
(* toggleHelpful: reads the review and the vote; then one transaction deletes *)
(* the vote read, or creates one, and counts.  It is rolled back when the     *)
(* review or that vote is gone, or a vote is there already.                   *)
ToggleRead(r, v) ==
  /\ Exists
  /\ Begins(r, [op |-> "toggle", id |-> review.id, voter |-> v,
                saw |-> vote[v]])

DeletesLeniently(q) == q.saw # 0 /\ review.id = q.id
Deletes(q) == q.saw # 0 /\ vote[q.voter] = q.saw
Inserts(q) == q.saw = 0 /\ vote[q.voter] = 0 /\ review.id = q.id

Counted(n) == review' = [review EXCEPT !.helpfulCount = @ + n]

ToggleWrite(r) ==
  LET q == post[r] IN
  /\ q.op = "toggle" /\ lastId < MaxRows
  /\ Ends(r)
  /\ CASE Deletes(q) -> /\ vote' = [vote EXCEPT ![q.voter] = 0]
                        /\ Counted(-1)
                        /\ UNCHANGED lastId
       [] Inserts(q) -> /\ vote' = [vote EXCEPT ![q.voter] = lastId + 1]
                        /\ Counted(1)
                        /\ lastId' = lastId + 1
       [] OTHER      -> UNCHANGED <<review, vote, lastId>>
  /\ UNCHANGED reports

------------------------------------------------------------------------------
(* update, report, hide, unhide, remove: the row must exist, and again when   *)
(* it is written.  An update by the author changes only what the review says. *)
(* Deleting the row cascades to its votes and reports.                        *)
ModerateRead(r, op) ==
  /\ Exists
  /\ Begins(r, [op |-> op, id |-> review.id])

LeavesVotes == vote
Cascade == [v \in Voter |-> 0]

ModerateWrite(r) ==
  LET q == post[r] IN
  /\ q.op \in OnReview
  /\ q.op = "report" => reports < MaxRows
  /\ Ends(r)
  /\ IF review.id # q.id \/ q.op = "update"
     THEN UNCHANGED <<review, vote, reports>>
     ELSE \/ /\ q.op = "report"
             /\ reports' = reports + 1
             /\ UNCHANGED <<review, vote>>
          \/ /\ q.op \in {"hide", "unhide"}
             /\ review' = [review EXCEPT !.status =
                             IF q.op = "hide" THEN "HIDDEN" ELSE "PUBLISHED"]
             /\ UNCHANGED <<vote, reports>>
          \/ /\ q.op = "remove"
             /\ review' = NoReview /\ vote' = Cascade /\ reports' = 0
  /\ UNCHANGED lastId

ReviewsNext ==
  \E r \in ReviewRequest :
    \/ CreateAsk(r) \/ CreateInsert(r)
    \/ \E v \in Voter : ToggleRead(r, v)
    \/ ToggleWrite(r)
    \/ \E op \in OnReview : ModerateRead(r, op)
    \/ ModerateWrite(r)

ReviewsSpec == ReviewsInit /\ [][ReviewsNext]_reviewVars

------------------------------------------------------------------------------
(* The count shoppers sort by is the number of votes, however two toggles of  *)
(* one shopper interleave with each other and with the removal of the review. *)
HelpfulCountsVotes ==
  review.helpfulCount = Cardinality({v \in Voter : vote[v] # 0})
=============================================================================
