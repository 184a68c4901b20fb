------------------------------- MODULE Social --------------------------------
(* Posting a product to Facebook and Instagram: the share dialog of the admin *)
(* (components/admin/products/share-product-dialog.tsx) and                   *)
(* backend/src/social/social.service.ts, which calls Meta's Graph API and     *)
(* logs every attempt in social_posts.  Meta may refuse a call, whatever      *)
(* token it comes with, and its answer may be lost; the database may refuse   *)
(* the row of the log, as it must once the product is deleted; and the API    *)
(* may restart between two calls.                                             *)
EXTENDS Integers, FiniteSets

CONSTANTS
  Share,          \* the share requests that can be in flight
  MaxClicks, MaxTrouble

ASSUME SocialAssumption ==
  IsFiniteSet(Share) /\ MaxClicks \in Nat /\ MaxTrouble \in Nat

Channel == {"FACEBOOK", "INSTAGRAM"}
Outcome == {"POSTED", "FAILED", "SKIPPED"}
Nobody == "none"

VARIABLES
  onFile,      \* whether the product exists
  ready,       \* the channels that are configured, Instagram with an image
  dialog,      \* whether it is open, and the request it waits for
  share,       \* the requests
  published,   \* the posts Meta shows, per channel
  logged,      \* rows of social_posts, per channel and status
  unknown,     \* history: posts whose answer, process or row was lost
  clicks, trouble

socialVars ==
  <<onFile, ready, dialog, share, published, logged, unknown, clicks,
    trouble>>
adminPage == <<onFile, ready, dialog, clicks>>

NoRows == [s \in Outcome |-> 0]
NoShare == [step |-> "none", left |-> {}, channel |-> Nobody,
            outcome |-> "SKIPPED", posted |-> FALSE]

SocialTypeOK ==
  /\ onFile \in BOOLEAN /\ ready \subseteq Channel
  /\ dialog.open \in BOOLEAN /\ dialog.pending \in Share \cup {Nobody}
  /\ \A r \in Share :
       /\ share[r].step \in
            {"none", "load", "next", "container", "publish", "record"}
       /\ share[r].left \subseteq Channel /\ share[r].posted \in BOOLEAN
       /\ share[r].channel \in Channel \cup {Nobody}
       /\ share[r].outcome \in Outcome
  /\ published \in [Channel -> Nat] /\ unknown \in [Channel -> Nat]
  /\ logged \in [Channel -> [Outcome -> Nat]]

SocialInit ==
  /\ onFile = TRUE /\ ready \in SUBSET Channel
  /\ dialog = [open |-> TRUE, pending |-> Nobody]
  /\ share = [r \in Share |-> NoShare]
  /\ published = [c \in Channel |-> 0] /\ unknown = [c \in Channel |-> 0]
  /\ logged = [c \in Channel |-> NoRows]
  /\ clicks = 0 /\ trouble = 0

------------------------------------------------------------------------------
(* The dialog.  Share now is disabled while its own request is pending;       *)
(* closed and opened again, it is a new dialog and knows of none.  It offers  *)
(* the channels its preview found usable, and the endpoint takes any.  (A     *)
(* share by WhatsApp is a link the browser opens, and sends no request.)      *)
ShareNow(r, picks) ==
  /\ dialog.open /\ dialog.pending = Nobody
  /\ picks # {} /\ clicks < MaxClicks
  /\ share[r].step = "none"
  /\ share' = [share EXCEPT ![r].step = "load", ![r].left = picks]
  /\ dialog' = [dialog EXCEPT !.pending = r]
  /\ clicks' = clicks + 1
  /\ UNCHANGED <<onFile, ready, published, logged, unknown, trouble>>

OpenOrClose ==
  /\ dialog' = [open |-> ~dialog.open, pending |-> Nobody]
  /\ UNCHANGED <<onFile, ready, share, published, logged, unknown, clicks,
                 trouble>>

\* The answer shuts the dialog only when something was posted.
ShareAnswered(r) ==
  /\ share[r].step = "next" /\ share[r].left = {}
  /\ share' = [share EXCEPT ![r] = NoShare]
  /\ dialog' = IF dialog.pending # r THEN dialog
               ELSE [open |-> ~share[r].posted, pending |-> Nobody]
  /\ UNCHANGED <<onFile, ready, published, logged, unknown, clicks, trouble>>

\* An error leaves the dialog open, with its button enabled again.
Rejected(r) ==
  /\ share' = [share EXCEPT ![r] = NoShare]
  /\ dialog' = IF dialog.pending # r THEN dialog
               ELSE [dialog EXCEPT !.pending = Nobody]
  /\ UNCHANGED <<onFile, ready, clicks>>

------------------------------------------------------------------------------
(* post: the product is loaded, then one channel goes after the other.  A     *)
(* refusal of Meta's is caught and logged.  Instagram makes a container first *)
(* and publishes that.                                                        *)
Load(r) ==
  /\ share[r].step = "load" /\ onFile
  /\ share' = [share EXCEPT ![r].step = "next"]
  /\ UNCHANGED <<adminPage, published, logged, unknown, trouble>>

NotFound(r) ==
  /\ share[r].step = "load" /\ ~onFile
  /\ Rejected(r)
  /\ UNCHANGED <<published, logged, unknown, trouble>>

FirstCall(c) == IF c = "INSTAGRAM" THEN "container" ELSE "publish"

NextChannel(r, c) ==
  /\ share[r].step = "next" /\ c \in share[r].left
  /\ share' = [share EXCEPT
       ![r].left = @ \ {c}, ![r].channel = c, ![r].outcome = "SKIPPED",
       ![r].step = IF c \in ready THEN FirstCall(c) ELSE "record"]
  /\ UNCHANGED <<adminPage, published, logged, unknown, trouble>>

ToRecord(r, outcome) ==
  share' = [share EXCEPT ![r].step = "record", ![r].outcome = outcome]

ContainerIsEnough(r) == ToRecord(r, "POSTED")
ToPublish(r) == share' = [share EXCEPT ![r].step = "publish"]

ContainerMade(r) ==
  /\ share[r].step = "container"
  /\ ToPublish(r)
  /\ UNCHANGED <<adminPage, published, logged, unknown, trouble>>

Publishes(r) == published' = [published EXCEPT ![share[r].channel] = @ + 1]
Untold(r) == unknown' = [unknown EXCEPT ![share[r].channel] = @ + 1]

Published(r) ==
  /\ share[r].step = "publish"
  /\ Publishes(r) /\ ToRecord(r, "POSTED")
  /\ UNCHANGED <<adminPage, logged, unknown, trouble>>

\* A call that Meta refuses, or that never reaches it.
CallFails(r) ==
  /\ share[r].step \in {"container", "publish"}
  /\ ToRecord(r, "FAILED")
  /\ UNCHANGED <<adminPage, published, logged, unknown, trouble>>

\* Meta publishes, and its answer does not arrive.
AnswerLost(r) ==
  /\ share[r].step = "publish" /\ trouble < MaxTrouble
  /\ Publishes(r) /\ Untold(r) /\ ToRecord(r, "FAILED")
  /\ trouble' = trouble + 1
  /\ UNCHANGED <<adminPage, logged>>

Record(r) ==
  /\ share[r].step = "record" /\ onFile
  /\ logged' = [logged EXCEPT ![share[r].channel][share[r].outcome] = @ + 1]
  /\ share' = [share EXCEPT
       ![r].step = "next",
       ![r].posted = @ \/ share[r].outcome = "POSTED"]
  /\ UNCHANGED <<adminPage, published, unknown, trouble>>

\* The row is refused: by its foreign key when the product is gone, else by
\* an error of the database.  What record throws is not caught, since its
\* promise is returned out of the try block without an await: the request
\* ends, and the channels that are left are not tried.
RecordFails(r) ==
  /\ share[r].step = "record"
  /\ IF onFile THEN trouble < MaxTrouble /\ trouble' = trouble + 1
               ELSE UNCHANGED trouble
  /\ IF share[r].outcome = "POSTED" THEN Untold(r) ELSE UNCHANGED unknown
  /\ Rejected(r)
  /\ UNCHANGED <<published, logged>>

Unrecorded(c) == {r \in Share : share[r].step = "record"
                                  /\ share[r].channel = c
                                  /\ share[r].outcome = "POSTED"}

\* The process restarts: its requests end, and the dialog's call with them.
ApiRestarts ==
  /\ trouble < MaxTrouble
  /\ \E r \in Share : share[r].step # "none"
  /\ trouble' = trouble + 1
  /\ share' = [r \in Share |-> NoShare]
  /\ unknown' = [c \in Channel |-> unknown[c] + Cardinality(Unrecorded(c))]
  /\ dialog' = [dialog EXCEPT !.pending = Nobody]
  /\ UNCHANGED <<onFile, ready, published, logged, clicks>>

\* A product that was never ordered may be deleted, and its log goes with it.
\* The channels keep the posts.
DeleteProduct ==
  /\ onFile /\ onFile' = FALSE
  /\ logged' = [c \in Channel |-> NoRows]
  /\ UNCHANGED <<ready, dialog, share, published, unknown, clicks, trouble>>

SocialNext ==
  \/ \E r \in Share :
       \/ \E picks \in SUBSET Channel : ShareNow(r, picks)
       \/ \E c \in Channel : NextChannel(r, c)
       \/ ContainerMade(r) \/ Published(r) \/ CallFails(r) \/ AnswerLost(r)
       \/ Record(r) \/ RecordFails(r) \/ ShareAnswered(r)
       \/ Load(r) \/ NotFound(r)
  \/ OpenOrClose \/ ApiRestarts \/ DeleteProduct

SocialSpec == SocialInit /\ [][SocialNext]_socialVars

------------------------------------------------------------------------------
(* The log tells the truth about Meta's pages, through overlapping shares,    *)
(* refusals, errors of the database and restarts: what is published is what   *)
(* is logged as POSTED, but for the posts about to be logged and those whose  *)
(* answer, process or row was lost; what was not published is never logged as *)
(* POSTED.  Of a product that was deleted nothing is logged, and no request   *)
(* still in flight logs anything.                                             *)
LogTellsTruth ==
  \A c \in Channel :
    IF onFile
    THEN published[c] =
           logged[c]["POSTED"] + Cardinality(Unrecorded(c)) + unknown[c]
    ELSE logged[c] = NoRows
=============================================================================
