---------------------------- MODULE BrowseProofs -----------------------------
(* The pages of the shop, for any filters, words and camera streams, and any  *)
(* number of clicks.                                                          *)
EXTENDS Listing, VisualSearch, Assistant, TLAPS

------------------------------------------------------------------------------
(* The product list.  Only the fetch of the current URL is active, so that    *)
(* the list is loading exactly while there is one.                            *)
Fetch == [url : Address, active : BOOLEAN]

OneActive ==
  /\ \A f \in fetches : f.active => f.url = url
  /\ listLoading <=> \E f \in fetches : f.active
Settled == ~listLoading => list = url \/ loadFailed
WithinPages == ~someFailed => ~loadFailed /\ url.page <= Pages[url.filter]
Suggested ==
  /\ timer # Short => timer = typed
  /\ timer = Short /\ ~overtaken => suggested = typed \/ typed \in lookups

ListingInv ==
  /\ ListingTypeOK /\ OneActive /\ Settled /\ WithinPages /\ Suggested

LEMMA ListingStart == ListingInit => ListingInv
<1> SUFFICES ASSUME ListingInit PROVE ListingInv
  OBVIOUS
<1> USE ListingAssumption DEF ListingInit
<1>1. PICK f \in Filter : url = [filter |-> f, page |-> 1]
  OBVIOUS
<1>2. url \in Address /\ url.page = 1 /\ url.filter \in Filter
  BY <1>1 DEF Address
<1>3. ListingTypeOK
  BY <1>2 DEF ListingTypeOK
<1>4. OneActive /\ Settled
  BY DEF OneActive, Settled
<1>5. 1 <= Pages[url.filter]
  BY <1>2
<1>6. WithinPages
  BY <1>2, <1>5 DEF WithinPages
<1>7. Suggested
  BY DEF Suggested
<1> QED BY <1>3, <1>4, <1>6, <1>7 DEF ListingInv

(* A new URL leaves one active fetch, its own.                                *)
LEMMA GoToKeeps ==
  ASSUME ListingInv, NEW address \in Address, GoTo(address),
         ~someFailed => address.page <= Pages[address.filter]
  PROVE  ListingInv'
<1> DEFINE new == [url |-> address, active |-> TRUE]
           old == {Dropped(f) : f \in fetches}
<1>1. /\ url' = address /\ fetches' = old \cup {new}
      /\ listLoading' = TRUE
      /\ UNCHANGED <<list, loadFailed, someFailed, searchVars>>
  BY DEF GoTo
<1>2. fetches \subseteq Fetch
  BY DEF ListingInv, ListingTypeOK, Fetch
<1>3. \A g \in old : g \in Fetch /\ ~g.active
  BY <1>2 DEF Dropped, Fetch
<1>4. new \in Fetch /\ new.active /\ new.url = address
  BY DEF Fetch
<1> HIDE DEF new, old
<1>5. ListingTypeOK'
  BY <1>1, <1>3, <1>4 DEF ListingInv, ListingTypeOK, Fetch, searchVars
<1>6. OneActive'
  BY <1>1, <1>3, <1>4 DEF OneActive
<1>7. Settled'
  BY <1>1 DEF Settled
<1>8. WithinPages'
  BY <1>1 DEF ListingInv, WithinPages
<1>9. Suggested'
  BY <1>1 DEF ListingInv, Suggested, searchVars
<1> QED BY <1>5, <1>6, <1>7, <1>8, <1>9 DEF ListingInv

LEMMA ChangeFilterKeeps ==
  ASSUME ListingInv, NEW filter \in Filter, ChangeFilter(filter)
  PROVE  ListingInv'
<1>1. FirstPage(filter) \in Address
  BY DEF FirstPage, Address
<1>2. FirstPage(filter).page = 1 /\ FirstPage(filter).filter = filter
  BY DEF FirstPage
<1>3. Pages[filter] \in Nat \ {0}
  BY ListingAssumption
<1>4. FirstPage(filter).page <= Pages[FirstPage(filter).filter]
  BY <1>2, <1>3
<1>5. GoTo(FirstPage(filter))
  BY DEF ChangeFilter
<1> HIDE DEF FirstPage
<1> QED BY <1>1, <1>4, <1>5, GoToKeeps

(* The pager counts pages of the list shown, which is the URL's.              *)
LEMMA TurnPageKeeps ==
  ASSUME ListingInv, NEW page \in Pager, TurnPage(page)
  PROVE  ListingInv'
<1> DEFINE address == [url EXCEPT !.page = page]
<1>1. url \in Address /\ list \in Address
  BY DEF ListingInv, ListingTypeOK
<1>2. Pages[list.filter] \in Nat /\ Pages[url.filter] \in Nat
  BY <1>1, ListingAssumption DEF Address
<1>3. url.page \in Nat \ {0}
  BY <1>1 DEF Address
<1>4. page \in Nat \ {0}
  <2>1. page # 0 /\ (page \in 1 .. Pages[list.filter] \/ page = url.page - 1)
    BY DEF Pager
  <2>2. url.page - 1 \in Nat
    BY <1>3
  <2>3. page \in Nat
    BY <1>2, <2>1, <2>2
  <2> QED BY <2>1, <2>3
<1>5. address \in Address /\ address.page = page /\ address.filter = url.filter
  BY <1>1, <1>4 DEF Address
<1>6. ASSUME ~someFailed PROVE page <= Pages[url.filter]
  <2>1. ~listLoading
    BY DEF TurnPage
  <2>2. list = url /\ url.page <= Pages[url.filter]
    BY <1>6, <2>1 DEF ListingInv, Settled, WithinPages
  <2>3. page \in 1 .. Pages[url.filter] \/ page = url.page - 1
    BY <2>2 DEF Pager
  <2> QED BY <2>2, <2>3, <1>2, <1>3
<1>7. GoTo(address)
  BY DEF TurnPage
<1> HIDE DEF address
<1> QED BY <1>5, <1>6, <1>7, GoToKeeps

(* The answer to the active fetch is for the URL, and no other is active.     *)
LEMMA LeavesThePage ==
  ASSUME ListingInv, NEW f \in fetches, fetches' = fetches \ {f},
         UNCHANGED url
  PROVE  /\ fetches' \subseteq Fetch
         /\ \A g \in fetches' : g.active => g.url = url
         /\ f.active => \A g \in fetches' : ~g.active
         /\ ~f.active => (listLoading <=> \E g \in fetches' : g.active)
<1>1. fetches \subseteq Fetch
  BY DEF ListingInv, ListingTypeOK, Fetch
<1>2. \A g \in fetches : g.active => g.url = url
  BY DEF ListingInv, OneActive
<1>3. \A g \in fetches : g = [url |-> g.url, active |-> g.active]
  BY <1>1 DEF Fetch
<1>4. \A g \in fetches : g.active => g = [url |-> url, active |-> TRUE]
  BY <1>1, <1>2, <1>3 DEF Fetch
<1>5. listLoading <=> \E g \in fetches : g.active
  BY DEF ListingInv, OneActive
<1> QED BY <1>1, <1>2, <1>4, <1>5

LEMMA AnswerKeeps ==
  ASSUME ListingInv, NEW f \in fetches, ListAnswered(f) \/ ListFailed(f)
  PROVE  ListingInv'
<1>1. /\ fetches' = fetches \ {f} /\ url' = url
      /\ listLoading' = IF f.active THEN FALSE ELSE listLoading
      /\ UNCHANGED searchVars
  BY DEF ListAnswered, ListFailed
<1>2. /\ fetches' \subseteq Fetch
      /\ \A g \in fetches' : g.active => g.url = url
      /\ f.active => \A g \in fetches' : ~g.active
      /\ ~f.active => (listLoading <=> \E g \in fetches' : g.active)
  BY <1>1, LeavesThePage
<1>3. f \in Fetch /\ (f.active => f.url = url)
  BY DEF ListingInv, ListingTypeOK, OneActive, Fetch
<1>4. OneActive'
  BY <1>1, <1>2 DEF OneActive
<1>5. ListingTypeOK'
  BY <1>1, <1>2, <1>3
  DEF ListingInv, ListingTypeOK, Fetch, ListAnswered, ListFailed, searchVars
<1>6. Settled' /\ WithinPages'
  <2>1. CASE ListAnswered(f)
    BY <2>1, <1>1, <1>3
    DEF ListAnswered, ListingInv, Settled, WithinPages
  <2>2. CASE ListFailed(f)
    BY <2>2, <1>1, <1>3 DEF ListFailed, ListingInv, Settled, WithinPages
  <2> QED BY <2>1, <2>2
<1>7. Suggested'
  BY <1>1 DEF ListingInv, Suggested, searchVars
<1> QED BY <1>4, <1>5, <1>6, <1>7 DEF ListingInv

(* Typing, the timer and the answers of the lookups.                          *)
LEMMA SearchKeeps ==
  ASSUME ListingInv,
         \/ \E word \in Word \cup {Short} : Type(word)
         \/ TimerFires
         \/ \E word \in lookups : LookupEnds(word)
  PROVE  ListingInv'
<1> USE DEF ListingInv, ListingTypeOK, Suggested
<1>1. OneActive' /\ Settled' /\ WithinPages'
  BY DEF Type, TimerFires, LookupEnds, listVars, OneActive, Settled,
         WithinPages
<1>2. ASSUME NEW word \in Word \cup {Short}, Type(word)
      PROVE  ListingTypeOK' /\ Suggested'
  BY <1>2 DEF Type, listVars
<1>3. CASE TimerFires
  BY <1>1, <1>3 DEF TimerFires, listVars
<1>4. ASSUME NEW word \in lookups, LookupEnds(word)
      PROVE  ListingTypeOK' /\ Suggested'
  BY <1>4 DEF LookupEnds, listVars
<1> QED BY <1>1, <1>2, <1>3, <1>4

LEMMA ListingKeeps == ListingInv /\ [ListingNext]_listingVars => ListingInv'
<1> SUFFICES ASSUME ListingInv, [ListingNext]_listingVars PROVE ListingInv'
  OBVIOUS
<1>1. ASSUME NEW filter \in Filter, ChangeFilter(filter) PROVE ListingInv'
  BY <1>1, ChangeFilterKeeps
<1>2. ASSUME NEW page \in Pager, TurnPage(page) PROVE ListingInv'
  BY <1>2, TurnPageKeeps
<1>3. ASSUME NEW f \in fetches, ListAnswered(f) \/ ListFailed(f)
      PROVE  ListingInv'
  BY <1>3, AnswerKeeps
<1>4. CASE UNCHANGED listingVars
  BY <1>4 DEF ListingInv, ListingTypeOK, OneActive, Settled, WithinPages,
              Suggested, listingVars, listVars, searchVars
<1> QED BY <1>1, <1>2, <1>3, <1>4, SearchKeeps DEF ListingNext

(* However fast the shopper clicks and in whatever order the answers come,    *)
(* the list, its pager and the suggestions are those of the URL and the box.  *)
THEOREM ListShown == ListingSpec => []ShownIsAsked
<1>1. ListingInv => ShownIsAsked
  BY DEF ListingInv, Settled, WithinPages, Suggested, ShownIsAsked
<1> QED BY <1>1, ListingStart, ListingKeeps, PTL DEF ListingSpec

------------------------------------------------------------------------------
(* The camera.  A stream that is on is the one the modal holds or one granted *)
(* late, so that what stops the one it holds stops all that may be stopped;   *)
(* while a prompt of the running effect is open, the modal holds no other.    *)
(* No picture, nothing behind it.                                             *)
Traced == live \subseteq {cameraStream} \cup late
Asked ==
  \A s \in Stream : prompts[s] = "current" =>
    /\ Wanted(lens)
    /\ live \subseteq late
    /\ \A t \in Stream : prompts[t] = "current" => t = s
Uncovered == ~lens.picture => behind = {}

CameraInv ==
  VisualSearchTypeOK /\ Traced /\ Asked /\ Uncovered /\ CameraFollowsModal

LEMMA CameraStart == VisualSearchInit => CameraInv
<1>1. VisualSearchInit => Asked
  BY DEF VisualSearchInit, Asked
<1>2. VisualSearchInit => VisualSearchTypeOK
  <2> SUFFICES ASSUME VisualSearchInit PROVE VisualSearchTypeOK
    OBVIOUS
  <2>1. lens \in [open : BOOLEAN, tab : {"upload", "camera"},
                  picture : BOOLEAN]
    BY DEF VisualSearchInit
  <2>2. prompts \in [Stream -> {"none", "current", "over", "answered"}]
    BY DEF VisualSearchInit
  <2>3. reading \in BOOLEAN
    BY Zenon DEF VisualSearchInit
  <2> QED BY <2>1, <2>2, <2>3 DEF VisualSearchInit, VisualSearchTypeOK
<1>3. VisualSearchInit => Traced /\ Uncovered /\ CameraFollowsModal
  BY DEF VisualSearchInit, Traced, Uncovered, CameraFollowsModal
<1> QED BY <1>1, <1>2, <1>3 DEF CameraInv

(* The effect starts again: the camera's tab was not in use before it is, so  *)
(* that all that can be on is granted late; when the tab is left, what is     *)
(* held is stopped.                                                           *)
LEMMA EffectKeeps ==
  ASSUME CameraInv,
         NEW m \in [open : BOOLEAN, tab : {"upload", "camera"},
                    picture : BOOLEAN],
         Wanted(m) => ~Wanted(lens),
         RunEffect(m, cameraStream),
         behind' \subseteq Stream, ~m.picture => behind' = {}
  PROVE  CameraInv'
<1> USE DEF CameraInv, VisualSearchTypeOK
<1>1. /\ lens' = m /\ late' = late /\ cleanup' = cameraStream
      /\ live' = live \ Stopped(m, cameraStream) /\ reading' = reading
      /\ cameraStream' \in {cameraStream, Nothing}
  BY DEF RunEffect
<1>2. /\ Ended \in [Stream -> {"none", "current", "over", "answered"}]
      /\ \A s \in Stream : Ended[s] # "current"
  BY DEF Ended
<1>3. live' \subseteq late'
  <2>1. CASE Wanted(m)
    <3>1. live \subseteq late
      BY <2>1 DEF CameraFollowsModal, Shown
    <3> QED BY <1>1, <3>1
  <2>2. CASE ~Wanted(m)
    <3>1. live' = live \ {cleanup, cameraStream}
      BY <1>1, <2>2 DEF Stopped
    <3> QED BY <1>1, <3>1 DEF Traced
  <2> QED BY <2>1, <2>2
<1>4. Traced' /\ Uncovered' /\ CameraFollowsModal'
  BY <1>1, <1>3 DEF Traced, Uncovered, CameraFollowsModal
<1>5. CASE Wanted(m)
  <2>1. PICK s \in Stream : prompts' = [Ended EXCEPT ![s] = "current"]
    BY <1>5 DEF RunEffect
  <2>2. VisualSearchTypeOK'
    BY <1>1, <1>2, <1>3, <2>1
  <2>3. \A t \in Stream : prompts'[t] = "current" => t = s
    BY <1>2, <2>1
  <2>4. Asked'
    BY <1>1, <1>5, <1>3, <2>3 DEF Asked, Wanted
  <2> QED BY <1>4, <2>2, <2>4
<1>6. CASE ~Wanted(m)
  <2>1. prompts' = Ended
    BY <1>6 DEF RunEffect
  <2> QED BY <1>1, <1>2, <1>3, <1>4, <2>1 DEF Asked
<1> QED BY <1>5, <1>6

LEMMA CameraKeeps == CameraInv /\ [VisualSearchNext]_visualVars => CameraInv'
<1> SUFFICES ASSUME CameraInv, [VisualSearchNext]_visualVars PROVE CameraInv'
  OBVIOUS
<1> DEFINE Lens == [open : BOOLEAN, tab : {"upload", "camera"},
                    picture : BOOLEAN]
<1>1. CASE OpenVisualSearch
  <2> DEFINE m == [lens EXCEPT !.open = TRUE]
  <2>1. m \in Lens /\ m.picture = lens.picture
    BY DEF CameraInv, VisualSearchTypeOK
  <2>2. RunEffect(m, cameraStream) /\ behind' = behind /\ ~Wanted(lens)
    BY <1>1 DEF OpenVisualSearch, Wanted
  <2> HIDE DEF m
  <2> QED BY <2>1, <2>2, EffectKeeps
          DEF CameraInv, VisualSearchTypeOK, Uncovered
<1>2. ASSUME NEW tab \in {"upload", "camera"}, SetActiveTab(tab)
      PROVE  CameraInv'
  <2> DEFINE m == [lens EXCEPT !.tab = tab]
  <2>1. m \in Lens /\ m.picture = lens.picture /\ m.tab = tab
    BY DEF CameraInv, VisualSearchTypeOK
  <2>2. RunEffect(m, cameraStream) /\ behind' = behind /\ tab # lens.tab
    BY <1>2 DEF SetActiveTab
  <2> HIDE DEF m
  <2>3. Wanted(m) => ~Wanted(lens)
    BY <2>1, <2>2 DEF Wanted
  <2> QED BY <2>1, <2>2, <2>3, EffectKeeps
          DEF CameraInv, VisualSearchTypeOK, Uncovered
<1>3. CASE Escape
  <2> DEFINE m == [lens EXCEPT !.open = FALSE, !.picture = FALSE]
  <2>1. m \in Lens /\ ~m.open
    BY DEF CameraInv, VisualSearchTypeOK
  <2>2. RunEffect(m, cameraStream) /\ behind' = {}
    BY <1>3 DEF Escape
  <2> HIDE DEF m
  <2> QED BY <2>1, <2>2, EffectKeeps DEF Wanted
<1> HIDE DEF Lens
<1> USE DEF CameraInv, VisualSearchTypeOK, Traced, Asked, Uncovered,
            CameraFollowsModal
<1>4. CASE HandleClose
  <2>1. /\ Ended \in [Stream -> {"none", "current", "over", "answered"}]
        /\ \A s \in Stream : Ended[s] # "current"
    BY DEF Ended
  <2> QED BY <1>4, <2>1 DEF HandleClose
<1>5. CASE CapturePhoto
  <2>1. lens' \in [open : BOOLEAN, tab : {"upload", "camera"},
                   picture : BOOLEAN]
    BY <1>5 DEF CapturePhoto
  <2>2. Wanted(lens)' /\ lens'.picture
    BY <1>5 DEF CapturePhoto, Wanted
  <2>3. /\ live' = live \ {cameraStream} /\ cameraStream' = Nothing
        /\ UNCHANGED <<prompts, cleanup, late, behind, reading>>
    BY <1>5 DEF CapturePhoto, StoppedByPhoto
  <2>4. live' \subseteq late'
    BY <2>3
  <2> QED BY <2>1, <2>2, <2>3, <2>4
<1>6. ASSUME SelectImage, reading' \in BOOLEAN PROVE CameraInv'
  <2>1. /\ lens' \in [open : BOOLEAN, tab : {"upload", "camera"},
                      picture : BOOLEAN]
        /\ lens'.picture /\ (Wanted(lens)' <=> Wanted(lens))
    BY <1>6 DEF SelectImage, Wanted
  <2>2. /\ behind' = behind \cup live
        /\ UNCHANGED <<prompts, cameraStream, cleanup, live, late>>
    BY <1>6 DEF SelectImage, camera
  <2>3. CameraFollowsModal'
    BY <2>1, <2>2 DEF Shown
  <2> QED BY <1>6, <2>1, <2>2, <2>3
<1>7. CASE HandlePresetClick \/ FileRead
  BY <1>6, <1>7 DEF HandlePresetClick, FileRead
<1>8. CASE ProcessFile
  BY <1>8 DEF ProcessFile, camera
<1>9. CASE SearchAgain
  <2>1. /\ lens' \in [open : BOOLEAN, tab : {"upload", "camera"},
                      picture : BOOLEAN]
        /\ ~lens'.picture /\ (Wanted(lens)' <=> Wanted(lens))
    BY <1>9 DEF SearchAgain, Wanted
  <2>2. /\ behind' = {}
        /\ UNCHANGED <<prompts, cameraStream, cleanup, live, late, reading>>
    BY <1>9 DEF SearchAgain, camera
  <2> QED BY <2>1, <2>2 DEF Shown
<1>10. ASSUME NEW s \in Stream, Granted(s) PROVE CameraInv'
  BY <1>10 DEF Granted, Shown
<1>11. ASSUME NEW s \in Stream, Denied(s) PROVE CameraInv'
  BY <1>11 DEF Denied
<1>12. CASE UNCHANGED visualVars
  BY <1>12 DEF visualVars, camera
<1> QED
  BY <1>1, <1>2, <1>3, <1>4, <1>5, <1>7, <1>8, <1>9, <1>10, <1>11, <1>12
  DEF VisualSearchNext

(* The camera is on while its tab is shown and at no other time, but behind a *)
(* picture that is not a photo and for prompts answered late, for any number  *)
(* of streams and whatever the order of clicks, files read and grants.        *)
THEOREM CameraOff == VisualSearchSpec => []CameraFollowsModal
<1>1. CameraInv => CameraFollowsModal
  BY DEF CameraInv
<1> QED BY <1>1, CameraStart, CameraKeeps, PTL DEF VisualSearchSpec

------------------------------------------------------------------------------
(* The assistant.  Nothing reaches a reply but through the database: what is  *)
(* on sale now is in both histories, and what a question in flight has        *)
(* retrieved, picked or read back is in the one its kind of reply is judged   *)
(* by.                                                                        *)
Question ==
  [step : {"none", "retrieve", "ask", "hydrate", "reply"},
   docs : SUBSET Card, ids : SUBSET (Ware \cup {Invented}),
   cards : SUBSET Card, llm : BOOLEAN]
Message ==
  [role : {"user", "assistant"}, cards : SUBSET Card, degraded : BOOLEAN]

Picked(cards, docs) ==
  /\ cards \subseteq sinceAnswered
  /\ \A card \in cards : \E doc \in docs : doc.id = card.id
OnSaleSeen ==
  /\ question.step # "none" => lastShown.role = "user"
  /\ question.docs \subseteq sinceAsked
  /\ question.step # "none" => Cards \subseteq sinceAsked
  /\ question.step = "hydrate" => Cards \subseteq sinceAnswered
  /\ question.step = "reply" =>
       IF question.llm THEN Picked(question.cards, question.docs)
       ELSE question.cards \subseteq sinceAsked

AssistantInv ==
  /\ tag \in [Ware -> Price \cup {0}]
  /\ question \in Question /\ lastShown \in Message
  /\ widgetOpen \in BOOLEAN /\ unread \in BOOLEAN
  /\ OnSaleSeen /\ OnlyRealProducts

LEMMA NoQuestionIsQuestion ==
  /\ NoQuestion \in Question /\ NoQuestion.docs = {} /\ NoQuestion.step = "none"
  /\ \A docs \in SUBSET Card : [NoQuestion EXCEPT !.docs = docs] \in Question
BY DEF NoQuestion, Question

LEMMA AssistantStart == AssistantInit => AssistantInv
<1> SUFFICES ASSUME AssistantInit PROVE AssistantInv
  OBVIOUS
<1> USE DEF AssistantInit
<1>1. tag \in [Ware -> Price \cup {0}]
  OBVIOUS
<1>2. question \in Question /\ question.docs = {} /\ question.step = "none"
  BY NoQuestionIsQuestion
<1>3. lastShown \in Message /\ lastShown.cards = {}
  BY DEF Says, Message
<1>4. OnSaleSeen
  BY <1>2 DEF OnSaleSeen
<1>5. OnlyRealProducts
  BY <1>3 DEF OnlyRealProducts
<1> QED BY <1>1, <1>2, <1>3, <1>4, <1>5 DEF AssistantInv

LEMMA SubmitKeeps == AssistantInv /\ Submit => AssistantInv'
<1> SUFFICES ASSUME AssistantInv, Submit PROVE AssistantInv'
  OBVIOUS
<1>1. question' = [step |-> "retrieve", docs |-> {}, ids |-> {},
                   cards |-> {}, llm |-> FALSE]
  BY DEF Submit, NoQuestion
<1>2. lastShown' = [role |-> "user", cards |-> {}, degraded |-> FALSE]
  BY DEF Submit, Says
<1>3. Cards' = sinceAsked'
  BY DEF Submit, Cards
<1>4. OnSaleSeen'
  BY <1>1, <1>2, <1>3 DEF OnSaleSeen
<1>5. OnlyRealProducts'
  BY <1>2 DEF OnlyRealProducts
<1>6. question' \in Question /\ lastShown' \in Message
  BY <1>1, <1>2 DEF Question, Message
<1>7. UNCHANGED <<tag, widgetOpen, unread>>
  BY DEF Submit
<1> QED BY <1>4, <1>5, <1>6, <1>7 DEF AssistantInv

(* A message is judged by the question it answers.                            *)
LEMMA PushKeeps ==
  ASSUME AssistantInv, NEW cards \in SUBSET Card, NEW degraded \in BOOLEAN,
         Push(cards, degraded),
         IF degraded THEN cards \subseteq sinceAsked
         ELSE Picked(cards, question.docs)
  PROVE  AssistantInv'
<1>1. /\ question' = [NoQuestion EXCEPT !.docs = question.docs]
      /\ lastShown' = [role |-> "assistant", cards |-> cards,
                       degraded |-> degraded]
      /\ unread' = IF widgetOpen THEN unread ELSE TRUE
      /\ UNCHANGED <<tag, widgetOpen, sinceAsked, sinceAnswered>>
  BY DEF Push, Says, shopFloor
<1>2. question.docs \in SUBSET Card
  BY DEF AssistantInv, Question
<1>3. question' \in Question /\ lastShown' \in Message
  BY <1>1, <1>2, NoQuestionIsQuestion DEF Message
<1>4. question'.docs = question.docs /\ question'.step = "none"
  BY <1>1, <1>2, NoQuestionIsQuestion DEF NoQuestion
<1>5. OnSaleSeen'
  BY <1>1, <1>4 DEF AssistantInv, OnSaleSeen
<1>6. OnlyRealProducts'
  BY <1>1, <1>4 DEF OnlyRealProducts, Picked
<1> QED BY <1>1, <1>3, <1>5, <1>6 DEF AssistantInv

LEMMA ReplyKeeps == AssistantInv /\ (ReplyShown \/ Apologises) => AssistantInv'
<1> SUFFICES ASSUME AssistantInv, ReplyShown \/ Apologises PROVE AssistantInv'
  OBVIOUS
<1>1. CASE ReplyShown
  <2>1. question.step = "reply" /\ Push(question.cards, ~question.llm)
    BY <1>1 DEF ReplyShown
  <2>2. question.cards \in SUBSET Card /\ question.llm \in BOOLEAN
    BY DEF AssistantInv, Question
  <2>3. IF ~question.llm THEN question.cards \subseteq sinceAsked
        ELSE Picked(question.cards, question.docs)
    BY <2>1 DEF AssistantInv, OnSaleSeen
  <2> QED BY <2>1, <2>2, <2>3, PushKeeps
<1>2. CASE Apologises
  <2>1. Push({}, TRUE)
    BY <1>2 DEF Apologises
  <2> QED BY <2>1, PushKeeps
<1> QED BY <1>1, <1>2

(* A step of the AI service or the gateway: the question is being answered,   *)
(* so no message is judged yet.                                               *)
LEMMA ProceedsKeeps ==
  ASSUME AssistantInv, NEW q \in Question, Proceeds(q),
         question.step # "none", q.step # "none",
         q.docs \subseteq sinceAsked,
         q.step = "hydrate" => Cards \subseteq sinceAnswered',
         q.step = "reply" =>
           IF q.llm
           THEN /\ q.cards \subseteq sinceAnswered'
                /\ \A card \in q.cards : \E doc \in q.docs : doc.id = card.id
           ELSE q.cards \subseteq sinceAsked
  PROVE  AssistantInv'
<1>1. /\ question' = q
      /\ UNCHANGED <<tag, lastShown, widgetOpen, unread, sinceAsked>>
  BY DEF Proceeds, shopFloor, widgetVars
<1>2. Cards' = Cards
  BY <1>1 DEF Cards
<1>3. lastShown.role = "user" /\ Cards \subseteq sinceAsked
  BY DEF AssistantInv, OnSaleSeen
<1>4. OnSaleSeen'
  BY <1>1, <1>2, <1>3 DEF OnSaleSeen, Picked
<1>5. OnlyRealProducts'
  BY <1>1, <1>3 DEF OnlyRealProducts
<1> QED BY <1>1, <1>4, <1>5 DEF AssistantInv

LEMMA RepliesIsQuestion ==
  ASSUME question \in Question, NEW cards \in SUBSET Card, NEW llm \in BOOLEAN
  PROVE  /\ Replies(cards, llm) \in Question
         /\ Replies(cards, llm).step = "reply"
         /\ Replies(cards, llm).docs = question.docs
         /\ Replies(cards, llm).cards = cards
         /\ Replies(cards, llm).llm = llm
BY DEF Replies, Question

LEMMA RetrieveKeeps == AssistantInv /\ Retrieve => AssistantInv'
<1> SUFFICES ASSUME AssistantInv, Retrieve PROVE AssistantInv'
  OBVIOUS
<1>1. /\ question \in Question /\ question.step = "retrieve"
      /\ question.docs \subseteq sinceAsked /\ Cards \subseteq sinceAsked
  BY DEF Retrieve, AssistantInv, OnSaleSeen
<1>2. PICK docs \in SUBSET Cards :
        Proceeds(IF docs = {} THEN Replies({}, FALSE)
                 ELSE [question EXCEPT !.step = "ask", !.docs = docs])
  BY DEF Retrieve
<1>3. CASE docs = {}
  <2> DEFINE q == Replies({}, FALSE)
  <2>1. /\ q \in Question /\ q.step = "reply" /\ q.docs = question.docs
        /\ q.cards = {} /\ q.llm = FALSE
    BY <1>1, RepliesIsQuestion
  <2>2. Proceeds(q)
    BY <1>2, <1>3
  <2> HIDE DEF q
  <2> QED BY <1>1, <2>1, <2>2, ProceedsKeeps
<1>4. CASE docs # {}
  <2> DEFINE q == [question EXCEPT !.step = "ask", !.docs = docs]
  <2>1. docs \in SUBSET Card /\ docs \subseteq sinceAsked
    BY <1>1 DEF Cards
  <2>2. q \in Question /\ q.step = "ask" /\ q.docs = docs
    BY <1>1, <2>1 DEF Question
  <2>3. Proceeds(q)
    BY <1>2, <1>4
  <2> HIDE DEF q
  <2> QED BY <1>1, <2>1, <2>2, <2>3, ProceedsKeeps
<1> QED BY <1>3, <1>4

LEMMA ModelKeeps ==
  AssistantInv /\ (ModelAnswers \/ ModelFails) => AssistantInv'
<1> SUFFICES ASSUME AssistantInv, ModelAnswers \/ ModelFails
             PROVE  AssistantInv'
  OBVIOUS
<1>1. /\ question \in Question /\ question.step = "ask"
      /\ question.docs \subseteq sinceAsked /\ question.docs \in SUBSET Card
  BY DEF ModelAnswers, ModelFails, AssistantInv, OnSaleSeen, Question
<1>2. CASE ModelAnswers
  <2>1. PICK ids \in SUBSET (Ware \cup {Invented}) :
          Proceeds([question EXCEPT !.step = "hydrate", !.ids = ids])
    BY <1>2 DEF ModelAnswers
  <2> DEFINE q == [question EXCEPT !.step = "hydrate", !.ids = ids]
  <2>2. q \in Question /\ q.step = "hydrate" /\ q.docs = question.docs
    BY <1>1 DEF Question
  <2>3. Proceeds(q) /\ sinceAnswered' = Cards
    BY <1>2, <2>1 DEF ModelAnswers
  <2> HIDE DEF q
  <2> QED BY <1>1, <2>2, <2>3, ProceedsKeeps
<1>3. CASE ModelFails
  <2> DEFINE q == Replies(question.docs, FALSE)
  <2>1. /\ q \in Question /\ q.step = "reply" /\ q.docs = question.docs
        /\ q.cards = question.docs /\ q.llm = FALSE
    BY <1>1, RepliesIsQuestion
  <2>2. Proceeds(q)
    BY <1>3 DEF ModelFails
  <2> HIDE DEF q
  <2> QED BY <1>1, <2>1, <2>2, ProceedsKeeps
<1> QED BY <1>2, <1>3

(* What is read back was retrieved, and is what the shop sells now.           *)
LEMMA HydrateKeeps == AssistantInv /\ Hydrate => AssistantInv'
<1> SUFFICES ASSUME AssistantInv, Hydrate PROVE AssistantInv'
  OBVIOUS
<1>1. /\ question \in Question /\ question.step = "hydrate"
      /\ question.docs \subseteq sinceAsked /\ Cards \subseteq sinceAnswered
      /\ UNCHANGED sinceAnswered
  BY DEF Hydrate, AssistantInv, OnSaleSeen
<1>2. ReadBack(Allowed) \in SUBSET Card /\ ReadBack(Allowed) \subseteq Cards
  BY DEF ReadBack, Cards
<1>3. \A card \in ReadBack(Allowed) :
        \E doc \in question.docs : doc.id = card.id
  BY DEF ReadBack, Allowed
<1> DEFINE q == Replies(ReadBack(Allowed), TRUE)
<1>4. /\ q \in Question /\ q.step = "reply" /\ q.docs = question.docs
      /\ q.cards = ReadBack(Allowed) /\ q.llm = TRUE
  BY <1>1, <1>2, RepliesIsQuestion
<1>5. Proceeds(q)
  BY DEF Hydrate
<1> HIDE DEF q
<1>6. /\ q.cards \subseteq sinceAnswered'
      /\ \A card \in q.cards : \E doc \in q.docs : doc.id = card.id
  BY <1>1, <1>2, <1>3, <1>4
<1> QED BY <1>1, <1>4, <1>5, <1>6, ProceedsKeeps

LEMMA FallbackKeeps == AssistantInv /\ FallbackSearch => AssistantInv'
<1> SUFFICES ASSUME AssistantInv, FallbackSearch PROVE AssistantInv'
  OBVIOUS
<1>1. /\ question \in Question /\ question.step # "none"
      /\ question.docs \subseteq sinceAsked /\ Cards \subseteq sinceAsked
  BY DEF FallbackSearch, AssistantInv, OnSaleSeen
<1>2. PICK found \in SUBSET Cards : Proceeds(Replies(found, FALSE))
  BY DEF FallbackSearch
<1>3. found \in SUBSET Card /\ found \subseteq sinceAsked
  BY <1>1 DEF Cards
<1> DEFINE q == Replies(found, FALSE)
<1>4. /\ q \in Question /\ q.step = "reply" /\ q.docs = question.docs
      /\ q.cards = found /\ q.llm = FALSE
  BY <1>1, <1>3, RepliesIsQuestion
<1>5. Proceeds(q)
  BY <1>2
<1> HIDE DEF q
<1> QED BY <1>1, <1>3, <1>4, <1>5, ProceedsKeeps

(* The histories see every state of the shop.                                 *)
LEMMA ShopMovesKeeps ==
  ASSUME AssistantInv, NEW w \in Ware, NEW price \in Price \cup {0},
         ShopMoves(w, price)
  PROVE  AssistantInv'
<1>1. /\ tag' = [tag EXCEPT ![w] = price]
      /\ sinceAsked' = sinceAsked \cup Cards'
      /\ sinceAnswered' = sinceAnswered \cup Cards'
      /\ UNCHANGED <<question, lastShown, widgetOpen, unread>>
  BY DEF ShopMoves, widgetVars
<1>2. tag' \in [Ware -> Price \cup {0}]
  BY <1>1 DEF AssistantInv
<1>3. OnSaleSeen'
  BY <1>1 DEF AssistantInv, OnSaleSeen, Picked
<1>4. OnlyRealProducts'
  BY <1>1 DEF AssistantInv, OnlyRealProducts
<1> QED BY <1>1, <1>2, <1>3, <1>4 DEF AssistantInv

LEMMA AssistantStep ==
  AssistantInv /\ [AssistantNext]_chatVars => AssistantInv'
<1> SUFFICES ASSUME AssistantInv, [AssistantNext]_chatVars PROVE AssistantInv'
  OBVIOUS
<1>1. CASE Toggle
  <2>1. /\ widgetOpen' = ~widgetOpen
        /\ unread' = IF widgetOpen THEN unread ELSE FALSE
        /\ UNCHANGED <<tag, question, lastShown, sinceAsked, sinceAnswered>>
    BY <1>1 DEF Toggle, shopFloor
  <2>2. Cards' = Cards
    BY <2>1 DEF Cards
  <2> QED BY <2>1, <2>2 DEF AssistantInv, OnSaleSeen, Picked, OnlyRealProducts
<1>2. CASE UNCHANGED chatVars
  <2>1. Cards' = Cards
    BY <1>2 DEF Cards, chatVars
  <2> QED BY <1>2, <2>1
       DEF AssistantInv, OnSaleSeen, Picked, OnlyRealProducts, chatVars
<1>3. CASE \E w \in Ware, price \in Price \cup {0} : ShopMoves(w, price)
  BY <1>3, ShopMovesKeeps
<1> QED
  BY <1>1, <1>2, <1>3, SubmitKeeps, ReplyKeeps, RetrieveKeeps, ModelKeeps,
     HydrateKeeps, FallbackKeeps DEF AssistantNext

(* "A hallucinated product cannot reach this component" (the widget's card):  *)
(* whatever the language model answers, however slow, and whatever the admins *)
(* do meanwhile, for any shop and any number of questions.                    *)
THEOREM CardsAreReal == AssistantSpec => []OnlyRealProducts
<1>1. AssistantInv => OnlyRealProducts
  BY DEF AssistantInv
<1> QED BY <1>1, AssistantStart, AssistantStep, PTL DEF AssistantSpec
=============================================================================
