------------------------------ MODULE Assistant ------------------------------
(* The shopping assistant: the chat widget, the API's gateway                 *)
(* (backend/src/ai/ai.service.ts) and the AI service (ai/app/chat.py), while  *)
(* admins reprice, archive and restore the products it talks about.  The      *)
(* language model may answer anything, late, or not at all.                   *)
EXTENDS Integers

CONSTANTS
  Ware,           \* the products a question may be about
  Invented,       \* a product that is not in the shop
  Price,
  MaxChanges, MaxQuestions

ASSUME AssistantAssumption ==
  Invented \notin Ware /\ Price \subseteq Nat \ {0}
    /\ MaxChanges \in Nat /\ MaxQuestions \in Nat

VARIABLES
  tag,            \* the price of each product that is on sale, 0 for the others
  question,       \* the question in flight
  lastShown,      \* the newest message of the widget
  widgetOpen, unread,
  sinceAsked,     \* history: what was on sale since the question was sent,
  sinceAnswered,  \*   and since the model answered
  changes, asked

chatVars == <<tag, question, lastShown, widgetOpen, unread,
              sinceAsked, sinceAnswered, changes, asked>>
widgetVars == <<lastShown, widgetOpen, unread>>
shopFloor  == <<tag, changes, asked>>

Card  == [id : Ware, price : Price]
Cards == {c \in Card : tag[c.id] = c.price}
NoQuestion ==
  [step |-> "none", docs |-> {}, ids |-> {}, cards |-> {}, llm |-> FALSE]
Says(role, cards, degraded) ==
  [role |-> role, cards |-> cards, degraded |-> degraded]

AssistantTypeOK ==
  /\ tag \in [Ware -> Price \cup {0}]
  /\ question.step \in {"none", "retrieve", "ask", "hydrate", "reply"}
  /\ question.docs \subseteq Card /\ question.cards \subseteq Card
  /\ question.ids \subseteq Ware \cup {Invented}
  /\ lastShown.cards \subseteq Card
  /\ widgetOpen \in BOOLEAN /\ unread \in BOOLEAN

AssistantInit ==
  /\ tag \in [Ware -> Price]
  /\ question = NoQuestion
  /\ lastShown = Says("assistant", {}, FALSE)
  /\ widgetOpen = FALSE /\ unread = FALSE
  /\ sinceAsked = {} /\ sinceAnswered = {}
  /\ changes = 0 /\ asked = 0

------------------------------------------------------------------------------
(* The widget: one question at a time, typed while it is open; a reply that   *)
(* arrives while it is shut leaves a dot.                                     *)
Submit ==
  /\ widgetOpen /\ question.step = "none" /\ asked < MaxQuestions
  /\ question' = [NoQuestion EXCEPT !.step = "retrieve"]
  /\ lastShown' = Says("user", {}, FALSE)
  /\ sinceAsked' = Cards /\ sinceAnswered' = {}
  /\ asked' = asked + 1
  /\ UNCHANGED <<tag, widgetOpen, unread, changes>>

Push(cards, degraded) ==
  /\ question' = [NoQuestion EXCEPT !.docs = question.docs]
  /\ lastShown' = Says("assistant", cards, degraded)
  /\ unread' = IF widgetOpen THEN unread ELSE TRUE
  /\ UNCHANGED <<shopFloor, widgetOpen, sinceAsked, sinceAnswered>>

ReplyShown == question.step = "reply" /\ Push(question.cards, ~question.llm)

\* The call to the API itself fails, or is refused as one too many.
Apologises == question.step # "none" /\ Push({}, TRUE)

Toggle ==
  /\ widgetOpen' = ~widgetOpen
  /\ unread' = IF widgetOpen THEN unread ELSE FALSE
  /\ UNCHANGED <<shopFloor, question, lastShown, sinceAsked, sinceAnswered>>

------------------------------------------------------------------------------
(* The AI service: retrieves what is on sale, asks the model to pick, keeps   *)
(* the picks that were retrieved, and reads those back from the database.     *)
Proceeds(q) ==
  /\ question' = q
  /\ UNCHANGED <<shopFloor, widgetVars, sinceAsked>>

Replies(cards, llm) ==
  [question EXCEPT !.step = "reply", !.ids = {}, !.cards = cards, !.llm = llm]

Retrieve ==
  /\ question.step = "retrieve"
  /\ \E docs \in SUBSET Cards :
       Proceeds(IF docs = {} THEN Replies({}, FALSE)
                ELSE [question EXCEPT !.step = "ask", !.docs = docs])
  /\ UNCHANGED sinceAnswered

ModelAnswers ==
  /\ question.step = "ask"
  /\ \E ids \in SUBSET (Ware \cup {Invented}) :
       Proceeds([question EXCEPT !.step = "hydrate", !.ids = ids])
  /\ sinceAnswered' = Cards

\* _fallback: without a key, or when the model fails, what was retrieved.
ModelFails ==
  /\ question.step = "ask"
  /\ Proceeds(Replies(question.docs, FALSE))
  /\ UNCHANGED sinceAnswered

Allowed == {id \in question.ids : \E doc \in question.docs : doc.id = id}
AsRetrieved(ids) == {doc \in question.docs : doc.id \in ids}
ReadBack(ids) == {card \in Cards : card.id \in ids}

Hydrate ==
  /\ question.step = "hydrate"
  /\ Proceeds(Replies(ReadBack(Allowed), TRUE))
  /\ UNCHANGED sinceAnswered

(* The gateway: when the AI service is slow, cold or dead, a plain search.    *)
FallbackSearch ==
  /\ question.step \in {"retrieve", "ask", "hydrate"}
  /\ \E found \in SUBSET Cards : Proceeds(Replies(found, FALSE))
  /\ UNCHANGED sinceAnswered

------------------------------------------------------------------------------
(* An admin reprices, archives or restores a product.                         *)
ShopMoves(w, price) ==
  /\ changes < MaxChanges /\ price # tag[w]
  /\ tag' = [tag EXCEPT ![w] = price]
  /\ changes' = changes + 1
  /\ sinceAsked' = sinceAsked \cup Cards'
  /\ sinceAnswered' = sinceAnswered \cup Cards'
  /\ UNCHANGED <<question, widgetVars, asked>>

AssistantNext ==
  \/ Submit \/ ReplyShown \/ Apologises \/ Toggle
  \/ Retrieve \/ ModelAnswers \/ ModelFails \/ Hydrate \/ FallbackSearch
  \/ \E w \in Ware, price \in Price \cup {0} : ShopMoves(w, price)

AssistantSpec == AssistantInit /\ [][AssistantNext]_chatVars

------------------------------------------------------------------------------
(* "A hallucinated product cannot reach this component": a card the model     *)
(* chose is a product that was retrieved for the question, and that was on    *)
(* sale, at the price on the card, after the model had answered; a card of    *)
(* the fallbacks was on sale, at that price, after the question was asked.    *)
OnlyRealProducts ==
  lastShown.role = "assistant" =>
    IF lastShown.degraded THEN lastShown.cards \subseteq sinceAsked
    ELSE /\ lastShown.cards \subseteq sinceAnswered
         /\ \A card \in lastShown.cards :
              \E doc \in question.docs : doc.id = card.id
=============================================================================
