------------------------------- MODULE Listing -------------------------------
(* Two places of the shop that ask the API again whenever what they show is   *)
(* changed: the product list (frontend/.../(shop)/products/page.tsx), whose   *)
(* filters and page are the URL, and the suggestions under the search box     *)
(* (components/layout/Header.tsx).  Answers may come late, out of order, or   *)
(* not at all; the header and the list stay mounted while the shopper browses.*)
EXTENDS Integers

CONSTANTS
  Filter,         \* what the list can be filtered to
  Pages,          \* the pages each filter has, at least one
  Word,           \* what can be typed, long enough to look up
  MaxNavigations, MaxTyped

ASSUME ListingAssumption ==
  /\ Pages \in [Filter -> Nat \ {0}]
  /\ MaxNavigations \in Nat /\ MaxTyped \in Nat

VARIABLES
  url,          \* the filter and the page in the address
  fetches,      \* fetches of the list in flight: the URL each was for, and
                \*   whether the effect that sent it is still the current one
  list,         \* the URL the list shown was fetched for
  listLoading,
  loadFailed,   \* history: the newest load failed, and some load did
  someFailed,
  typed,        \* the word in the search box
  timer,        \* the word the 200 ms timer will look up
  lookups,      \* lookups in flight
  suggested,    \* the word the suggestions are for
  overtaken,    \* history: an answer came for a word no longer in the box
  navigations, keystrokes

listVars ==
  <<url, fetches, list, listLoading, loadFailed, someFailed, navigations>>
searchVars == <<typed, timer, lookups, suggested, overtaken, keystrokes>>
listingVars == <<listVars, searchVars>>

Short == "fewer than two letters"
Address == [filter : Filter, page : Nat \ {0}]

ListingTypeOK ==
  /\ url \in Address /\ list \in Address
  /\ fetches \subseteq [url : Address, active : BOOLEAN]
  /\ {listLoading, loadFailed, someFailed} \subseteq BOOLEAN
  /\ {typed, timer, suggested} \cup lookups \subseteq Word \cup {Short}
  /\ overtaken \in BOOLEAN

\* The page has been opened and shows what it was opened for.
ListingInit ==
  /\ url \in {[filter |-> f, page |-> 1] : f \in Filter}
  /\ list = url /\ fetches = {} /\ listLoading = FALSE
  /\ loadFailed = FALSE /\ someFailed = FALSE
  /\ typed = Short /\ timer = Short /\ lookups = {} /\ suggested = Short
  /\ overtaken = FALSE /\ navigations = 0 /\ keystrokes = 0

------------------------------------------------------------------------------
(* The list.  A new URL runs the effect again: its cleanup marks the fetch    *)
(* before it inactive, and the body sends one of its own.                     *)
StillActive(fetch) == fetch
Dropped(fetch) == [fetch EXCEPT !.active = FALSE]

GoTo(address) ==
  /\ navigations < MaxNavigations
  /\ address # url
  /\ url' = address
  /\ fetches' = {Dropped(f) : f \in fetches}
                  \cup {[url |-> address, active |-> TRUE]}
  /\ listLoading' = TRUE
  /\ navigations' = navigations + 1
  /\ UNCHANGED <<list, loadFailed, someFailed, searchVars>>

(* updateFilters: another filter starts at its first page.  The pager is      *)
(* drawn for the list on the screen, if that has several pages and is one of  *)
(* them, and only when nothing is loading; Previous counts from the URL.      *)
SamePage(filter) == [filter |-> filter, page |-> url.page]
FirstPage(filter) == [filter |-> filter, page |-> 1]

ChangeFilter(filter) == GoTo(FirstPage(filter))

Pager == ((1 .. Pages[list.filter]) \cup {url.page - 1}) \ {0}
TurnPage(page) ==
  /\ ~listLoading
  /\ Pages[list.filter] > 1 /\ list.page <= Pages[list.filter]
  /\ GoTo([url EXCEPT !.page = page])

ListAnswered(f) ==
  /\ f \in fetches
  /\ fetches' = fetches \ {f}
  /\ list' = IF f.active THEN f.url ELSE list
  /\ listLoading' = IF f.active THEN FALSE ELSE listLoading
  /\ loadFailed' = IF f.active THEN FALSE ELSE loadFailed
  /\ UNCHANGED <<url, someFailed, navigations, searchVars>>

\* The list stays as it was.
ListFailed(f) ==
  /\ f \in fetches
  /\ fetches' = fetches \ {f}
  /\ listLoading' = IF f.active THEN FALSE ELSE listLoading
  /\ loadFailed' = IF f.active THEN TRUE ELSE loadFailed
  /\ someFailed' = (someFailed \/ f.active)
  /\ UNCHANGED <<url, list, navigations, searchVars>>

------------------------------------------------------------------------------
(* The suggestions.  Typing restarts the timer, but a lookup that was sent    *)
(* cannot be taken back, and its answer is shown whatever the box says then.  *)
Type(word) ==
  /\ keystrokes < MaxTyped
  /\ word # typed
  /\ typed' = word
  /\ timer' = word
  /\ suggested' = IF word = Short THEN Short ELSE suggested
  /\ keystrokes' = keystrokes + 1
  /\ UNCHANGED <<lookups, overtaken, listVars>>

TimerFires ==
  /\ timer # Short
  /\ timer' = Short
  /\ lookups' = lookups \cup {timer}
  /\ UNCHANGED <<typed, suggested, overtaken, keystrokes, listVars>>

\* A failed lookup shows the categories that match the word, and no product.
LookupEnds(word) ==
  /\ word \in lookups
  /\ lookups' = lookups \ {word}
  /\ suggested' = word
  /\ overtaken' = (overtaken \/ word # typed)
  /\ UNCHANGED <<typed, timer, keystrokes, listVars>>

ListingNext ==
  \/ \E filter \in Filter : ChangeFilter(filter)
  \/ \E page \in Pager : TurnPage(page)
  \/ \E f \in fetches : ListAnswered(f) \/ ListFailed(f)
  \/ \E word \in Word \cup {Short} : Type(word)
  \/ TimerFires
  \/ \E word \in lookups : LookupEnds(word)

ListingSpec == ListingInit /\ [][ListingNext]_listingVars

------------------------------------------------------------------------------
(* When nothing is loading, the list is the one the URL asks for, however     *)
(* quickly the shopper clicked and in whatever order the answers came, unless *)
(* the load for this URL failed; without a failed load, the URL never asks    *)
(* for a page its filter does not have; and the suggestions are for the word  *)
(* in the box, as long as no answer was overtaken.                            *)
ShownIsAsked ==
  /\ ~listLoading => list = url \/ loadFailed
  /\ ~someFailed => url.page <= Pages[url.filter]
  /\ timer = Short /\ lookups = {} /\ ~overtaken => suggested = typed
=============================================================================
