---------------------------- MODULE VisualSearch -----------------------------
(* The camera of the search by image (components/products/                    *)
(* VisualSearchModal.tsx).  The modal is part of the shop's layout: closing   *)
(* it only hides it.  The browser grants the camera whenever the shopper      *)
(* answers its prompt.                                                        *)
EXTENDS Integers

CONSTANTS
  Stream,         \* the camera streams the browser hands out
  MaxMoves        \* bounds what the shopper does

ASSUME VisualSearchAssumption == MaxMoves \in Nat

VARIABLES
  lens,          \* the modal: open or not, its tab, a picture selected or not
  prompts,       \* what became of the request for each stream
  cameraStream,  \* the stream the modal holds
  cleanup,       \* the stream the cleanup of the running effect will stop
  live,          \* the streams whose camera is on
  late,          \* history: streams granted to an effect that was over, and
                 \*   those such a grant made the modal forget
  behind,        \* history: streams left on, or granted, behind the present
                 \*   picture
  reading,       \* a file was chosen and is being read
  moves

camera == <<prompts, cameraStream, cleanup, live, late>>
visualVars == <<lens, camera, behind, reading, moves>>

Nothing == "nothing"

VisualSearchTypeOK ==
  /\ lens \in [open : BOOLEAN, tab : {"upload", "camera"}, picture : BOOLEAN]
  /\ prompts \in [Stream -> {"none", "current", "over", "answered"}]
  /\ {cameraStream, cleanup} \subseteq Stream \cup {Nothing}
  /\ live \subseteq Stream /\ late \subseteq Stream /\ behind \subseteq Stream
  /\ reading \in BOOLEAN

VisualSearchInit ==
  /\ lens = [open |-> FALSE, tab |-> "upload", picture |-> FALSE]
  /\ prompts = [s \in Stream |-> "none"]
  /\ cameraStream = Nothing /\ cleanup = Nothing
  /\ live = {} /\ late = {} /\ behind = {}
  /\ reading = FALSE /\ moves = 0

------------------------------------------------------------------------------
(* The effect on [activeTab, visualSearchOpen].  What closes over the stream  *)
(* sees the one of its own render: the cleanup of the effect that ends stops  *)
(* what was held when it began, and the effect that begins, away from the     *)
(* camera's tab, what is held now.                                            *)
Wanted(m) == m.open /\ m.tab = "camera"

LeavesItOn(m, held) == {cleanup}
Stopped(m, held) == IF Wanted(m) THEN {cleanup} ELSE {cleanup, held}

Ended == [s \in Stream |-> IF prompts[s] = "current" THEN "over"
                           ELSE prompts[s]]

RunEffect(m, held) ==
  /\ lens' = m
  /\ live' = live \ Stopped(m, held)
  /\ cameraStream' = IF Wanted(m) /\ cleanup = Nothing THEN held ELSE Nothing
  /\ cleanup' = held
  /\ IF Wanted(m)
     THEN \E s \in Stream : prompts[s] = "none"
                              /\ prompts' = [Ended EXCEPT ![s] = "current"]
     ELSE prompts' = Ended
  /\ UNCHANGED <<late, reading>>

Moves == moves < MaxMoves /\ moves' = moves + 1

\* The tab is kept when the modal shuts: opening it may start the camera, even
\* behind a picture whose file was read after the modal had shut.
OpenVisualSearch ==
  /\ Moves /\ ~lens.open
  /\ RunEffect([lens EXCEPT !.open = TRUE], cameraStream)
  /\ UNCHANGED behind

SetActiveTab(tab) ==
  /\ Moves /\ lens.open /\ ~lens.picture /\ tab # lens.tab
  /\ RunEffect([lens EXCEPT !.tab = tab], cameraStream)
  /\ UNCHANGED behind

\* handleClose as the first render made it, for the Escape key: it holds no
\* stream, and leaves the camera to the effect.
Escape ==
  /\ Moves /\ lens.open
  /\ RunEffect([lens EXCEPT !.open = FALSE, !.picture = FALSE], cameraStream)
  /\ behind' = {}

\* handleClose from a button of the current render.
HandleClose ==
  /\ Moves /\ lens.open
  /\ lens' = [lens EXCEPT !.open = FALSE, !.picture = FALSE]
  /\ live' = live \ {cleanup, cameraStream}
  /\ cameraStream' = Nothing /\ cleanup' = Nothing
  /\ prompts' = Ended
  /\ behind' = {}
  /\ UNCHANGED <<late, reading>>

NothingStopped == {}
StoppedByPhoto == {cameraStream}

\* A photo is taken, with or without a stream; the tab stays the camera's.
CapturePhoto ==
  /\ Moves /\ Wanted(lens) /\ ~lens.picture
  /\ lens' = [lens EXCEPT !.picture = TRUE]
  /\ live' = live \ StoppedByPhoto
  /\ cameraStream' = Nothing
  /\ UNCHANGED <<prompts, cleanup, late, behind, reading>>

\* A picture that is not a photo: the camera, should it be on, stays on.
SelectImage ==
  /\ lens' = [lens EXCEPT !.picture = TRUE]
  /\ behind' = behind \cup live
  /\ UNCHANGED camera

\* The presets are below both tabs.
HandlePresetClick ==
  /\ Moves /\ lens.open /\ ~lens.picture
  /\ SelectImage
  /\ UNCHANGED reading

ProcessFile ==
  /\ Moves /\ lens.open /\ ~lens.picture /\ lens.tab = "upload" /\ ~reading
  /\ reading' = TRUE
  /\ UNCHANGED <<lens, camera, behind>>

\* The file is read, whatever the modal shows by then, or has shut.
FileRead ==
  /\ reading /\ reading' = FALSE
  /\ SelectImage
  /\ UNCHANGED moves

\* The picture is given up for a new search.
SearchAgain ==
  /\ Moves /\ lens.open /\ lens.picture
  /\ lens' = [lens EXCEPT !.picture = FALSE]
  /\ behind' = {}
  /\ UNCHANGED <<camera, reading>>

------------------------------------------------------------------------------
(* startCamera, after its await: the stream is taken whatever the modal       *)
(* shows by then, and whatever it holds.                                      *)
Granted(s) ==
  /\ prompts[s] \in {"current", "over"}
  /\ prompts' = [prompts EXCEPT ![s] = "answered"]
  /\ cameraStream' = s
  /\ live' = live \cup {s}
  /\ late' = IF prompts[s] = "over" THEN late \cup (live \cup {s}) ELSE late
  /\ behind' = IF lens.picture THEN behind \cup {s} ELSE behind
  /\ UNCHANGED <<lens, cleanup, reading, moves>>

Denied(s) ==
  /\ prompts[s] \in {"current", "over"}
  /\ prompts' = [prompts EXCEPT ![s] = "answered"]
  /\ UNCHANGED <<lens, cameraStream, cleanup, live, late, behind, reading>>
  /\ UNCHANGED moves

VisualSearchNext ==
  \/ OpenVisualSearch \/ HandleClose \/ Escape \/ CapturePhoto
  \/ HandlePresetClick \/ ProcessFile \/ FileRead \/ SearchAgain
  \/ \E tab \in {"upload", "camera"} : SetActiveTab(tab)
  \/ \E s \in Stream : Granted(s) \/ Denied(s)

VisualSearchSpec == VisualSearchInit /\ [][VisualSearchNext]_visualVars

------------------------------------------------------------------------------
(* The camera is on only while the modal shows the camera's tab: however it   *)
(* is opened, shut and switched, and after every photo, it is off.  There are *)
(* two exceptions.  A prompt answered after its tab was left leaves the       *)
(* camera on (late).  And a preset or a file never stops it: as long as the   *)
(* modal stays open on the camera's tab it runs behind the picture (behind),  *)
(* but no longer than that: the next photo, switch or closing stops it.       *)
Shown(m) == Wanted(m) /\ ~m.picture

CameraFollowsModal ==
  \A s \in live :
    \/ Shown(lens)
    \/ s \in behind /\ Wanted(lens)
    \/ s \in late
=============================================================================
