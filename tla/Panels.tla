-------------------------------- MODULE Panels --------------------------------
(* Parts of the pages, and of what makes them, that share nothing with one       *)
(* another: the event log rail (LogView), figure 1 (PlateView), the film and its *)
(* player (FilmView), the film's footage (Footage), voice (Voice) and cut (Cuts),*)
(* what moves on the landing page while it is seen (Stories), what is shown for  *)
(* a while (Notices), a recording with its readers (Recording), and what is said *)
(* of an attack (Readouts).  A behaviour shows one of them; the others stay as   *)
(* they start.                                                                   *)
EXTENDS LogView, PlateView, FilmView, Footage, Voice, Stories, Notices, Recording, Readouts,
        Cuts

VARIABLE part   \* the one looked at

others == <<cutVars, readoutVars, tapeVars, noticeVars, storyVars, voiceVars, footageVars>>

vars == <<part, railVars, plate, filmVars, others>>

Parts == {"log", "plate", "film", "footage", "voice", "stories", "notices", "recording", "readouts",
          "cuts"}

Init ==
    /\ part \in Parts
    /\ LogInit /\ PlateInit /\ FilmInit /\ FootageInit /\ VoiceInit
    /\ StoryInit /\ NoticeInit /\ TapeInit /\ ReadoutInit /\ CutsInit
    \* The parts that are not looked at start in one way only.
    /\ part # "plate" => ~plate.reduced
    /\ part # "footage" => shot = CHOOSE s \in Shots : TRUE
    /\ part # "cuts" => sheet = CHOOSE s \in Scripts : TRUE
    /\ part # "stories" => ~reduced /\ on_screen = "none"
    /\ part # "notices" => ~page.reduced

LogStep ==
    /\ part = "log" /\ LogNext
    /\ UNCHANGED <<part, plate, filmVars, others>>

PlateStep ==
    /\ part = "plate" /\ PlateNext
    /\ UNCHANGED <<part, railVars, filmVars, others>>

FilmStep ==
    /\ part = "film" /\ FilmNext
    /\ UNCHANGED <<part, railVars, plate, others>>

FootageStep ==
    /\ part = "footage" /\ FootageNext
    /\ UNCHANGED <<part, railVars, plate, filmVars, voiceVars, storyVars, noticeVars, tapeVars, readoutVars, cutVars>>

VoiceStep ==
    /\ part = "voice" /\ VoiceNext
    /\ UNCHANGED <<part, railVars, plate, filmVars, footageVars, storyVars, noticeVars, tapeVars, readoutVars, cutVars>>

StoryStep ==
    /\ part = "stories" /\ StoryNext
    /\ UNCHANGED <<part, railVars, plate, filmVars, footageVars, voiceVars, noticeVars, tapeVars, readoutVars, cutVars>>

NoticeStep ==
    /\ part = "notices" /\ NoticeNext
    /\ UNCHANGED <<part, railVars, plate, filmVars, footageVars, voiceVars, storyVars, tapeVars, readoutVars, cutVars>>

TapeStep ==
    /\ part = "recording" /\ TapeNext
    /\ UNCHANGED <<part, railVars, plate, filmVars, footageVars, voiceVars, storyVars, noticeVars, readoutVars, cutVars>>

ReadoutStep ==
    /\ part = "readouts" /\ ReadoutNext
    /\ UNCHANGED <<part, railVars, plate, filmVars, footageVars, voiceVars, storyVars, noticeVars, tapeVars, cutVars>>

CutsStep ==
    /\ part = "cuts" /\ NextFrame
    /\ UNCHANGED <<part, railVars, plate, filmVars, footageVars, voiceVars, storyVars, noticeVars, tapeVars, readoutVars>>

Next ==
    \/ LogStep
    \/ PlateStep
    \/ FilmStep
    \/ FootageStep
    \/ VoiceStep
    \/ StoryStep
    \/ NoticeStep
    \/ TapeStep
    \/ ReadoutStep
    \/ CutsStep

\* React hydrates figure 1, and its reveal and resize timers run.
PlateFairness ==
    /\ WF_vars(PlateStep /\ HydratePlate)
    /\ WF_vars(PlateStep /\ RevealStep)
    /\ WF_vars(PlateStep /\ ResizePaints)

Spec == Init /\ [][Next]_vars /\ PlateFairness

\* The film, from its parts to its player: the footage shows its shots, the voice fits its lines, the
\* cut hides its changes and keeps its times, and the player's controls show what the film does.
FilmIsRight == FootageIsTheShot /\ VoiceFits /\ CutsHold /\ ControlsAgree
===============================================================================
