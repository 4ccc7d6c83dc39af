------------------------------- MODULE Player -------------------------------
(***************************************************************************)
(* The video player of a window (VLCWrapper through VLCToQtInterface and   *)
(* VLCVideoWidget): one media handle, which the program opens and releases,*)
(* and the program's own idea of whether it plays.  Whether libVLC plays   *)
(* is external: it may at any time when the program believes so.           *)
(***************************************************************************)
EXTENDS Naturals

VARIABLES
  media,      (* m_media: none before the first, held, released            *)
  isPlaying,  (* m_isPlaying                                               *)
  playerFps,  (* m_fps                                                     *)
  misused,    (* whether a handle was used that was not held               *)
  downPressed (* history: whether the user stopped the player by a key     *)

playerVars == <<media, isPlaying, playerFps, misused, downPressed>>

PlayerInit ==
  /\ media = "none"
  /\ isPlaying = FALSE
  /\ playerFps = 30
  /\ misused = FALSE
  /\ downPressed = FALSE

(* Mutant: what plays is stopped after the new media is open.             *)
PlayUrlStopsLate ==
  /\ media' = IF isPlaying THEN "released" ELSE "held"
  /\ isPlaying' \in BOOLEAN
  /\ UNCHANGED <<misused, downPressed>>

(* playUrl: stop what plays, open the new media and play it; the call to   *)
(* play may fail.                                                          *)
PlayUrl ==
  /\ media' = "held"
  /\ isPlaying' \in BOOLEAN
  /\ misused' = (misused \/ (isPlaying /\ media # "held"))
  /\ UNCHANGED downPressed

(* setMediaOptions: pause, add options to the media, resume with it.       *)
SetMediaOptions ==
  /\ isPlaying' = TRUE
  /\ misused' = (misused \/ media # "held")
  /\ UNCHANGED <<media, downPressed>>

(* resizeVideo's part for the player: a frame rate of 30 needs the media   *)
(* to be opened anew, one of 15 only other options.                        *)
SetFps(fps) ==
  /\ playerFps' = fps
  /\ CASE fps = playerFps -> UNCHANGED <<media, isPlaying, misused, downPressed>>
       [] fps # playerFps /\ fps = 30 -> PlayUrl
       [] fps # playerFps /\ fps = 15 -> SetMediaOptions

(* The key Down: stopPlaying, if libVLC plays.  The handle is released.    *)
KeyDown ==
  /\ isPlaying
  /\ media' = "released"
  /\ isPlaying' = FALSE
  /\ misused' = (misused \/ media # "held")
  /\ downPressed' = TRUE
  /\ UNCHANGED playerFps

PlayerTypeOK ==
  /\ media \in {"none", "held", "released"}
  /\ playerFps \in {15, 30}
  /\ isPlaying \in BOOLEAN /\ misused \in BOOLEAN /\ downPressed \in BOOLEAN
=============================================================================
