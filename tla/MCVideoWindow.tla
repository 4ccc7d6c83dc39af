--------------------------- MODULE MCVideoWindow ---------------------------
(* VideoWindow for TLC: the sizes of frame_size_options_STANDARD, and a     *)
(* user who leaves the bit rate to the program.                             *)
EXTENDS VideoWindow

MCResolutions == << CIF, QCIF >>
MCRequests == {Parameters(CIF, 15, 0)}

(* The file agrees on what the user thinks of size and quality, and may     *)
(* leave open what she thinks of frame rate and bit rate.                   *)
MCFileLabels ==
  {[m \in Module |-> IF m = "fpsBitrate" THEN 1 ELSE -1], [m \in Module |-> -1]}

(* Training tells the bandwidths apart.                                     *)
MCFunctions == {f \in [Bandwidths -> {0, 1}] : f[200] # f[900]}

MCMaxEvents == [standardVideo \in BOOLEAN |-> IF standardVideo THEN 3 ELSE 2]
=============================================================================
