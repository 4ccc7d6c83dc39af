--------------------------- MODULE MCEncoderServer ---------------------------
(* EncoderServer for TLC: the sizes of the two test videos, one that the    *)
(* client also asks for and one that a camera may take, all at 30 frames.   *)
EXTENDS EncoderServer, TLC

Shape(width, height) == [width |-> width, height |-> height, fps |-> 30]

TestShapes == {Shape(352, 288), Shape(176, 144)}
AllShapes == TestShapes \cup {Shape(352, 256), Shape(640, 480)}
RefusedShapes == {Shape(640, 480)}
FailureShapes == TestShapes \cup RefusedShapes

ClientSymmetry == Permutations(Clients)
=============================================================================
