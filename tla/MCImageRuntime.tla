--------------------------- MODULE MCImageRuntime ---------------------------
(* ImageRuntime on a small instance for TLC. *)
EXTENDS ImageRuntime

Sizes == <<1, 2>>
Good == [schema |-> 1, time |-> 1, dataType |-> 1, shape |-> <<2, 3>>, colorMode |-> "mono", wide |-> FALSE,
         timeSource |-> "", payload |-> 6]

\* 7 * 7 * 6 elements wrap to 38 in eight bits, and 38 of two bytes to 76.
Wrapping == [Good EXCEPT !.dataType = 2, !.shape = <<7, 7, 6>>, !.payload = 76]
SomeAttrs == {Good, Wrapping}

SomeSnapshots == {
  Good, Wrapping, [Good EXCEPT !.schema = 2], [Good EXCEPT !.time = 0], [Good EXCEPT !.dataType = 3],
  [Good EXCEPT !.shape = <<>>], [Good EXCEPT !.shape = <<2, 0>>], [Good EXCEPT !.shape = <<8>>, !.payload = 8],
  [Good EXCEPT !.colorMode = "rgb1"], [Good EXCEPT !.colorMode = "rgb2"], [Good EXCEPT !.wide = TRUE],
  [Good EXCEPT !.timeSource = "gps"], [Good EXCEPT !.shape = <<7, 7, 2>>, !.dataType = 2, !.payload = 196],
  [Good EXCEPT !.shape = <<7, 7, 3>>, !.dataType = 2, !.payload = 38], [Good EXCEPT !.payload = 5]}

SomeConfigs == {[maxFrameGap |-> 3, deadline |-> TRUE], [maxFrameGap |-> 1, deadline |-> FALSE]}
SomeSteps == {-4, 3}
=============================================================================
