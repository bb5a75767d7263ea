--------------------------- MODULE MCStreamParser ---------------------------
(* Model checking instances of StreamParser.                               *)
EXTENDS StreamParser, SequencesExt

El(header, body, unwrap, corruptAt, decodes) ==
  [start |-> 0, header |-> header, body |-> body, unwrap |-> unwrap,
   corruptAt |-> corruptAt, decodes |-> decodes]

Shapes ==
  { El(2, 0, FALSE, 0, TRUE), El(2, 3, TRUE, 0, TRUE), El(2, 3, FALSE, 0, TRUE),
    El(3, 1, FALSE, 0, FALSE), El(3, 2, FALSE, 2, TRUE) }

(* Places an element behind those placed already.                          *)
Place(placed, e) ==
  Append(placed, [e EXCEPT !.start = IF placed = << >> THEN 0 ELSE EndOf(Last(placed))])

MaxInput == 3

SmallInputs == {FoldLeft(Place, << >>, s) : s \in SeqOf(Shapes, MaxInput)}

(* The task that polls the parser runs until it must wait for the source;  *)
(* nothing is assumed of the source.                                       *)
FairSpec == Spec /\ WF_vars(HeaderError \/ Event \/ Exceeded)

(* An element that was delivered to its last byte is reported (or the      *)
(* stream failed): the loop never waits for bytes beyond those it needs.   *)
DeliveredIsReported ==
  \A k \in 1..MaxInput :
    (k <= Len(input) /\ sent >= EndOf(input[k]))
      ~> (pos >= k \/ result # "running")

=============================================================================
