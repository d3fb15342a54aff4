----------------------------- MODULE MCVcStream -----------------------------
(***************************************************************************)
(* Every converter on three frames, with a fault and audio in between.     *)
(* Frames come in one, two or three packets, which leave every rest of     *)
(* the lengths they are cut to; one I frame ends in a packet that is too   *)
(* short to be recognised and one names no format.                         *)
(***************************************************************************)
EXTENDS VcStream

MCVcers == {"rtp", "rfc3984", "ps", "ts"}
MCVcers3984 == {"rfc3984"}

Shape(i, fmt, lens) == [i |-> i, fmt |-> fmt, lens |-> lens]

MCFrames ==
  {Shape(TRUE, "h264", <<3, 5>>), Shape(TRUE, "h264", <<2, 1>>), Shape(TRUE, "unknown", <<1>>),
   Shape(FALSE, "h264", <<1, 5, 1>>), Shape(FALSE, "jpeg", <<1>>)}

MCFrames3984 == {Shape(TRUE, "h264", <<3, 5>>), Shape(FALSE, "h264", <<2>>)}
=============================================================================
