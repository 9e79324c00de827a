-------------------------------- MODULE MCLink --------------------------------
(***************************************************************************)
(* Two-valued bytes, a two-byte length, frames of up to two bytes: with    *)
(* chunks of three a chunk holds the end of a frame and the beginning of   *)
(* the next.                                                               *)
(***************************************************************************)
EXTENDS Link

MCWeight == <<1, 2>>
MCBodies == {<<>>, <<1>>, <<0, 1>>, <<1, 1, 1>>}
MCResponse(frame) ==
  CASE frame = <<>> -> <<1, 0>> [] frame = <<1>> -> <<>>
    [] frame = <<0, 1>> -> <<0, 1, 1>> [] OTHER -> <<0>>
=============================================================================
