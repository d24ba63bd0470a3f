--------------------------- MODULE MCScreenRecord ---------------------------
(* ScreenRecord for TLC: a phone in portrait, the same in landscape, with  *)
(* its button bar, a tablet that shares one dimension with 720p, and a     *)
(* display and a video where the float product is rounded up.              *)
EXTENDS ScreenRecord

MCDisplaySizes == {<<1080, 1920>>, <<1920, 1080>>, <<1080, 1776>>, <<1280, 800>>, <<4015, 4023>>}
MCArgSizes == {<<720, 1280>>, <<1280, 800>>, <<1280, 720>>, <<3513, 4000>>}
MCEncoderSizes == {<<1920, 1080>>, <<1280, 720>>, <<720, 1280>>, <<3513, 4000>>}
=============================================================================
