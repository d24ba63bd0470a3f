----------------------------- MODULE MCSettings -----------------------------
(* Settings for TLC.                                                       *)
EXTENDS Settings

\* a large screen in portrait and landscape, a smaller one with and without
\* its button bar
MCScreens == {<<1440, 2560>>, <<2560, 1440>>, <<1080, 1920>>, <<1080, 1776>>}
=============================================================================
