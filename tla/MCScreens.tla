----------------------------- MODULE MCScreens ------------------------------
(* The instance of QueryCache made of the tables of the web client. *)
EXTENDS Screens

AllKeys == ScreenKeys
AllPages == ScreenPages
AllLayout == ScreenLayout
AllReads == ScreenReads
AllSaves == ScreenSaves
AllNear == ScreenNear
AllGaps == KnownGaps
AllUnguarded == KnownUnguarded
=============================================================================
