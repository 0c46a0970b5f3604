------------------------ MODULE MCEpisodeSegmentation ------------------------
(***************************************************************************)
(* EpisodeSegmentation with two sources.  Of the first, the third event is *)
(* cut off by the gap when the second is missing and by the number of      *)
(* events when it is there, and the first two just fit together.  Of the   *)
(* other, two texts are too long for one episode by what joins them, and   *)
(* one is too long for any.                                                *)
(***************************************************************************)
EXTENDS EpisodeSegmentation

MCEvents == 1 .. 6
MCSource == <<"chat", "chat", "chat", "tools", "tools", "tools">>
MCPartition == <<"a", "a", "a", "a", "a", "a">>
MCTime == <<0, 1, 3, 1, 2, 2>>
MCSize == <<4, 4, 1, 4, 5, 11>>
=============================================================================
