------------------------- MODULE MC_FFmpegExtractor -------------------------
(* A short file with a video and an audio track.                             *)
EXTENDS FFmpegExtractor

AvFile == <<"audio", "video", "video">>
=============================================================================
