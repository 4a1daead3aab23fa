---------------------- MODULE MC_NXCameraHWInterface2 ----------------------
(* A small camera: the requests of preview, picture, recording and callback. *)
EXTENDS NXCameraHWInterface2
ClientRequests == {<<"PREVIEW">>, <<"PREVIEW", "CAPTURE">>, <<"RECORD">>, <<"CALLBACK">>}
=============================================================================
