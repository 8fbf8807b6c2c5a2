------------------------------ MODULE MCWebview -----------------------------
(* Webview with two periods, a timer or none, and up to two widgets. *)
EXTENDS Webview

All    == [query |-> "all", w |-> 3]
Failed == [query |-> "failed", w |-> 4]

OnePreset   == {Failed}
OneDefault  == <<All>>
FullWidth   == {-12, 12}
=============================================================================
