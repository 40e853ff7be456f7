----------------------------- MODULE MCKioskPlayer -----------------------------
(* Small instances of KioskPlayer: two scenes that share a media file, on a   *)
(* screen of their own or as a playlist in either order.  The order decides   *)
(* under which scene's key the shared file is cached.                         *)
EXTENDS KioskPlayer, TLC

CONSTANTS a, b, bg, clip

MCMediaOf == (a :> {bg}) @@ (b :> {bg, clip})
MCSize    == (bg :> 1) @@ (clip :> 2)

Screen(s)    == [kind |-> "scene", scenes |-> <<s>>]
Rotate(s, t) == [kind |-> "scene_playlist", scenes |-> <<s, t>>]

MCScenes    == {Blank, Screen(a), Screen(b)}
MCPlaylists == {Blank, Rotate(a, b), Rotate(b, a)}
=============================================================================
