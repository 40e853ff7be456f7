----------------------------- MODULE MCSceneContent -----------------------------
(* Small instances of SceneContent: forms that differ in canvas and widgets,  *)
(* one kiosk on a scene and, where scenes are listed, one on the rotation.    *)
EXTENDS SceneContent, TLC

CONSTANTS a, b, dark, light, clock, news, wall, door

\* Two forms that differ in canvas and widgets; the longer one can be cut short.
MCForm == {[canvas |-> dark, widgets |-> <<news, clock>>],
           [canvas |-> light, widgets |-> << >>]}

MCList == {<<a>>}

MCAssigned == (door :> a) @@ (wall :> Rotation)
WallOnly   == wall :> Rotation
=============================================================================
