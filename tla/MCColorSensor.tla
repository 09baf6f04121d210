---- MODULE MCColorSensor ----
(***************************************************************************)
(* TLC instance of ColorSensor: an empty shelf, red and yellow goods, in a *)
(* light that flickers across a change of the high byte, at 256 without    *)
(* goods and at 512 with them; the blue channel is steady.                 *)
(***************************************************************************)
EXTENDS ColorSensor

MCGoods == {COLOR_RED, COLOR_YELLOW, COLOR_EMPTY}

MCAppearance ==
  [goods \in MCGoods |->
    [channel \in Channels |->
      IF \/ channel = 0 /\ goods # COLOR_EMPTY
         \/ channel = 1 /\ goods = COLOR_YELLOW
      THEN {505, 515}
      ELSE IF channel = 2 THEN {250} ELSE {250, 260}]]

(* Goods and light are as the properties ask for.                          *)
ASSUME InstanceAssumption == TellsApart /\ Steady
====
