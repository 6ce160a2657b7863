--------------------------- MODULE MCWalletTheme ---------------------------
(***************************************************************************)
(* WalletTheme for TLC: the colour of .app-header, the wallet's nearest    *)
(* painted ancestor in App.css, and opaque colours on a grid of channel    *)
(* values that has greys, every order and tie of the channels, a hue that  *)
(* rounds up to 360 (255, 0, 1), colours on both sides of the luminance    *)
(* threshold, bright dark and dark light ones (90, 90, 255 and 0, 143, 0), *)
(* and the colour hsl() is furthest from.                                  *)
(***************************************************************************)
EXTENDS WalletTheme

Steps == {0, 1, 90, 143, 255}
AppHeader == [r |-> 0, g |-> 0, b |-> 0, alpha |-> 7]
Furthest == [r |-> 3, g |-> 232, b |-> 234, alpha |-> 10]
PageGrid == {AppHeader, Furthest} \cup [r : Steps, g : Steps, b : Steps, alpha : {10}]
=============================================================================
