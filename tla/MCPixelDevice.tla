---------------------------- MODULE MCPixelDevice ---------------------------
(***************************************************************************)
(* A thread that draws and one that refreshes, opens, closes and resizes.  *)
(***************************************************************************)
EXTENDS PixelDevice, Sequences

Roles == [u \in Users |-> IF u = "artist" THEN {"draw"}
                          ELSE {"refresh", "open", "close", "resize"}]

Palettes == {<<5, 0>>, <<4, 0, 5>>}
ZeroBased(s) == [i \in 0 .. Len(s) - 1 |-> s[i + 1]]
TwoArrays == {ZeroBased(s) : s \in Palettes}
=============================================================================
