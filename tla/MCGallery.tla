----------------------------- MODULE MCGallery -----------------------------
(* Gallery for TLC: the devices, and the cards, are interchangeable (no     *)
(* definition tells two of them apart), so safety needs only one of each    *)
(* orbit of states.                                                         *)
EXTENDS Gallery, TLC

Interchangeable == Permutations(Devices) \cup Permutations(Cards)
=============================================================================
