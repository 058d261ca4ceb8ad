--------------------------- MODULE MCAppointment ---------------------------
(* Appointment on a small instance: a window with one seat and an          *)
(* overlapping one with two.                                               *)
EXTENDS Appointment, TLC

Single == [from |-> 2, to |-> 3, cap |-> 1]
Double == [from |-> 2, to |-> 4, cap |-> 2]
TwoShapes == {Single, Double}
OneShape == {Single}
Nothing == {}
OneBlackout == {[from |-> 2, to |-> 3]}

Long == {[from |-> 2, to |-> 6, cap |-> 1]}

Symmetry == Permutations(Orders) \cup Permutations(Windows)

=============================================================================
