--------------------------- MODULE MCSlidingWindow ---------------------------
(* Two coroutines, two addresses, two attempts per window of two ticks. *)
EXTENDS SlidingWindow, TLC

\* Coroutines are interchangeable, and so are addresses.
Symmetry == Permutations(Clients) \cup Permutations(Keys)
=============================================================================
