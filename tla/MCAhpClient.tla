---------------------------- MODULE MCAhpClient ----------------------------
(* AhpClient for TLC.  Handles are interchangeable.                        *)
EXTENDS AhpClient, TLC

HandleSymmetry == Permutations(Handles)

=============================================================================
