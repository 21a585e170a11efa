------------------------------ MODULE MCSpiral ------------------------------
(* Spiral on four phases, two of them gates.  The plans are the whole      *)
(* sequence, one that starts at a gate and ends at one, one that lists a   *)
(* phase twice, and the empty one.                                         *)
EXTENDS Spiral

CONSTANTS discovery, slice_approval, implementation, review

MCPhases == {discovery, slice_approval, implementation, review}
MCGatePhases == {slice_approval, implementation}
MCSilentPhases == {review}
MCPhaseSequences ==
    { <<discovery, slice_approval, implementation, review>>,
      <<slice_approval, review, implementation>>,
      <<discovery, slice_approval, discovery>>,
      << >> }
=============================================================================
