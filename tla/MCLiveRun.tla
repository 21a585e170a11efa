----------------------------- MODULE MCLiveRun ------------------------------
(* A live run with its containers on four phases, two of them gates; one   *)
(* plan ends with a gate, one begins with one, and one does neither.       *)
EXTENDS WorkerContainers

CONSTANTS planning, slice_approval, implementation, review

MCPhases == {planning, slice_approval, implementation, review}
MCGatePhases == {slice_approval, implementation}
MCSilentPhases == {}
MCPhaseSequences ==
    { <<planning, slice_approval, review>>,
      <<planning, review, implementation>>,
      <<slice_approval, review>> }
=============================================================================
