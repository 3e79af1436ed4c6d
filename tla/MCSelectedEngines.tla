------------------------- MODULE MCSelectedEngines -------------------------
(* The hybrid engine, and the visual one whose builds may differ.           *)
EXTENDS SelectedEngines, TLC

CONSTANTS v1, v2

TwoEngines == <<"graphmind", "multimodal">>
HybridOrAll == {{"graphmind"}, {"graphmind", "multimodal"}}
VersionSymmetry == Permutations({v1, v2})
============================================================================
