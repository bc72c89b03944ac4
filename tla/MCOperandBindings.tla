------------------------- MODULE MCOperandBindings -------------------------
(* Instances of OperandBindings for TLC: the pairs that a run follows.        *)
EXTENDS OperandBindings

\* Both bindings of the web console.
ConsolePairs == {Pair("TokenReview", "plugin"), Pair("Viewer", "plugin")}

\* Two operands of the FLP controller in one binding.
InformerPairs == {Pair("FLPInformers", "informers"), Pair("FLPInformers", "monolith")}

============================================================================
