SPECIFICATION Spec
INVARIANTS KernelsExact ColoursAgree  FramesExact NegotiationExact SelectionExact  RateKept
