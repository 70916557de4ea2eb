SPECIFICATION Spec
CONSTANT Packets <- MCPackets
INVARIANTS NoOverread LayersExact CountedIsReported
