CONSTANTS
    Refs = {r1, r2}
    Local = local
    None = None
    MaxBehind = 1
    MaxAhead = 1
    Word = 5
SYMMETRY Symmetry
SPECIFICATION Spec
INVARIANTS SoundVerdict TipNotBehind RpcInv
