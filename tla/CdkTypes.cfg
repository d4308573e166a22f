\* Two objects, addresses 0..2, buffers of up to 2 bytes, chains of up to 3.
CONSTANTS
  o1 = o1
  o2 = o2
  NULL = NULL
  Objs <- MC_Objs
  MaxAddr = 2
  MaxLen = 2
  MaxChain = 3
SYMMETRY MC_Symmetry
SPECIFICATION Spec
INVARIANT TypeOK
INVARIANT BuffersAgree
INVARIANT NoDoubleDelete
INVARIANT NoLeak
