\* Codec<Type::NUMBER> (Number_codec<LITTLE>) on a big-endian build.
CONSTANTS
  ByteMod <- MC_ByteMod
  ByteVals <- MC_ByteVals
  MaxLen <- MC_MaxLen
  Hosts = {"BIG"}
  Codecs = {"LITTLE"}
SPECIFICATION Spec
INVARIANT FromBytesReadsWire
