\* Both byte-order classes of Number_codec on a little- and a big-endian build.
CONSTANTS
  ByteMod <- MC_ByteMod
  ByteVals <- MC_ByteVals
  MaxLen <- MC_MaxLen
  Hosts = {"LITTLE", "BIG"}
  Codecs = {"LITTLE", "BIG"}
SPECIFICATION Spec
INVARIANTS TypeOK UnsignedReadsWire
PROPERTIES ToBytesWritesWire RoundTrip
