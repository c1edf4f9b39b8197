----------------------------- MODULE MessageCodec ---------------------------
(***************************************************************************)
(* How a message becomes the frame one host writes, and how the other host *)
(* reads it: MessageBase, VectorMessage, RclMessage, ServiceActionMessage. *)
(*                                                                         *)
(*   <<channel, NONE>> \o data                            uncompressed     *)
(*   <<channel, compressor>> \o size in 4 bytes \o block  compressed       *)
(*                                                                         *)
(* Messages about services and actions carry an extended header, service   *)
(* or action channel, op-code, length of the gid and the gid, before the   *)
(* data.  It is never compressed.                                          *)
(*                                                                         *)
(* Numbers of a header are bytes; data, gids and blocks are sequences of   *)
(* cells that no code of this component looks into.  The compressors are   *)
(* libraries: a block is one cell that holds the family of its compressor  *)
(* and the data.                                                           *)
(***************************************************************************)
EXTENDS ConnectBase

CONSTANTS
  LZ4_MAX_SRC_SIZE,    \* what the compressors take at most
  ZLIB_MAX_SRC_SIZE

ASSUME SizeAssumption ==
  /\ LZ4_MAX_SRC_SIZE \in Nat /\ ZLIB_MAX_SRC_SIZE \in Nat
  /\ LZ4_MAX_SRC_SIZE =< ZLIB_MAX_SRC_SIZE
  /\ ZLIB_MAX_SRC_SIZE \div 16777216 < 256    \* it fits a uint32_t

\* ServiceActionOpCode, as far as calls need it
SERVICE_TO_CLIENT == 0
SERVICE_TO_CLIENT_CANCEL == 1
SERVICE_TO_SERVER == 2
ACTION_TO_CLIENT_GOAL == 3
ACTION_TO_SERVER_GOAL_ACCEPT == 5
ACTION_TO_CLIENT_CANCEL == 6
ServiceActionOpCode == 0 .. 13

\* A uint32_t in four bytes, the lowest first, and back.
Bytes(n) == <<n % 256, (n \div 256) % 256, (n \div 65536) % 256, (n \div 16777216) % 256>>
Number(f) == f[3] + 256 * f[4] + 65536 * f[5] + 16777216 * f[6]

----------------------------------------------------------------------------
(* Messages of topics and op-codes.                                        *)

Message(channel, compressor, size, data) ==
  [channel |-> channel, compressor |-> compressor, size |-> size, data |-> data]

\* VectorMessage::fromSerializedMessage
fromSerializedMessage(channel, data) == Message(channel, NONE, Len(data), data)

Header(m) ==
  IF m.compressor = NONE THEN <<m.channel, NONE>>
                         ELSE <<m.channel, m.compressor>> \o Bytes(m.size)

getCombinedVector(m) == Header(m) \o m.data

\* (mutant) the last byte is not copied.
fromFlatBufferShort(f) ==
  IF f[2] = NONE THEN Message(f[1], NONE, Len(f) - 2, SubSeq(f, 3, Len(f) - 1))
  ELSE Message(f[1], f[2], Number(f), SubSeq(f, 7, Len(f)))

\* RclMessage::fromFlatBuffer
fromFlatBuffer(f) ==
  IF f[2] = NONE THEN Message(f[1], NONE, Len(f) - 2, SubSeq(f, 3, Len(f)))
  ELSE IF f[2] \in Compressor THEN Message(f[1], f[2], Number(f), SubSeq(f, 7, Len(f)))
  ELSE Message(f[1], NONE, 0, <<>>)

----------------------------------------------------------------------------
(* Compression.  "works" says whether the library succeeds; when it does   *)
(* not, or the data are too large, the message goes out as it is.          *)

Family(compressor) == IF compressor = ZLIB THEN "zlib" ELSE "lz4"
Block(compressor, data) == <<[family |-> Family(compressor), of |-> data]>>

Compressed(m, compressor, max, works) ==
  IF Len(m.data) > max \/ ~works THEN m
  ELSE [m EXCEPT !.compressor = compressor, !.size = Len(m.data),
                 !.data = Block(compressor, m.data)]

lz4DefaultCompression(m, works) == Compressed(m, LZ4_DEFAULT, LZ4_MAX_SRC_SIZE, works)
lz4HCCompression(m, works) == Compressed(m, LZ4_HC, LZ4_MAX_SRC_SIZE, works)
zlibCompression(m, works) == Compressed(m, ZLIB, ZLIB_MAX_SRC_SIZE, works)

Compress(m, compressor, works) ==
  CASE compressor = LZ4_DEFAULT -> lz4DefaultCompression(m, works)
    [] compressor = LZ4_HC -> lz4HCCompression(m, works)
    [] compressor = ZLIB -> zlibCompression(m, works)
    [] OTHER -> m

getCompressedCombinedVector(m, compressor, works) ==
  getCombinedVector(Compress(m, compressor, works))

\* A block that is not of the family, or not of the announced size, is refused: no
\* message.  Otherwise the one message is the decompressed one.
Inflated(m, family, max) ==
  IF m.size > max \/ m.data[1].family # family \/ Len(m.data[1].of) # m.size THEN {}
  ELSE {[m EXCEPT !.compressor = NONE, !.data = m.data[1].of]}

lz4Decompression(m) == Inflated(m, "lz4", ZLIB_MAX_SRC_SIZE)
zlibDecompression(m) == Inflated(m, "zlib", ZLIB_MAX_SRC_SIZE)

\* (mutant) LZ4_HC is taken for a compressor of its own.
decompressByName(m) ==
  CASE m.compressor = LZ4_DEFAULT -> lz4Decompression(m)
    [] m.compressor \in {LZ4_HC, ZLIB} -> zlibDecompression(m)
    [] OTHER -> {}

decompress(m) ==
  CASE m.compressor \in {LZ4_DEFAULT, LZ4_HC} -> lz4Decompression(m)
    [] m.compressor = ZLIB -> zlibDecompression(m)
    [] OTHER -> {}

isCompressed(m) == m.compressor # NONE

\* What the readers of messages do: decompress if need be.
Readable(m) == IF isCompressed(m) THEN decompress(m) ELSE {m}

----------------------------------------------------------------------------
(* Messages of services and actions.                                       *)

ServiceActionMessage(compressor, size, channel, opCode, gid, data) ==
  [channel |-> SERVICE_ACTION, compressor |-> compressor, size |-> size,
   serviceActionChannel |-> channel, opCode |-> opCode, gid |-> gid, data |-> data]

\* ServiceActionMessage::forServiceAction
forServiceAction(channel, opCode, data, gid) ==
  ServiceActionMessage(NONE, Len(data), channel, opCode, gid, data)

ExtendedHeader(m) == <<m.serviceActionChannel, m.opCode, Len(m.gid) % 256>> \o m.gid

serviceActionVector(m) == Header(m) \o ExtendedHeader(m) \o m.data

\* ServiceActionMessage::lz4DefaultCompression, ::lz4HCCompression, ::zlibCompression: the
\* data are compressed, the extended header is not.
serviceActionCompressedVector(m, compressor, works) ==
  serviceActionVector(Compress(m, compressor, works))

\* ServiceActionMessage::fromMessage on what fromFlatBuffer has read: no message when
\* the extended header is incomplete or the op-code unknown.
fromMessage(m) ==
  LET v == m.data
      gidEnd == 3 + v[3]
  IN IF Len(v) < 4 \/ v[2] \notin ServiceActionOpCode \/ Len(v) < gidEnd THEN {}
     ELSE {ServiceActionMessage(m.compressor,
             IF m.compressor = NONE THEN Len(v) - gidEnd ELSE m.size,
             v[1], v[2], SubSeq(v, 4, gidEnd), SubSeq(v, gidEnd + 1, Len(v)))}
=============================================================================
