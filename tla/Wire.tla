------------------------------- MODULE Wire -------------------------------
(***************************************************************************)
(* The tunnel's wire contract (bb-shared-tunnel-contract/src/index.ts):    *)
(* what one binary message of a tunnel socket is.  Byte 0 is the type of   *)
(* the frame, bytes 1 to 4 the stream's id, big-endian, and the rest the   *)
(* payload: metadata as JSON, bytes, or nothing.  Bytes are digits of base *)
(* Base (256 in the code), and sequences here count from 1.                *)
(***************************************************************************)
EXTENDS Naturals, Sequences

CONSTANTS
    Base,      \* the values of a byte: 256 in the code
    Meta,      \* what frames carry as JSON: functions from names to values
    Json,      \* the bytes JSON.stringify and TextEncoder make of each
    Text,      \* the values that are strings
    JsonParse(_), \* JSON.parse of bytes: the properties of the value, Null or Thrown
    MaxChunk,  \* MAX_CHUNK_BYTES
    Null, Undefined,
    Thrown     \* an exception in place of a result

Byte == 0 .. Base - 1

ASSUME WireAssumption ==
    /\ Base \in Nat /\ Base > 8
    /\ MaxChunk \in Nat \ {0}

\* JSON.parse undoes JSON.stringify.
ASSUME JsonAssumption ==
    /\ Json \in [Meta -> Seq(Byte)]
    /\ \A a \in Meta : /\ a = [name \in DOMAIN a |-> a[name]]
                      /\ JsonParse(Json[a]) = a
    /\ Meta \cap {Null, Thrown} = {}

TypeByte ==
    [type \in {"open-http", "body-chunk", "body-end", "resp-head",
               "open-ws", "ws-open-ack", "ws-data", "close-stream"} |->
        CASE type = "open-http" -> 1 [] type = "body-chunk" -> 2
          [] type = "body-end" -> 3  [] type = "resp-head" -> 4
          [] type = "open-ws" -> 5   [] type = "ws-open-ack" -> 6
          [] type = "ws-data" -> 7   [] type = "close-stream" -> 8]

MetaTypes == {"open-http", "resp-head", "open-ws", "ws-open-ack", "close-stream"}

\* What a frame of each of these types is stringified with, and besides it the
\* optional target of an opening.
Fields(type) ==
    CASE type = "open-http" -> {"method", "path", "headers", "hasBody"}
      [] type = "open-ws" -> {"path", "headers", "protocols"}
      [] type = "resp-head" -> {"status", "headers"}
      [] type = "ws-open-ack" -> {"protocol"}
      [] type = "close-stream" -> {"code", "reason"}

Targeted(type, meta) ==
    type \in {"open-http", "open-ws"} /\ "target" \in DOMAIN meta /\ meta["target"] \in Text

Carries(type, meta) ==
    DOMAIN meta = Fields(type) \cup (IF Targeted(type, meta) THEN {"target"} ELSE {})

\* The frames of the contract.  Whoever makes one may count past the ids that
\* four bytes hold.
MetaFrame ==
    {f \in [type : MetaTypes, streamId : Nat, meta : Meta] : Carries(f.type, f.meta)}
ChunkFrame == [type : {"body-chunk"}, streamId : Nat, data : Seq(Byte)]
EndFrame   == [type : {"body-end"}, streamId : Nat]
DataFrame  == [type : {"ws-data"}, streamId : Nat, isBinary : BOOLEAN, data : Seq(Byte)]

WireFrame == MetaFrame \cup ChunkFrame \cup EndFrame \cup DataFrame

MaxStreamId == Base * Base * Base * Base - 1

-----------------------------------------------------------------------------
\* DataView.setUint32 and getUint32, both big-endian by default.
Uint32(n) ==
    LET q == n \div Base  r == q \div Base
    IN  <<(r \div Base) % Base, r % Base, q % Base, n % Base>>

FromUint32(m) == ((m[2] * Base + m[3]) * Base + m[4]) * Base + m[5]

WithHeader(f, payload) ==
    IF f.streamId > MaxStreamId THEN Thrown
    ELSE <<TypeByte[f.type]>> \o Uint32(f.streamId) \o payload

Flag(isBinary) == IF isBinary THEN 1 ELSE 0

Payload(f) ==
    CASE f.type \in MetaTypes -> Json[f.meta]
      [] f.type = "body-chunk" -> f.data
      [] f.type = "body-end" -> <<>>
      [] f.type = "ws-data" -> <<Flag(f.isBinary)>> \o f.data

EncodeFrame(f) ==
    IF f.type = "body-chunk" /\ Len(f.data) > MaxChunk THEN Thrown
    ELSE WithHeader(f, Payload(f))

\* What encodeFrame takes without an exception.
Encodable(f) ==
    /\ f.streamId <= MaxStreamId
    /\ f.type = "body-chunk" => Len(f.data) <= MaxChunk

\* The fields of openings and acknowledgements are read from the value by name,
\* which null does not allow; the others take its properties as they are, and of
\* null none.
Picked(type, value) ==
    [name \in Fields(type) \cup (IF Targeted(type, value) THEN {"target"} ELSE {}) |->
        IF name \in DOMAIN value THEN value[name] ELSE Undefined]

Spread(value, header) ==
    LET props == IF value = Null THEN [name \in {} |-> Null] ELSE value
        Read(name) == IF name \in DOMAIN props THEN props[name] ELSE header[name]
    IN  [type |-> Read("type"), streamId |-> Read("streamId"),
         meta |-> [name \in DOMAIN props \ {"type", "streamId"} |-> props[name]]]

\* The metadata of a frame: nothing of it is checked but that it is JSON.
ParsedMeta(type, id, value) ==
    IF value = Thrown THEN Thrown
    ELSE IF type \in {"resp-head", "close-stream"}
      THEN Spread(value, [type |-> type, streamId |-> id])
    ELSE IF value = Null THEN Thrown
    ELSE [type |-> type, streamId |-> id, meta |-> Picked(type, value)]

Parsed(type, id, payload) ==
    CASE type \in MetaTypes -> ParsedMeta(type, id, JsonParse(payload))
      [] type = "body-chunk" -> [type |-> type, streamId |-> id, data |-> payload]
      [] type = "body-end" -> [type |-> type, streamId |-> id]
      [] type = "ws-data" /\ Len(payload) >= 1 ->
            [type |-> type, streamId |-> id, isBinary |-> payload[1] = 1,
             data |-> SubSeq(payload, 2, Len(payload))]
      [] OTHER -> Thrown

TypeOf(byte) == CHOOSE type \in DOMAIN TypeByte : TypeByte[type] = byte

DecodeFrame(m) ==
    IF Len(m) < 5 \/ ~ \E type \in DOMAIN TypeByte : TypeByte[type] = m[1] THEN Thrown
    ELSE Parsed(TypeOf(m[1]), FromUint32(m), SubSeq(m, 6, Len(m)))

\* What a receiver may rely on in a decoded frame: its type and stream are the
\* header's, its bytes are the payload's and the fields of an opening or an
\* acknowledgement are there, though perhaps undefined; but the JSON of a response
\* head or a close may name a type or a stream of its own.
KeepsHeader(f, m) ==
    LET type == TypeOf(m[1])
        value == JsonParse(SubSeq(m, 6, Len(m)))
        Kept == f.type = type /\ f.streamId = FromUint32(m)
    IN  /\ type \notin MetaTypes => Kept /\ f \in WireFrame
        /\ type \in {"open-http", "open-ws", "ws-open-ack"} => Kept /\ Carries(type, f.meta)
        /\ (/\ type \in {"resp-head", "close-stream"}
            /\ value = Null \/ {"type", "streamId"} \cap DOMAIN value = {}) => Kept

-----------------------------------------------------------------------------
\* chunkBody: a generator whose loop stops at the first offset past the data.
ChunkBody(id, data) ==
    [i \in {n \in 1 .. Len(data) : (n - 1) * MaxChunk < Len(data)} |->
        LET end == i * MaxChunk
        IN  [type |-> "body-chunk", streamId |-> id,
             data |-> SubSeq(data, (i - 1) * MaxChunk + 1,
                             IF end < Len(data) THEN end ELSE Len(data))]]

\* What the client lets through: a longer message ends the tunnel.
ClientAccepts(m) == Len(m) <= MaxChunk + 6
=============================================================================
