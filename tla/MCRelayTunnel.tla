--------------------------- MODULE MCRelayTunnel ---------------------------
(* RelayTunnel with a few guests, visitors and tunnel sockets.  Guests are *)
(* alike and so are visitors: the specification names none of them.        *)
(* With it goes a small instance of Wire, whose theorems are evaluated     *)
(* here before they are proved.                                            *)
EXTENDS RelayTunnel, Wire, TLC

Symmetry == Permutations(Guest) \cup Permutations(Visitor)

\* An object for each kind of frame with metadata, and for each opening one with
\* a target, which is a string; the JSON of each is a byte.
Metas ==
    {[name \in Fields(type) |-> type] : type \in MetaTypes}
        \cup {[name \in Fields(type) \cup {"target"} |-> type] : type \in {"open-http", "open-ws"}}

SomeText == {"open-http", "open-ws"}

JsonBytes == LET all == SetToSeq(Metas) IN [a \in Metas |-> <<CHOOSE n \in DOMAIN all : all[n] = a>>]

\* Besides these there are null, an object with names of the header and a target
\* that is no string, and what is no JSON.
Stray == [type |-> "ws-data", streamId |-> "id", target |-> "number"]

Parse(payload) ==
    IF \E a \in Metas : JsonBytes[a] = payload
      THEN CHOOSE a \in Metas : JsonBytes[a] = payload
    ELSE IF payload = <<8>> THEN Null
    ELSE IF payload = <<0>> THEN Stray
    ELSE Thrown

\* Ids around each byte's limit and past the last one, and data up to two full
\* chunks and a byte.
SomeIds == UNION {{n - 1, n} : n \in {1, Base, Base * Base, MaxStreamId, MaxStreamId + 1}}
SomeData == UNION {[1 .. n -> {0, 8}] : n \in 0 .. 2 * MaxChunk + 1}

SomeFrames ==
    {f \in [type : MetaTypes, streamId : SomeIds, meta : Meta] : Carries(f.type, f.meta)}
        \cup [type : {"body-chunk"}, streamId : SomeIds, data : SomeData]
        \cup [type : {"body-end"}, streamId : SomeIds]
        \cup [type : {"ws-data"}, streamId : SomeIds, isBinary : BOOLEAN, data : SomeData]

\* Messages of each type byte and of one that is none, with JSON and without.
SomeMessages ==
    {<<byte, 0, 0, 0, 7>> \o payload :
        byte \in 0 .. 8, payload \in {<<>>, <<1, 2>>} \cup {<<b>> : b \in Byte}}

\* Proved in RelayTunnel_proofs: RoundTrip, DecodedKeepsHeader, MessagesFit,
\* ChunksArrive and ChunksCover.
ASSUME WireChecked ==
    /\ \A f \in SomeFrames :
          IF Encodable(f) THEN DecodeFrame(EncodeFrame(f)) = f ELSE EncodeFrame(f) = Thrown
    /\ \A m \in SomeMessages :
          DecodeFrame(m) # Thrown => KeepsHeader(DecodeFrame(m), m)
    /\ \A f \in SomeFrames : f.type = "ws-data" /\ Encodable(f) =>
          (ClientAccepts(EncodeFrame(f)) <=> Len(f.data) <= MaxChunk)
    /\ \A data \in SomeData :
          LET chunks == ChunkBody(MaxStreamId, data)
          IN  /\ DOMAIN chunks = 1 .. Cardinality(DOMAIN chunks)
              /\ \A i \in DOMAIN chunks : ClientAccepts(EncodeFrame(chunks[i]))
              /\ FoldLeft(LAMBDA whole, i : whole \o chunks[i].data, <<>>,
                          [i \in 1 .. Cardinality(DOMAIN chunks) |-> i]) = data
=============================================================================
