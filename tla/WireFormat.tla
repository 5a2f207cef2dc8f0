----------------------------- MODULE WireFormat -----------------------------
(***************************************************************************)
(* What starterimpl/libp2p writes to a stream and reads from it: serialize *)
(* and deserialize for the requests and answers of the five protocols.     *)
(*                                                                         *)
(* Bytes are a sequence of tokens: the three marks that separate fields,   *)
(* an unencoded field, base64 of other bytes, and text without a mark in   *)
(* it.  So a text that holds a mark is told from the mark itself exactly   *)
(* when the code encodes it.  A message is the tuple of its fields in the  *)
(* order in which they are written.                                        *)
(***************************************************************************)
EXTENDS Naturals, Sequences, SequencesExt

CONSTANTS
  Peer,    \* peer IDs
  NoPeer   \* the nil peer ID

Dot   == <<"mark", ".">>
Comma == <<"mark", ",">>
Semi  == <<"mark", ";">>

Text(t) == <<"text", t>>

\* Decoding gives the set of what was decoded, which is empty on an error.
Failed == {}

Only(S) == CHOOSE x \in S : TRUE

\* Decodes every element of a sequence, or none.
DecodeAll(Decode(_), parts) ==
  IF \A i \in DOMAIN parts : Decode(parts[i]) # Failed
  THEN {[i \in DOMAIN parts |-> Only(Decode(parts[i]))]}
  ELSE Failed

Join(parts, mark) ==
  FlattenSeq([i \in DOMAIN parts |-> IF i = 1 THEN parts[i] ELSE <<mark>> \o parts[i]])

\* The place of the k-th mark in bytes.
MarkAt(bytes, mark, k) ==
  LET marks == {i \in 1 .. Len(bytes) : bytes[i] = mark}
  IN  CHOOSE i \in marks : Cardinality({j \in marks : j <= i}) = k

\* Without a mark there is one part, empty for an empty text.
Split(bytes, mark) ==
  LET n == Cardinality({i \in 1 .. Len(bytes) : bytes[i] = mark})
      from(k) == IF k = 1 THEN 1 ELSE MarkAt(bytes, mark, k - 1) + 1
      to(k) == IF k > n THEN Len(bytes) ELSE MarkAt(bytes, mark, k) - 1
  IN  [k \in 1 .. n + 1 |-> SubSeq(bytes, from(k), to(k))]

-----------------------------------------------------------------------------
(* The encodings of a field.                                               *)

\* Mutant: the text is written as it is.
NoEnc(plain) == plain

\* The empty text is encoded as the empty text.
B64Enc(plain) == IF plain = <<>> THEN <<>> ELSE <<<<"base64", plain>>>>

B64Dec(enc) ==
  IF enc = <<>> THEN {<<>>}
  ELSE IF Len(enc) = 1 /\ enc[1][1] = "base64" THEN {enc[1][2]}
  ELSE Failed

EncodePeerID(p) == IF p = NoPeer THEN <<>> ELSE B64Enc(<<Text(p)>>)

DecodePeerID(enc) ==
  IF enc = <<>> THEN {NoPeer} ELSE {p \in Peer : <<Text(p)>> \in B64Dec(enc)}

SerializeSlice(texts) == Join([i \in DOMAIN texts |-> B64Enc(texts[i])], Comma)

DeserializeSlice(enc) ==
  IF enc = <<>> THEN {<<>>} ELSE DecodeAll(B64Dec, Split(enc, Comma))

\* A message ends in a semicolon, and dots separate its parts.
Frame(parts) == Join(parts, Dot) \o <<Semi>>

\* Mutant: the semicolon stays with the last part.
KeepSemi(bytes, n) == IF Len(Split(bytes, Dot)) = n THEN {Split(bytes, Dot)} ELSE Failed

GetParts(bytes, n) ==
  LET parts == Split(Front(bytes), Dot)
  IN  IF Last(bytes) = Semi /\ Len(parts) = n THEN {parts} ELSE Failed

\* One peer of a PeersResponse: its ID and its addresses.
PeerStr(p) == Frame(<<EncodePeerID(p[1]), SerializeSlice(p[2])>>)

DecodePeer(str) ==
  UNION {DecodePeerID(parts[1]) \X DeserializeSlice(parts[2]) : parts \in GetParts(str, 2)}

\* The two values ParseWitnessSelector knows.  A nil one is written too.
Selector == {"Sender", "Receiver"}

\* An unencoded field and its reading.
Plain(kind, v) == <<<<kind, v>>>>

Parse(kind, enc) == IF Len(enc) = 1 /\ enc[1][1] = kind THEN {enc[1][2]} ELSE Failed

Encode(kind, v) ==
  CASE kind = "peer"  -> EncodePeerID(v)
    [] kind = "slice" -> SerializeSlice(v)
    [] kind = "peers" -> SerializeSlice([i \in DOMAIN v |-> PeerStr(v[i])])
    [] OTHER          -> Plain(kind, v)

Decode(kind, enc) ==
  CASE kind = "peer"     -> DecodePeerID(enc)
    [] kind = "slice"    -> DeserializeSlice(enc)
    [] kind = "peers"    -> UNION {DecodeAll(DecodePeer, strs) : strs \in DeserializeSlice(enc)}
    [] kind = "selector" -> Parse(kind, enc) \cap Selector
    [] OTHER             -> Parse(kind, enc)

-----------------------------------------------------------------------------
(* The messages: the kinds of their fields.                                *)

RequestFormat ==
  [connect      |-> <<"id", "peer", "peer", "selector">>,
   witness      |-> <<"id", "peer", "peer", "selector">>,
   peers        |-> <<"num">>,
   notification |-> <<"id", "peer">>,
   close        |-> <<"id">>]

AnswerFormat ==
  [connect |-> <<"id", "slice", "bool", "slice">>,
   witness |-> <<"id", "slice", "bool", "slice">>,
   peers   |-> <<"peers">>]

\* What can be sent.
IsSlice(v) == v \in Seq(Range(v))

IsPeerID(v) == v \in Peer \cup {NoPeer}

IsPeer(v) == v = <<v[1], v[2]>> /\ IsPeerID(v[1]) /\ IsSlice(v[2])

IsField(kind, v) ==
  /\ kind = "peer" => IsPeerID(v)
  /\ kind = "slice" => IsSlice(v)
  /\ kind = "peers" => IsSlice(v) /\ \A i \in DOMAIN v : IsPeer(v[i])

IsMessage(format, m) ==
  m = [i \in DOMAIN format |-> m[i]] /\ \A i \in DOMAIN format : IsField(format[i], m[i])

\* How it comes back: a slice of one empty text is written like the empty slice,
\* and is read as that.
SliceAsRead(v) == IF v = <<<<>>>> THEN <<>> ELSE v

AsRead(kind, v) ==
  CASE kind = "slice" -> SliceAsRead(v)
    [] kind = "peers" -> [i \in DOMAIN v |-> <<v[i][1], SliceAsRead(v[i][2])>>]
    [] OTHER          -> v

MessageAsRead(format, m) == [i \in DOMAIN format |-> AsRead(format[i], m[i])]

Readable(format, m) ==
  \A i \in DOMAIN format : format[i] = "selector" => m[i] \in Selector

Serialize(format, m) == Frame([i \in DOMAIN format |-> Encode(format[i], m[i])])

\* Nothing is assigned unless every field is decoded.
Deserialize(format, bytes) ==
  LET parts == GetParts(bytes, Len(format))
      field(i) == UNION {Decode(format[i], p[i]) : p \in parts}
  IN  IF \A i \in DOMAIN format : field(i) # Failed
      THEN {[i \in DOMAIN format |-> Only(field(i))]}
      ELSE Failed

\* ReadBytes(';'): what was written up to the first semicolon.
FirstFrame(bytes) ==
  SubSeq(bytes, 1, SelectInSeq(bytes, LAMBDA b : b = Semi))
=============================================================================
