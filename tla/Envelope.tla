------------------------------ MODULE Envelope ------------------------------
(***************************************************************************)
(* The frames of the QConnect WebSocket: a byte with the type, a varint    *)
(* with the length of the payload, the payload.  encode_envelope and       *)
(* parse_envelope of src/connection.rs, and the decode tool of             *)
(* src/bin/decode.rs, which reads the same frames.                         *)
(*                                                                         *)
(* A byte has Base values and a continuation bit.  What protobuf makes of  *)
(* a payload is external, and reduced to a first byte that says whether it *)
(* decodes, fields the connection ignores (zeros), and messages.           *)
(***************************************************************************)
EXTENDS Integers, Sequences

CONSTANTS
  Base,        \* 128 in the code: a varint byte holds a digit to this base
  MaxVarint,   \* bytes of the longest varint: 10 in the code
  UsizeModulus,   \* 2^64 in the code: what a varint and a usize hold is below
  None

AUTHENTICATE == 1
SUBSCRIBE == 2
PAYLOAD == 6
ERROR == 9

-----------------------------------------------------------------------------
\* prost's varints, least significant digit first.
encode_varint[n \in Nat] ==
  IF n < Base THEN <<n>> ELSE <<Base + (n % Base)>> \o encode_varint[n \div Base]

varint_value[digits \in Seq(Nat)] ==
  IF digits = <<>> THEN 0 ELSE (Head(digits) % Base) + Base * varint_value[Tail(digits)]

\* A byte holds the types; MaxVarint bytes are enough for every usize.
ASSUME EnvelopeAssumption ==
  /\ Base \in Nat /\ 2 * Base > PAYLOAD
  /\ MaxVarint \in Nat \ {0} /\ UsizeModulus \in Nat \ {0}
  /\ \A n \in 0 .. UsizeModulus - 1 : Len(encode_varint[n]) <= MaxVarint
  /\ None \notin Seq(Nat)

\* Where the varint at data[2] ends; 0: the data ends before, or it is too long or
\* too large.
VarintEnd(data) ==
  LET ends == {k \in 2 .. Len(data) : data[k] < Base /\ k <= MaxVarint + 1}
      end  == CHOOSE k \in ends : \A j \in ends : k <= j
  IN  IF ends = {} \/ varint_value[SubSeq(data, 2, end)] >= UsizeModulus THEN 0 ELSE end

\* prost on a Payload and the QConnectBatch in it: the messages, which come after
\* the ignored fields, or None where one of the two does not decode or the batch is
\* absent.
WithBatch == 2
BatchPayload(fields, messages) == <<WithBatch>> \o [i \in 1 .. fields |-> 0] \o messages
PayloadMessages(payload) ==
  IF payload # <<>> /\ Head(payload) = WithBatch
  THEN LET fields == {i \in DOMAIN payload : i = 1 \/ payload[i] = 0}
           last   == CHOOSE i \in fields : \A j \in fields : j <= i
       IN  SubSeq(payload, last + 1, Len(payload))
  ELSE None

-----------------------------------------------------------------------------
\* The length is added to what is before the payload.  If that overflows, both the
\* reader and the tool panic: in the addition, or, where it wraps around, because
\* the payload then ends before it starts.
Overflows(data) ==
  LET end == VarintEnd(data) IN
  end # 0 /\ end + varint_value[SubSeq(data, 2, end)] >= UsizeModulus

encode_envelope_OneByte(msg_type, data) == <<msg_type, Len(data) % (2 * Base)>> \o data
encode_envelope(msg_type, data) ==
  <<msg_type % (2 * Base)>> \o encode_varint[Len(data)] \o data

\* The messages of a frame's batch; None: there is no batch, or a part of the frame
\* is missing or does not decode, which is only logged.
parse_envelope(data) ==
  LET end   == VarintEnd(data)
      len   == varint_value[SubSeq(data, 2, end)]
      whole == data # <<>> /\ end # 0 /\ Len(data) >= end + len
  IN  IF whole /\ data[1] = PAYLOAD THEN PayloadMessages(SubSeq(data, end + 1, end + len)) ELSE None

\* What the tool prints: where it gives up, else the raw payload of a frame of
\* another type, else the batch, if there is one.
decode_payload(payload) ==
  IF payload = <<>> \/ Head(payload) # WithBatch THEN [shows |-> "no batch"]
  ELSE [shows |-> "batch", messages |-> PayloadMessages(payload)]
decode_envelope_AllTypes(data) ==
  LET end == VarintEnd(data)
      len == varint_value[SubSeq(data, 2, end)] IN
  IF data = <<>> THEN [shows |-> "empty"]
  ELSE IF end = 0 THEN [shows |-> "no length"]
  ELSE IF Overflows(data) THEN [shows |-> "panic"]
  ELSE IF Len(data) < end + len THEN [shows |-> "incomplete"]
  ELSE decode_payload(SubSeq(data, end + 1, end + len))
decode_envelope(data) ==
  LET end == VarintEnd(data)
      len == varint_value[SubSeq(data, 2, end)] IN
  IF data = <<>> THEN [shows |-> "empty"]
  ELSE IF end = 0 THEN [shows |-> "no length"]
  ELSE IF Overflows(data) THEN [shows |-> "panic"]
  ELSE IF Len(data) < end + len THEN [shows |-> "incomplete"]
  ELSE IF data[1] # PAYLOAD THEN [shows |-> "raw"]
  ELSE decode_payload(SubSeq(data, end + 1, end + len))
=============================================================================
