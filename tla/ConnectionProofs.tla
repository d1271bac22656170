-------------------------- MODULE ConnectionProofs --------------------------
(***************************************************************************)
(* Theorems about a connection, for every value of its constants: the ids  *)
(* its writing half takes; what the varints and frames of Envelope carry;  *)
(* and that its reading half is the link of MessageLink.                   *)
(***************************************************************************)
EXTENDS ConnectionProperties, Induction

\* An i32 keeps what an id is modulo 2^32.
LEMMA CastKeepsTheRest ==
  ASSUME NEW n \in Nat
  PROVE  (n - AsI32(n)) % U32Modulus = 0
<1> DEFINE m == U32Modulus
           q == n \div m
<1>0. m \in Nat \ {0}
  BY ConnectionAssumption
<1>1. q \in Int /\ n - (n % m) = m * q
  BY <1>0
<1>2. n - ((n % m) - m) = m * (q + 1)
  BY <1>0, <1>1
<1>3. AsI32(n) \in {n % m, (n % m) - m}
  BY DEF AsI32
<1> HIDE DEF m, q
<1>4. (m * q) % m = 0 /\ (m * (q + 1)) % m = 0
  BY <1>0, <1>1, Multiple
<1> QED  BY <1>1, <1>2, <1>3, <1>4 DEF m

LEMMA OneModulusLess ==
  ASSUME NEW m \in Nat \ {0}, NEW x \in Int, x % m = 0
  PROVE  (x - m) % m = 0
<1> DEFINE q == x \div m
<1>1. q \in Int /\ x = m * q
  OBVIOUS
<1>2. x - m = m * (q - 1)
  BY <1>1
<1> HIDE DEF q
<1> QED  BY <1>1, <1>2, Multiple

LEMMA CastType == \A n \in Nat : AsI32(n) \in Int
BY ConnectionAssumption DEF AsI32

-----------------------------------------------------------------------------
\* The id that comes `apart` ids after id, which wraps around at most once.
After(id, apart) == IF id + apart < U32Modulus THEN id + apart ELSE id + apart - U32Modulus

\* A frame that is fewer than U32Modulus ids back tells what msg_id is now.
Ids ==
  /\ msg_id \in 0 .. U32Modulus - 1 /\ taken \in Nat
  /\ \E S : out \in Seq(S)
  /\ \A i \in DOMAIN out :
       /\ out[i].id \in 0 .. U32Modulus - 1 /\ out[i].nth \in 1 .. taken
       /\ taken - out[i].nth < U32Modulus => msg_id = After(out[i].id, taken - out[i].nth)
  /\ IdsStayApart

LEMMA OneAfter ==
  ASSUME NEW id \in 0 .. U32Modulus - 1, NEW apart \in Nat, apart + 1 < U32Modulus
  PROVE  LET now == After(id, apart)
             next == IF now + 1 = U32Modulus THEN 0 ELSE now + 1
         IN  /\ next = After(id, apart + 1) /\ next # id
             /\ next < id => id + (apart + 1) >= U32Modulus
BY ConnectionAssumption DEF After

\* Sends with the ids that its callers give it.
LEMMA SendsKeepsIds ==
  ASSUME Ids, NEW type, NEW next, NEW messages_id \in {None, AsI32(msg_id)},
         Sends(type, messages_id, next)
  PROVE  Ids'
<1>0. U32Modulus \in Nat \ {0} /\ msg_id \in 0 .. U32Modulus - 1 /\ msg_id \in Nat
  BY ConnectionAssumption DEF Ids
<1>1. /\ msg_id' = IF msg_id + 1 = U32Modulus THEN 0 ELSE msg_id + 1
      /\ taken' = taken + 1 /\ taken \in Nat /\ taken' \in Nat
      /\ msg_id' \in 0 .. U32Modulus - 1
  BY <1>0 DEF Sends, LastId, Ids
\* The frames sent before, seen from the id just taken.
<1>2. ASSUME NEW i \in DOMAIN out
      PROVE  /\ out[i].nth \in 1 .. taken' /\ taken' - out[i].nth > 0
             /\ taken' - out[i].nth < U32Modulus =>
                  /\ msg_id' = After(out[i].id, taken' - out[i].nth)
                  /\ msg_id' # out[i].id
                  /\ msg_id' < out[i].id => out[i].id + (taken' - out[i].nth) >= U32Modulus
  <2> DEFINE d == taken - out[i].nth
  <2>0. out[i].id \in 0 .. U32Modulus - 1 /\ out[i].nth \in 1 .. taken
    BY DEF Ids
  <2>1. /\ out[i].id \in 0 .. U32Modulus - 1 /\ out[i].nth \in 1 .. taken /\ d \in Nat
        /\ taken' - out[i].nth = d + 1
        /\ d < U32Modulus => msg_id = After(out[i].id, d)
    <3>1. d < U32Modulus => msg_id = After(out[i].id, d)
      BY DEF Ids
    <3>2. d \in Nat /\ taken' - out[i].nth = d + 1
      BY <1>1, <2>0
    <3> QED  BY <2>0, <3>1, <3>2
  <2> HIDE DEF d
  <2>2. d + 1 < U32Modulus => d < U32Modulus
    BY <1>0, <2>1
  <2> QED  BY <1>1, <2>1, <2>2, OneAfter
<1>3. CASE out' = out
  BY <1>1, <1>2, <1>3 DEF Ids, IdsStayApart
<1>4. CASE out' = Append(out, Frame(type, messages_id))
  <2> DEFINE f == Frame(type, messages_id)
  <2>1. f.id = msg_id' /\ f.nth = taken' /\ f.messages_id = messages_id
    BY DEF Frame
  <2> HIDE DEF f
  <2>2. PICK S : out \in Seq(S)
    BY DEF Ids
  <2>3. out \in Seq(S \cup {f})
    BY <2>2
  <2>4. out' \in Seq(S \cup {f})
    BY <1>4, <2>3 DEF f
  <2>5. /\ DOMAIN out' = 1 .. Len(out) + 1 /\ DOMAIN out = 1 .. Len(out) /\ Len(out) \in Nat
        /\ \A i \in DOMAIN out' : out'[i] = IF i \in DOMAIN out THEN out[i] ELSE f
    BY <1>4, <2>3, <2>4 DEF f
  <2>6. f.id \in 0 .. U32Modulus - 1 /\ f.nth \in 1 .. taken' /\ taken' - f.nth = 0
        /\ msg_id' = After(f.id, 0)
    BY <1>0, <1>1, <2>1 DEF After
  <2>7. \A i \in DOMAIN out' :
          /\ out'[i].id \in 0 .. U32Modulus - 1 /\ out'[i].nth \in 1 .. taken'
          /\ taken' - out'[i].nth < U32Modulus =>
               msg_id' = After(out'[i].id, taken' - out'[i].nth)
    <3> SUFFICES ASSUME NEW i \in DOMAIN out'
                 PROVE  /\ out'[i].id \in 0 .. U32Modulus - 1 /\ out'[i].nth \in 1 .. taken'
                        /\ taken' - out'[i].nth < U32Modulus =>
                             msg_id' = After(out'[i].id, taken' - out'[i].nth)
      OBVIOUS
    <3>1. CASE i \in DOMAIN out
      <4>1. out'[i] = out[i] /\ out[i].id \in 0 .. U32Modulus - 1
        BY <2>5, <3>1 DEF Ids
      <4> QED  BY <1>2, <3>1, <4>1
    <3>2. CASE i \notin DOMAIN out
      BY <2>5, <2>6, <3>2
    <3> QED  BY <3>1, <3>2
  <2>8. (f.messages_id # None) => (f.id - 1 - f.messages_id) % U32Modulus = 0
    <3> DEFINE c == AsI32(msg_id)
    <3>1. (msg_id - c) % U32Modulus = 0 /\ c \in Int
      BY <1>0, CastKeepsTheRest, CastType
    <3> HIDE DEF c
    <3>2. CASE f.id = msg_id + 1
      <4>1. f.id - 1 - c = msg_id - c
        BY <1>0, <3>1, <3>2
      <4> QED  BY <2>1, <3>1, <4>1 DEF c
    <3>3. CASE f.id # msg_id + 1
      <4>1. f.id = 0 /\ msg_id = U32Modulus - 1
        BY <1>0, <1>1, <2>1, <3>3
      <4>2. f.id - 1 - c = (msg_id - c) - U32Modulus
        BY <1>0, <3>1, <4>1
      <4> DEFINE m == U32Modulus
                 x == msg_id - c
      <4>3. m \in Nat \ {0} /\ x \in Int /\ x % m = 0
        BY <1>0, <3>1
      <4> HIDE DEF m, x
      <4>4. (x - m) % m = 0
        BY <4>3, OneModulusLess
      <4> QED  BY <2>1, <4>2, <4>4 DEF c, m, x
    <3> QED  BY <3>2, <3>3
  <2>9. ASSUME NEW i \in DOMAIN out'
        PROVE  /\ \A j \in 1 .. i - 1 :
                    LET apart == out'[i].nth - out'[j].nth IN
                    /\ apart > 0
                    /\ apart < U32Modulus =>
                         /\ out'[i].id # out'[j].id
                         /\ out'[i].id < out'[j].id => out'[j].id + apart >= U32Modulus
               /\ out'[i].messages_id # None =>
                    (out'[i].id - 1 - out'[i].messages_id) % U32Modulus = 0
    <3>1. \A j \in 1 .. i - 1 : j \in DOMAIN out /\ out'[j] = out[j]
      BY <2>5, <2>9
    <3>2. CASE i \in DOMAIN out
      <4>1. out'[i] = out[i]
        BY <2>5, <3>2
      <4> QED  BY <3>1, <3>2, <4>1 DEF Ids, IdsStayApart
    <3>3. CASE i \notin DOMAIN out
      <4>1. out'[i] = f
        BY <2>5, <2>9, <3>3
      <4> QED  BY <1>2, <2>1, <2>8, <3>1, <4>1
    <3> QED  BY <3>2, <3>3
  <2>10. IdsStayApart'
    BY <2>9 DEF IdsStayApart
  <2> QED  BY <1>1, <2>4, <2>7, <2>10 DEF Ids
<1> QED  BY <1>3, <1>4 DEF Sends

LEMMA IdsInductive == (Init => Ids) /\ (Ids /\ [Next]_vars => Ids')
<1>1. Init => Ids
  <2>1. << >> \in Seq({})
    OBVIOUS
  <2> QED  BY <2>1, ConnectionAssumption DEF Init, Ids, IdsStayApart
<1>2. ASSUME Ids, [Next]_vars PROVE Ids'
  <2>1. CASE UNCHANGED <<msg_id, taken, out>>
    BY <1>2, <2>1 DEF Ids, IdsStayApart
  <2>2. CASE Authenticate \/ Subscribe \/ JoinSession \/ Send
    BY <1>2, <2>2, SendsKeepsIds DEF Authenticate, Subscribe, JoinSession, Send
  <2>3. CASE Split \/ Close \/ StartHandler \/ FinishHandler \/ IdPanics
    BY <2>1, <2>3 DEF Split, Close, StartHandler, FinishHandler, IdPanics, writing
  <2>4. CASE ServerSends \/ ServerSendsUseless \/ ServerSendsOther
    BY <2>1, <2>4 DEF ServerSends, ServerSendsUseless, ServerSendsOther, Arrives, writing
  <2>5. CASE YieldMessage \/ ReadBinary \/ ReadPanics \/ ReadOther \/ ReadEnd
    BY <2>1, <2>5 DEF YieldMessage, ReadBinary, ReadPanics, ReadOther, ReadEnd, writing
  <2>6. CASE UNCHANGED vars
    BY <2>1, <2>6 DEF vars, writing
  <2> QED  BY <1>2, <2>2, <2>3, <2>4, <2>5, <2>6 DEF Next
<1> QED  BY <1>1, <1>2

\* No id comes again within 2^32 ids, over the split and over every send that
\* failed, and an id is less than an earlier one only past the end of the u32; each
\* batch carries the i32 of the id before its frame's (connection.rs, next_msg_id,
\* Connection::join_session and ConnectionWriter::send).
THEOREM IdsAlwaysStayApart == Spec => []IdsStayApart
<1>1. Ids => IdsStayApart
  BY DEF Ids
<1> QED  BY <1>1, IdsInductive, PTL DEF Spec

-----------------------------------------------------------------------------
(* Varints.                                                                *)

LEMMA BaseIs == Base \in Nat /\ Base > 3
BY EnvelopeAssumption DEF PAYLOAD

LEMMA DivideByBase ==
  ASSUME NEW n \in Nat
  PROVE  /\ n \div Base \in Nat /\ n % Base \in Nat /\ n % Base < Base
         /\ n = (Base * (n \div Base)) + (n % Base)
         /\ (Base + (n % Base)) % Base = n % Base
         /\ n >= Base => n \div Base < n
<1> DEFINE b == Base
<1>1. b \in Nat /\ b > 3
  BY BaseIs
<1> HIDE DEF b
<1>2. /\ n \div b \in Nat /\ n % b \in Nat /\ n % b < b
      /\ n = (b * (n \div b)) + (n % b)
      /\ n >= b => n \div b < n
  BY <1>1
<1>3. \A r \in 0 .. b - 1 : (b + r) % b = r
  BY <1>1
<1> QED  BY <1>1, <1>2, <1>3 DEF b

\* The recursive functions are what their equations say.
LEMMA EncodeVarint ==
  ASSUME NEW n \in Nat
  PROVE  /\ encode_varint[n] \in Seq(Nat)
         /\ encode_varint[n] = IF n < Base THEN <<n>>
                               ELSE <<Base + (n % Base)>> \o encode_varint[n \div Base]
<1> DEFINE Rec(g) == g = [k \in Nat |-> IF k < Base THEN <<k>>
                                        ELSE <<Base + (k % Base)>> \o g[k \div Base]]
           leaves == 0 .. Base - 1
           base == [k \in Nat |-> <<k>>]
           step == [x \in Nat \X Seq(Nat) |-> <<Base + (x[1] % Base)>> \o x[2]]
           rank == [k \in Nat |-> k]
           pred == [k \in Nat |-> k \div Base]
<1>1. \E g \in [Nat -> Seq(Nat)] : Solves(g, Nat, leaves, base, pred, step)
  <2>1. base \in [Nat -> Seq(Nat)] /\ rank \in [Nat -> Nat]
    OBVIOUS
  <2>2. step \in [Nat \X Seq(Nat) -> Seq(Nat)]
    <3>1. \A k \in Nat : Base + (k % Base) \in Nat
      BY BaseIs, DivideByBase
    <3>2. \A k \in Nat, t \in Seq(Nat) : <<Base + (k % Base)>> \o t \in Seq(Nat)
      BY <3>1
    <3> QED  BY <3>2
  <2>3. pred \in [Nat -> Nat]
    BY DivideByBase
  <2>4. \A k \in Nat \ leaves : rank[pred[k]] < rank[k]
    <3> SUFFICES ASSUME NEW k \in Nat, k \notin 0 .. Base - 1 PROVE rank[pred[k]] < rank[k]
      OBVIOUS
    <3>1. k >= Base
      BY BaseIs
    <3>2. k \div Base \in Nat /\ k \div Base < k
      BY <3>1, DivideByBase
    <3> QED  BY <3>2
  <2> HIDE DEF leaves, base, step, rank, pred
  <2> QED  BY <2>1, <2>2, <2>3, <2>4, RecursionExists
<1>2. PICK g \in [Nat -> Seq(Nat)] : Solves(g, Nat, leaves, base, pred, step)
  BY <1>1
<1>3. Rec(g)
  <2>1. \A k \in Nat : g[k] = IF k < Base THEN <<k>>
                              ELSE <<Base + (k % Base)>> \o g[k \div Base]
    <3> SUFFICES ASSUME NEW k \in Nat
                 PROVE  g[k] = IF k < Base THEN <<k>>
                               ELSE <<Base + (k % Base)>> \o g[k \div Base]
      OBVIOUS
    <3>1. g[k] = IF k \in leaves THEN base[k] ELSE step[<<k, g[pred[k]]>>]
      BY <1>2 DEF Solves
    <3>2. k \in leaves <=> k < Base
      BY BaseIs
    <3>3. pred[k] = k \div Base /\ k \div Base \in Nat
      BY DivideByBase
    <3>4. step[<<k, g[k \div Base]>>] = <<Base + (k % Base)>> \o g[k \div Base]
      BY <3>3
    <3> QED  BY <3>1, <3>2, <3>3, <3>4
  <2> QED  BY <2>1
<1>4. encode_varint = CHOOSE h : Rec(h)
  BY DEF encode_varint
<1>5. \A h : Rec(h) => \A k \in Nat : h[k] = IF k < Base THEN <<k>>
                                     ELSE <<Base + (k % Base)>> \o h[k \div Base]
  OBVIOUS
<1> HIDE DEF Rec
<1>6. Rec(encode_varint)
  BY <1>3, <1>4
<1>7. \A k \in Nat : encode_varint[k] = IF k < Base THEN <<k>>
                     ELSE <<Base + (k % Base)>> \o encode_varint[k \div Base]
  BY <1>5, <1>6
\* A counterexample to the type would have a smaller one.
<1>8. \A k \in Nat : encode_varint[k] \in Seq(Nat)
  <2> DEFINE Bad == {k \in Nat : encode_varint[k] \notin Seq(Nat)}
  <2> SUFFICES ASSUME Bad # {} PROVE FALSE
    OBVIOUS
  <2>1. PICK k \in Bad : \A j \in Bad : k <= j
    BY LeastNat
  <2>0. k \in Nat /\ ~(encode_varint[k] \in Seq(Nat))
    BY <2>1
  <2>2. ~(k < Base)
    <3>1. k < Base => encode_varint[k] = <<k>>
      BY <1>7, <2>0
    <3>2. <<k>> \in Seq(Nat)
      BY <2>0
    <3> QED  BY <2>0, <3>1, <3>2
  <2>3. k \div Base \in Nat /\ k \div Base < k /\ Base + (k % Base) \in Nat
    <3>1. k >= Base
      BY <2>0, <2>2, BaseIs
    <3>2. k \div Base \in Nat /\ k % Base \in Nat /\ k \div Base < k
      BY <2>0, <3>1, DivideByBase
    <3> QED  BY <3>2, BaseIs
  <2>4. encode_varint[k \div Base] \in Seq(Nat)
    <3> DEFINE d == k \div Base
    <3>0. d \in Nat /\ d < k
      BY <2>3
    <3> HIDE DEF d
    <3>1. d \notin Bad
      BY <2>0, <2>1, <3>0
    <3>2. encode_varint[d] \in Seq(Nat)
      BY <3>0, <3>1
    <3> QED  BY <3>2 DEF d
  <2>5. <<Base + (k % Base)>> \o encode_varint[k \div Base] \in Seq(Nat)
    BY <2>3, <2>4
  <2>6. encode_varint[k] = <<Base + (k % Base)>> \o encode_varint[k \div Base]
    BY <1>7, <2>0, <2>2
  <2> QED  BY <2>0, <2>5, <2>6
<1> QED  BY <1>7, <1>8

LEMMA ValueOfVarint ==
  /\ varint_value[<<>>] = 0
  /\ \A a \in Nat, s \in Seq(Nat) :
       /\ varint_value[s] \in Nat
       /\ varint_value[<<a>> \o s] = (a % Base) + Base * varint_value[s]
<1> DEFINE Rec(g) == g = [d \in Seq(Nat) |-> IF d = <<>> THEN 0
                                             ELSE (Head(d) % Base) + Base * g[Tail(d)]]
           leaves == {<<>>}
           base == [d \in Seq(Nat) |-> 0]
           step == [x \in Seq(Nat) \X Nat |-> IF x[1] = <<>> THEN 0
                                              ELSE (Head(x[1]) % Base) + Base * x[2]]
           rank == [d \in Seq(Nat) |-> Len(d)]
           pred == [d \in Seq(Nat) |-> IF d = <<>> THEN d ELSE Tail(d)]
<1>0. \A d \in Seq(Nat) : d # <<>> => /\ Head(d) \in Nat /\ Tail(d) \in Seq(Nat)
                                      /\ Len(Tail(d)) \in Nat /\ Len(Tail(d)) < Len(d)
                                      /\ Len(d) \in Nat
  BY HeadTailProperties, LenProperties
<1>1. \E g \in [Seq(Nat) -> Nat] : Solves(g, Seq(Nat), leaves, base, pred, step)
  <2>1. base \in [Seq(Nat) -> Nat] /\ rank \in [Seq(Nat) -> Nat]
    BY LenProperties
  <2>2. step \in [Seq(Nat) \X Nat -> Nat]
    <3>1. \A a, t \in Nat : (a % Base) + Base * t \in Nat
      <4>1. \A a \in Nat : a % Base \in Nat
        BY DivideByBase
      <4>2. \A t \in Nat : Base * t \in Nat
        BY BaseIs
      <4> QED  BY <4>1, <4>2
    <3> QED  BY <1>0, <3>1
  <2>3. pred \in [Seq(Nat) -> Seq(Nat)]
    BY <1>0
  <2>4. \A d \in Seq(Nat) \ leaves : rank[pred[d]] < rank[d]
    BY <1>0
  <2> HIDE DEF leaves, base, step, rank, pred
  <2> QED  BY <2>1, <2>2, <2>3, <2>4, RecursionExists
<1>2. PICK g \in [Seq(Nat) -> Nat] : Solves(g, Seq(Nat), leaves, base, pred, step)
  BY <1>1
<1>3. \A d \in Seq(Nat) : g[d] = IF d = <<>> THEN 0
                                 ELSE (Head(d) % Base) + Base * g[Tail(d)]
  <2> SUFFICES ASSUME NEW d \in Seq(Nat)
               PROVE  g[d] = IF d = <<>> THEN 0 ELSE (Head(d) % Base) + Base * g[Tail(d)]
    OBVIOUS
  <2>1. g[d] = IF d \in leaves THEN base[d] ELSE step[<<d, g[pred[d]]>>]
    BY <1>2 DEF Solves
  <2>2. d # <<>> => /\ pred[d] = Tail(d) /\ g[Tail(d)] \in Nat
                    /\ step[<<d, g[Tail(d)]>>] = (Head(d) % Base) + Base * g[Tail(d)]
    BY <1>0, <1>2
  <2> QED  BY <2>1, <2>2
<1>4. Rec(g)
  BY <1>3
<1>5. varint_value = CHOOSE h : Rec(h)
  BY DEF varint_value
<1>7. \A h : Rec(h) => \A d \in Seq(Nat) : h[d] = IF d = <<>> THEN 0
                                     ELSE (Head(d) % Base) + Base * h[Tail(d)]
  OBVIOUS
<1> HIDE DEF Rec
<1>8. Rec(varint_value)
  BY <1>4, <1>5
<1>9. \A d \in Seq(Nat) : varint_value[d] = IF d = <<>> THEN 0
                                 ELSE (Head(d) % Base) + Base * varint_value[Tail(d)]
  BY <1>7, <1>8
<1>10. \A d \in Seq(Nat) : varint_value[d] \in Nat
  <2> DEFINE Bad == {n \in Nat : \E d \in Seq(Nat) : Len(d) = n /\ ~(varint_value[d] \in Nat)}
  <2> SUFFICES ASSUME Bad # {} PROVE FALSE
    BY LenProperties
  <2>1. PICK n \in Bad : \A j \in Bad : n <= j
    BY LeastNat
  <2>2. PICK d \in Seq(Nat) : Len(d) = n /\ ~(varint_value[d] \in Nat)
    BY <2>1
  <2>3. d # <<>>
    BY <1>9, <2>2
  <2>4. varint_value[Tail(d)] \in Nat
    <3>1. Tail(d) \in Seq(Nat) /\ Len(Tail(d)) \in Nat /\ Len(Tail(d)) < n
      BY <1>0, <2>2, <2>3
    <3>2. Len(Tail(d)) \notin Bad
      BY <2>1, <3>1
    <3> QED  BY <3>1, <3>2
  <2>5. varint_value[d] = (Head(d) % Base) + Base * varint_value[Tail(d)]
    BY <1>9, <2>3
  <2>6. Head(d) % Base \in Nat
    BY <1>0, <2>3, DivideByBase
  <2>7. Base * varint_value[Tail(d)] \in Nat
    BY <2>4, BaseIs
  <2> QED  BY <2>2, <2>5, <2>6, <2>7
<1>11. ASSUME NEW a \in Nat, NEW s \in Seq(Nat)
       PROVE  varint_value[<<a>> \o s] = (a % Base) + Base * varint_value[s]
  <2> DEFINE d == <<a>> \o s
  <2>1. d \in Seq(Nat) /\ d # <<>> /\ Head(d) = a /\ Tail(d) = s
    BY ConsProperties
  <2> HIDE DEF d
  <2>2. varint_value[d] = (a % Base) + Base * varint_value[s]
    BY <1>9, <2>1
  <2> QED  BY <2>2 DEF d
<1>12. varint_value[<<>>] = 0
  BY <1>9, EmptySeq
<1> HIDE DEF leaves, base, step, rank, pred
<1> QED  BY <1>10, <1>11, <1>12

\* A varint is what it says, and can be told from what follows it.
IsVarint(e, n) ==
  /\ e \in Seq(Nat) /\ Len(e) \in Nat \ {0}
  /\ \A i \in 1 .. Len(e) - 1 : e[i] >= Base
  /\ e[Len(e)] < Base
  /\ varint_value[e] = n

LEMMA VarintRoundTrip ==
  ASSUME NEW n \in Nat
  PROVE  IsVarint(encode_varint[n], n)
<1> DEFINE Bad == {k \in Nat : ~IsVarint(encode_varint[k], k)}
<1> SUFFICES ASSUME Bad # {} PROVE FALSE
  OBVIOUS
<1>1. PICK k \in Bad : \A j \in Bad : k <= j
  BY LeastNat
<1>2. k \in Nat /\ ~IsVarint(encode_varint[k], k)
  BY <1>1
<1>3. /\ encode_varint[k] \in Seq(Nat)
      /\ encode_varint[k] = IF k < Base THEN <<k>>
                            ELSE <<Base + (k % Base)>> \o encode_varint[k \div Base]
  BY <1>2, EncodeVarint
<1>4. CASE k < Base
  <2>1. encode_varint[k] = <<k>> \o <<>> /\ <<k>> \o <<>> = <<k>>
    BY <1>2, <1>3, <1>4
  <2>2. varint_value[<<k>> \o <<>>] = (k % Base) + Base * varint_value[<<>>]
    BY <1>2, ValueOfVarint, EmptySeq
  <2>3. k % Base = k /\ Base * 0 = 0
    BY <1>2, <1>4, BaseIs
  <2>4. varint_value[<<k>>] = k
    BY <1>2, <2>1, <2>2, <2>3, ValueOfVarint
  <2>5. Len(<<k>>) = 1 /\ <<k>>[1] = k
    OBVIOUS
  <2> QED  BY <1>2, <1>3, <1>4, <2>1, <2>4, <2>5 DEF IsVarint
<1>5. CASE ~(k < Base)
  <2> DEFINE d == k \div Base
             a == Base + (k % Base)
             e == encode_varint[d]
             f == <<a>> \o e
  <2>1. /\ d \in Nat /\ d < k /\ a \in Nat /\ a >= Base
        /\ a % Base = k % Base /\ k = (Base * d) + (k % Base) /\ k % Base \in Nat
    <3>1. k >= Base
      BY <1>2, <1>5, BaseIs
    <3> QED  BY <1>2, <3>1, BaseIs, DivideByBase
  <2>2. encode_varint[k] = f
    BY <1>3, <1>5
  <2> HIDE DEF d, a
  <2>3. IsVarint(e, d)
    <3>1. d \notin Bad
      BY <1>1, <1>2, <2>1
    <3> QED  BY <2>1, <3>1
  <2> HIDE DEF e
  <2>4. /\ f \in Seq(Nat) /\ Len(f) = Len(e) + 1
        /\ f[1] = a /\ \A i \in 1 .. Len(e) : f[i + 1] = e[i]
    BY <2>1, <2>3, ConsProperties DEF IsVarint
  <2>5. varint_value[f] = (a % Base) + Base * varint_value[e]
    BY <2>1, <2>3, ValueOfVarint DEF IsVarint
  <2> HIDE DEF f
  <2>6. varint_value[f] = k
    <3>1. Base * d \in Nat
      BY <2>1, BaseIs
    <3> QED  BY <2>1, <2>3, <2>5, <3>1 DEF IsVarint
  <2>7. Len(e) \in Nat \ {0}
    BY <2>3 DEF IsVarint
  <2>8. \A i \in 1 .. Len(f) - 1 : f[i] >= Base
    <3> SUFFICES ASSUME NEW i \in 1 .. Len(f) - 1 PROVE f[i] >= Base
      OBVIOUS
    <3>1. CASE i = 1
      BY <2>1, <2>4, <3>1
    <3>2. CASE i # 1
      <4>1. i - 1 \in 1 .. Len(e) - 1 /\ i - 1 \in 1 .. Len(e) /\ i = (i - 1) + 1
        BY <2>4, <2>7, <3>2
      <4>2. f[i] = e[i - 1]
        BY <2>4, <4>1
      <4> QED  BY <2>3, <4>1, <4>2 DEF IsVarint
    <3> QED  BY <3>1, <3>2
  <2>9. f[Len(f)] < Base
    <3>1. f[Len(e) + 1] = e[Len(e)]
      BY <2>4, <2>7
    <3> QED  BY <2>3, <2>4, <3>1 DEF IsVarint
  <2> QED  BY <1>2, <2>2, <2>4, <2>6, <2>7, <2>8, <2>9 DEF IsVarint
<1> QED  BY <1>4, <1>5

\* Where a varint of n bytes ends that begins at data[2], and that none ends where
\* only a part of it is there.
LEMMA EndOfVarint ==
  ASSUME NEW data \in Seq(Nat), NEW n \in Nat \ {0}, n < Len(data),
         \A i \in 2 .. n : data[i] >= Base, data[n + 1] < Base
  PROVE  VarintEnd(data) =
           IF n <= MaxVarint /\ varint_value[SubSeq(data, 2, n + 1)] < UsizeModulus
           THEN n + 1 ELSE 0
<1> DEFINE ends == {k \in 2 .. Len(data) : data[k] < Base /\ k <= MaxVarint + 1}
           end  == CHOOSE k \in ends : \A j \in ends : k <= j
<1>0. Len(data) \in Nat /\ MaxVarint \in Nat /\ UsizeModulus \in Nat
      /\ \A i \in 1 .. Len(data) : data[i] \in Nat
  BY EnvelopeAssumption, LenProperties, ElementOfSeq
<1>1. \A k \in ends : k >= n + 1
  <2> SUFFICES ASSUME NEW k \in 2 .. Len(data), data[k] < Base PROVE k >= n + 1
    OBVIOUS
  <2>1. k \notin 2 .. n
    BY <1>0, BaseIs
  <2> QED  BY <1>0, <2>1
<1>2. VarintEnd(data) = IF ends = {} \/ varint_value[SubSeq(data, 2, end)] >= UsizeModulus
                        THEN 0 ELSE end
  BY DEF VarintEnd
<1>3. CASE n <= MaxVarint
  <2>1. n + 1 \in ends
    BY <1>0, <1>3
  <2> HIDE DEF ends
  <2>2. \A k \in ends : k \in Nat
    BY DEF ends
  <2>3. end = n + 1
    BY <1>1, <2>1, <2>2
  <2> HIDE DEF end
  <2>4. ends # {}
    BY <2>1
  <2>5. varint_value[SubSeq(data, 2, n + 1)] \in Nat
    <3>1. \A i \in 2 .. n + 1 : data[i] \in Nat
      BY <1>0
    <3>2. 2 \in Int /\ n + 1 \in Int
      BY <1>0
    <3>3. SubSeq(data, 2, n + 1) \in Seq(Nat)
      BY <3>1, <3>2, SubSeqProperties
    <3> QED  BY <3>3, ValueOfVarint
  <2> QED  BY <1>0, <1>2, <1>3, <2>3, <2>4, <2>5
<1>4. CASE ~(n <= MaxVarint)
  <2>1. ends = {}
    BY <1>0, <1>1, <1>4
  <2> HIDE DEF ends, end
  <2> QED  BY <1>2, <1>4, <2>1
<1> QED  BY <1>3, <1>4

LEMMA NoEndOfVarint ==
  ASSUME NEW data \in Seq(Nat), \A i \in 2 .. Len(data) : data[i] >= Base
  PROVE  VarintEnd(data) = 0
<1>1. {k \in 2 .. Len(data) : data[k] < Base /\ k <= MaxVarint + 1} = {}
  <2> SUFFICES ASSUME NEW k \in 2 .. Len(data), data[k] < Base PROVE FALSE
    OBVIOUS
  <2>1. data[k] \in Nat
    BY LenProperties, ElementOfSeq
  <2> QED  BY <2>1, BaseIs
<1> QED  BY <1>1 DEF VarintEnd

-----------------------------------------------------------------------------
(* Frames.                                                                 *)

LEMMA FrameBytes ==
  ASSUME NEW t \in Nat, NEW e \in Seq(Nat), NEW p \in Seq(Nat)
  PROVE  LET d == <<t>> \o e \o p IN
         /\ d \in Seq(Nat) /\ Len(d) = 1 + Len(e) + Len(p)
         /\ d[1] = t
         /\ \A i \in 1 .. Len(e) : d[i + 1] = e[i]
         /\ \A i \in 1 .. Len(p) : d[1 + Len(e) + i] = p[i]
<1> DEFINE h == <<t>> \o e
           d == h \o p
<1>1. /\ h \in Seq(Nat) /\ Len(h) = Len(e) + 1
      /\ h[1] = t /\ \A i \in 1 .. Len(e) : h[i + 1] = e[i]
  BY ConsProperties
<1> HIDE DEF h
<1>2. /\ d \in Seq(Nat) /\ Len(d) = Len(h) + Len(p)
      /\ \A i \in 1 .. Len(h) + Len(p) : d[i] = IF i <= Len(h) THEN h[i] ELSE p[i - Len(h)]
  BY <1>1, ConcatProperties
<1>3. Len(e) \in Nat /\ Len(p) \in Nat
  BY LenProperties
<1> HIDE DEF d
<1>4. d[1] = t
  BY <1>1, <1>2, <1>3
<1>5. \A i \in 1 .. Len(e) : d[i + 1] = e[i]
  <2>1. \A i \in 1 .. Len(e) : i + 1 \in 1 .. Len(h) + Len(p) /\ i + 1 <= Len(h)
    BY <1>1, <1>3
  <2> QED  BY <1>1, <1>2, <2>1
<1>6. \A i \in 1 .. Len(p) : d[1 + Len(e) + i] = p[i]
  <2> TAKE i \in 1 .. Len(p)
  <2> DEFINE j == 1 + Len(e) + i
  <2>1. j \in 1 .. Len(h) + Len(p) /\ ~(j <= Len(h)) /\ j - Len(h) = i
    BY <1>1, <1>3
  <2> HIDE DEF j
  <2>2. d[j] = p[i]
    BY <1>2, <2>1
  <2> QED  BY <2>2 DEF j
<1>7. Len(d) = 1 + Len(e) + Len(p)
  BY <1>1, <1>2, <1>3
<1> QED  BY <1>2, <1>4, <1>5, <1>6, <1>7 DEF d, h

\* The length in front of the payload is read as it was written.
LEMMA LengthOfFrame ==
  ASSUME NEW t \in Nat, NEW e, NEW m \in Nat, IsVarint(e, m), NEW p \in Seq(Nat)
  PROVE  LET d == <<t>> \o e \o p IN
         /\ VarintEnd(d) = IF Len(e) <= MaxVarint /\ m < UsizeModulus THEN Len(e) + 1 ELSE 0
         /\ SubSeq(d, 2, Len(e) + 1) = e
<1> DEFINE d == <<t>> \o e \o p
           n == Len(e)
<1>1. /\ d \in Seq(Nat) /\ Len(d) = 1 + n + Len(p)
      /\ \A i \in 1 .. n : d[i + 1] = e[i]
  BY FrameBytes DEF IsVarint
<1>2. n \in Nat \ {0} /\ Len(p) \in Nat /\ e \in Seq(Nat)
  BY LenProperties DEF IsVarint
<1> HIDE DEF d
<1>3. \A i \in 1 .. 1 + n + Len(p) : d[i] \in Nat
  BY <1>1, ElementOfSeq
<1>4. SubSeq(d, 2, n + 1) = e
  <2> DEFINE s == SubSeq(d, 2, n + 1)
  <2>1. \A i \in 2 .. n + 1 : d[i] \in Nat
    BY <1>2, <1>3
  <2>2. /\ s \in Seq(Nat) /\ Len(s) = IF 2 <= n + 1 THEN n + 1 - 2 + 1 ELSE 0
        /\ \A i \in 1 .. n + 1 - 2 + 1 : s[i] = d[2 + i - 1]
    BY <1>2, <2>1, SubSeqProperties
  <2> HIDE DEF s
  <2>3. Len(s) = n
    BY <1>2, <2>2
  <2>4. \A i \in 1 .. n : s[i] = e[i]
    <3>1. \A i \in 1 .. n : i \in 1 .. n + 1 - 2 + 1 /\ 2 + i - 1 = i + 1
      BY <1>2
    <3> QED  BY <1>1, <2>2, <3>1
  <2> QED  BY <1>2, <2>2, <2>3, <2>4, SeqEqual DEF s
<1>5. VarintEnd(d) = IF n <= MaxVarint /\ m < UsizeModulus THEN n + 1 ELSE 0
  <2>1. \A i \in 2 .. n : d[i] >= Base
    <3>1. \A i \in 2 .. n : i - 1 \in 1 .. n - 1 /\ i - 1 \in 1 .. n /\ i = (i - 1) + 1
      BY <1>2
    <3> QED  BY <1>1, <3>1 DEF IsVarint
  <2>2. d[n + 1] < Base
    <3>1. n \in 1 .. n
      BY <1>2
    <3>2. d[n + 1] = e[n]
      BY <1>1, <3>1
    <3> QED  BY <3>2 DEF IsVarint
  <2>3. varint_value[SubSeq(d, 2, n + 1)] = m
    BY <1>4 DEF IsVarint
  <2>4. n < Len(d)
    BY <1>1, <1>2
  <2> QED  BY <1>1, <1>2, <2>1, <2>2, <2>3, <2>4, EndOfVarint
<1> QED  BY <1>4, <1>5 DEF d

\* What a whole frame carries is found again.
LEMMA WholeFrame ==
  ASSUME NEW t \in Nat, NEW e, NEW p \in Seq(Nat), IsVarint(e, Len(p)),
         Len(e) <= MaxVarint, Len(p) < UsizeModulus
  PROVE  parse_envelope(<<t>> \o e \o p) = IF t = PAYLOAD THEN PayloadMessages(p) ELSE None
<1> DEFINE d == <<t>> \o e \o p
           n == Len(e)
<1>1. /\ d \in Seq(Nat) /\ Len(d) = 1 + n + Len(p) /\ d[1] = t
      /\ \A i \in 1 .. Len(p) : d[1 + n + i] = p[i]
  BY FrameBytes DEF IsVarint
<1>2. n \in Nat \ {0} /\ Len(p) \in Nat
  BY LenProperties DEF IsVarint
<1>3. VarintEnd(d) = n + 1 /\ SubSeq(d, 2, n + 1) = e
  BY <1>2, LengthOfFrame
<1> HIDE DEF d
<1>4. \A i \in 1 .. 1 + n + Len(p) : d[i] \in Nat
  BY <1>1, ElementOfSeq
<1>5. SubSeq(d, (n + 1) + 1, n + 1 + Len(p)) = p
  <2> DEFINE s == SubSeq(d, (n + 1) + 1, n + 1 + Len(p))
  <2>1. \A i \in (n + 1) + 1 .. n + 1 + Len(p) : d[i] \in Nat
    BY <1>2, <1>4
  <2>2. /\ s \in Seq(Nat)
        /\ Len(s) = IF (n + 1) + 1 <= n + 1 + Len(p) THEN n + 1 + Len(p) - ((n + 1) + 1) + 1
                    ELSE 0
        /\ \A i \in 1 .. n + 1 + Len(p) - ((n + 1) + 1) + 1 : s[i] = d[(n + 1) + 1 + i - 1]
    BY <1>2, <2>1, SubSeqProperties
  <2> HIDE DEF s
  <2>3. Len(s) = Len(p)
    BY <1>2, <2>2
  <2>4. \A i \in 1 .. Len(p) : s[i] = p[i]
    <3>1. \A i \in 1 .. Len(p) : /\ i \in 1 .. n + 1 + Len(p) - ((n + 1) + 1) + 1
                                 /\ (n + 1) + 1 + i - 1 = 1 + n + i
      BY <1>2
    <3> QED  BY <1>1, <2>2, <3>1
  <2> QED  BY <2>2, <2>3, <2>4, SeqEqual DEF s
<1>6. varint_value[SubSeq(d, 2, VarintEnd(d))] = Len(p)
  BY <1>3 DEF IsVarint
<1>7. d # <<>> /\ n + 1 # 0 /\ Len(d) >= n + 1 + Len(p)
  BY <1>1, <1>2
<1>8. parse_envelope(d) = IF t = PAYLOAD THEN PayloadMessages(p) ELSE None
  BY <1>1, <1>3, <1>5, <1>6, <1>7 DEF parse_envelope
<1> QED  BY <1>8 DEF d

\* A frame carries nothing where the length is missing or bytes of the payload are.
LEMMA NoLength ==
  ASSUME NEW data, VarintEnd(data) = 0
  PROVE  parse_envelope(data) = None
<1> DEFINE len == varint_value[SubSeq(data, 2, 0)]
<1>1. parse_envelope(data) =
        IF (data # <<>> /\ 0 # 0 /\ Len(data) >= 0 + len) /\ data[1] = PAYLOAD
        THEN PayloadMessages(SubSeq(data, 0 + 1, 0 + len)) ELSE None
  BY DEF parse_envelope
<1> QED  BY <1>1

LEMMA TooShort ==
  ASSUME NEW data, NEW end, VarintEnd(data) = end,
         ~(Len(data) >= end + varint_value[SubSeq(data, 2, end)])
  PROVE  parse_envelope(data) = None
<1> DEFINE len == varint_value[SubSeq(data, 2, end)]
<1>1. parse_envelope(data) =
        IF (data # <<>> /\ end # 0 /\ Len(data) >= end + len) /\ data[1] = PAYLOAD
        THEN PayloadMessages(SubSeq(data, end + 1, end + len)) ELSE None
  BY DEF parse_envelope
<1> QED  BY <1>1

\* What is left of a frame that was cut off carries nothing.
LEMMA CutFrame ==
  ASSUME NEW t \in Nat, NEW e, NEW p \in Seq(Nat), IsVarint(e, Len(p)),
         NEW k \in 0 .. Len(e) + Len(p)
  PROVE  parse_envelope(SubSeq(<<t>> \o e \o p, 1, k)) = None
<1> DEFINE d == <<t>> \o e \o p
           n == Len(e)
           c == SubSeq(d, 1, k)
<1>1. /\ d \in Seq(Nat) /\ Len(d) = 1 + n + Len(p) /\ d[1] = t
      /\ \A i \in 1 .. n : d[i + 1] = e[i]
  BY FrameBytes DEF IsVarint
<1>2. n \in Nat \ {0} /\ Len(p) \in Nat /\ e \in Seq(Nat) /\ k \in Nat
      /\ k <= n + Len(p)
  BY LenProperties DEF IsVarint
<1> HIDE DEF d
<1>3. \A i \in 1 .. k : d[i] \in Nat
  BY <1>1, <1>2, ElementOfSeq
<1>4. c \in Seq(Nat) /\ Len(c) = k /\ \A i \in 1 .. k : c[i] = d[i]
  <2>1. /\ c \in Seq(Nat) /\ Len(c) = IF 1 <= k THEN k - 1 + 1 ELSE 0
        /\ \A i \in 1 .. k - 1 + 1 : c[i] = d[1 + i - 1]
    BY <1>2, <1>3, SubSeqProperties
  <2> HIDE DEF c
  <2>2. \A i \in 1 .. k : i \in 1 .. k - 1 + 1 /\ 1 + i - 1 = i
    BY <1>2
  <2> QED  BY <1>2, <2>1, <2>2
<1> HIDE DEF c
<1>5. \A i \in 2 .. n : i <= k => c[i] >= Base
  <2>1. \A i \in 2 .. n : i - 1 \in 1 .. n - 1 /\ i - 1 \in 1 .. n /\ i = (i - 1) + 1
    BY <1>2
  <2>2. \A i \in 2 .. n : d[i] >= Base
    BY <1>1, <2>1 DEF IsVarint
  <2>3. \A i \in 2 .. n : i <= k => c[i] = d[i]
    BY <1>2, <1>4
  <2> QED  BY <2>2, <2>3
<1>6. CASE k <= n
  <2>1. \A i \in 2 .. Len(c) : c[i] >= Base
    <3>1. \A i \in 2 .. Len(c) : i \in 2 .. n /\ i <= k
      BY <1>2, <1>4, <1>6
    <3> QED  BY <1>5, <3>1
  <2>2. VarintEnd(c) = 0
    BY <1>4, <2>1, NoEndOfVarint
  <2> QED  BY <2>2, NoLength DEF c, d
<1>7. CASE n < k
  <2>1. \A i \in 2 .. n : c[i] >= Base
    <3>1. \A i \in 2 .. n : i <= k
      BY <1>2, <1>7
    <3> QED  BY <1>5, <3>1
  <2>2. c[n + 1] = e[n] /\ c[n + 1] < Base
    <3>1. n + 1 \in 1 .. k /\ n \in 1 .. n
      BY <1>2, <1>7
    <3>2. c[n + 1] = e[n]
      BY <1>1, <1>4, <3>1
    <3> QED  BY <3>2 DEF IsVarint
  <2>3. SubSeq(c, 2, n + 1) = e
    <3> DEFINE s == SubSeq(c, 2, n + 1)
    <3>1. \A i \in 2 .. n + 1 : i \in 1 .. k /\ i - 1 \in 1 .. n /\ i = (i - 1) + 1
      BY <1>2, <1>7
    <3>2. \A i \in 2 .. n + 1 : c[i] = e[i - 1] /\ c[i] \in Nat
      BY <1>1, <1>3, <1>4, <3>1
    <3>3. /\ s \in Seq(Nat) /\ Len(s) = IF 2 <= n + 1 THEN n + 1 - 2 + 1 ELSE 0
          /\ \A i \in 1 .. n + 1 - 2 + 1 : s[i] = c[2 + i - 1]
      BY <1>2, <3>2, SubSeqProperties
    <3> HIDE DEF s
    <3>4. Len(s) = n
      BY <1>2, <3>3
    <3>5. \A i \in 1 .. n : /\ i \in 1 .. n + 1 - 2 + 1 /\ 2 + i - 1 = i + 1
                            /\ i + 1 \in 2 .. n + 1 /\ (i + 1) - 1 = i
      BY <1>2
    <3>6. \A i \in 1 .. n : s[i] = e[i]
      BY <3>2, <3>3, <3>5
    <3> QED  BY <1>2, <3>3, <3>4, <3>6, SeqEqual DEF s
  <2>4. VarintEnd(c) \in {0, n + 1}
    <3>1. n < Len(c)
      BY <1>4, <1>7
    <3>2. VarintEnd(c) = IF n <= MaxVarint /\ varint_value[SubSeq(c, 2, n + 1)] < UsizeModulus
                         THEN n + 1 ELSE 0
      BY <1>2, <1>4, <2>1, <2>2, <3>1, EndOfVarint
    <3> QED  BY <3>2
  <2>5. CASE VarintEnd(c) = 0
    BY <2>5, NoLength DEF c, d
  <2>6. CASE VarintEnd(c) = n + 1
    <3>1. varint_value[SubSeq(c, 2, VarintEnd(c))] = Len(p)
      BY <2>3, <2>6 DEF IsVarint
    <3>2. ~(Len(c) >= n + 1 + Len(p))
      BY <1>2, <1>4
    <3> QED  BY <2>6, <3>1, <3>2, TooShort DEF c, d
  <2> QED  BY <2>4, <2>5, <2>6
<1> QED  BY <1>2, <1>6, <1>7 DEF c, d

\* A length without its payload is not enough.
LEMMA BareLength ==
  ASSUME NEW t \in Nat, NEW m \in Nat \ {0}
  PROVE  /\ <<t>> \o encode_varint[m] \in Seq(Nat)
         /\ parse_envelope(<<t>> \o encode_varint[m]) = None
<1> DEFINE e == encode_varint[m]
           d == <<t>> \o e \o <<>>
           n == Len(e)
<1>1. IsVarint(e, m)
  BY VarintRoundTrip
<1> HIDE DEF e
<1>2. n \in Nat \ {0} /\ <<>> \in Seq(Nat) /\ Len(<<>>) = 0 /\ e \in Seq(Nat)
  BY <1>1, EmptySeq DEF IsVarint
<1>3. d \in Seq(Nat) /\ Len(d) = 1 + n + 0
  BY <1>2, FrameBytes
<1>4. VarintEnd(d) \in {0, n + 1} /\ SubSeq(d, 2, n + 1) = e
  BY <1>1, <1>2, LengthOfFrame
<1>5. <<t>> \o e = d
  <2>1. <<t>> \o e \in Seq(Nat)
    BY <1>2, ConsProperties
  <2> QED  BY <2>1, ConcatEmptySeq
<1> HIDE DEF d
<1>6. CASE VarintEnd(d) = 0
  BY <1>3, <1>5, <1>6, NoLength DEF e
<1>7. CASE VarintEnd(d) = n + 1
  <2>1. ~(Len(d) >= n + 1 + varint_value[SubSeq(d, 2, n + 1)])
    <3>1. varint_value[SubSeq(d, 2, n + 1)] = m
      BY <1>1, <1>4 DEF IsVarint
    <3>2. ~(1 + n + 0 >= n + 1 + m)
      BY <1>2
    <3> QED  BY <1>3, <3>1, <3>2
  <2>2. parse_envelope(d) = None
    <3> DEFINE end == n + 1
    <3>1. VarintEnd(d) = end /\ ~(Len(d) >= end + varint_value[SubSeq(d, 2, end)])
      BY <1>7, <2>1
    <3> HIDE DEF end
    <3> QED  BY <3>1, TooShort
  <2> QED  BY <1>3, <1>5, <2>2 DEF e
<1> QED  BY <1>4, <1>6, <1>7

\* The messages of a batch are found behind the ignored fields.
LEMMA MessagesOfBatch ==
  ASSUME NEW fields \in Nat, NEW messages \in Seq(Nat), \A i \in DOMAIN messages : messages[i] # 0
  PROVE  LET p == BatchPayload(fields, messages) IN
         /\ p \in Seq(Nat) /\ Len(p) = 1 + fields + Len(messages)
         /\ PayloadMessages(p) = messages
<1> DEFINE z == [i \in 1 .. fields |-> 0]
           p == BatchPayload(fields, messages)
           n == Len(messages)
<1>1. z \in Seq(Nat) /\ Len(z) = fields /\ n \in Nat /\ DOMAIN messages = 1 .. n
  BY LenProperties
<1>2. p = <<WithBatch>> \o z \o messages /\ WithBatch = 2
  BY DEF BatchPayload, WithBatch
<1> HIDE DEF z, p
<1>3. /\ p \in Seq(Nat) /\ Len(p) = 1 + fields + n /\ p[1] = WithBatch
      /\ \A i \in 1 .. fields : p[i + 1] = z[i]
      /\ \A i \in 1 .. n : p[1 + fields + i] = messages[i]
  <2>1. 2 \in Nat /\ z \in Seq(Nat) /\ messages \in Seq(Nat)
    BY <1>1
  <2> DEFINE d == <<2>> \o z \o messages
  <2>2. /\ d \in Seq(Nat) /\ Len(d) = 1 + Len(z) + Len(messages)
        /\ d[1] = 2
        /\ \A i \in 1 .. Len(z) : d[i + 1] = z[i]
        /\ \A i \in 1 .. Len(messages) : d[1 + Len(z) + i] = messages[i]
    BY ONLY <2>1, FrameBytes
  <2>3. p = d
    BY <1>2
  <2> HIDE DEF d
  <2> QED  BY <1>1, <1>2, <2>2, <2>3
<1>4. p # <<>> /\ Head(p) = WithBatch /\ DOMAIN p = 1 .. 1 + fields + n
  BY <1>1, <1>3
<1> DEFINE F == {i \in DOMAIN p : i = 1 \/ p[i] = 0}
<1>5. F = 1 .. 1 + fields
  <2>1. \A i \in 1 .. 1 + fields : i = 1 \/ p[i] = 0
    <3> SUFFICES ASSUME NEW i \in 1 .. 1 + fields, i # 1 PROVE p[i] = 0
      OBVIOUS
    <3>1. i - 1 \in 1 .. fields /\ i = (i - 1) + 1
      OBVIOUS
    <3>2. p[i] = z[i - 1]
      BY <1>3, <3>1
    <3> QED  BY <3>1, <3>2 DEF z
  <2>2. \A i \in 1 .. 1 + fields + n : i \notin 1 .. 1 + fields => i # 1 /\ p[i] # 0
    <3> SUFFICES ASSUME NEW i \in 1 .. 1 + fields + n, i \notin 1 .. 1 + fields
                 PROVE  i # 1 /\ p[i] # 0
      OBVIOUS
    <3> DEFINE j == i - (1 + fields)
    <3>1. j \in 1 .. n /\ i = 1 + fields + j /\ i # 1
      BY <1>1
    <3> HIDE DEF j
    <3>2. p[i] = messages[j]
      BY <1>3, <3>1
    <3> QED  BY <1>1, <3>1, <3>2
  <2>3. 1 .. 1 + fields \subseteq 1 .. 1 + fields + n
    BY <1>1
  <2> QED  BY <1>4, <2>1, <2>2, <2>3
<1> HIDE DEF F
<1>6. (CHOOSE i \in F : \A j \in F : j <= i) = 1 + fields
  BY <1>5
<1>7. SubSeq(p, (1 + fields) + 1, 1 + fields + n) = messages
  <2> DEFINE s == SubSeq(p, (1 + fields) + 1, 1 + fields + n)
  <2>1. \A i \in (1 + fields) + 1 .. 1 + fields + n : p[i] \in Nat
    BY <1>1, <1>3, ElementOfSeq
  <2>2. /\ s \in Seq(Nat)
        /\ Len(s) = IF (1 + fields) + 1 <= 1 + fields + n
                    THEN 1 + fields + n - ((1 + fields) + 1) + 1 ELSE 0
        /\ \A i \in 1 .. 1 + fields + n - ((1 + fields) + 1) + 1 : s[i] = p[(1 + fields) + 1 + i - 1]
    BY <1>1, <2>1, SubSeqProperties
  <2> HIDE DEF s
  <2>3. Len(s) = n
    BY <1>1, <2>2
  <2>4. \A i \in 1 .. n : s[i] = messages[i]
    <3>1. \A i \in 1 .. n : /\ i \in 1 .. 1 + fields + n - ((1 + fields) + 1) + 1
                            /\ (1 + fields) + 1 + i - 1 = 1 + fields + i
      BY <1>1
    <3> QED  BY <1>3, <2>2, <3>1
  <2> QED  BY <2>2, <2>3, <2>4, SeqEqual DEF s
<1>8. PayloadMessages(p) = messages
  BY <1>3, <1>4, <1>6, <1>7 DEF PayloadMessages, F
<1> QED  BY <1>3, <1>8 DEF p

-----------------------------------------------------------------------------
(* What the server sends.                                                  *)

LEMMA NextBatchCarries ==
  ASSUME NEW b \in Batches, sent \in Seq(Nat)
  PROVE  /\ b.ignored \in Nat /\ b.messages \in Nat
         /\ NextMessages(b) \in Seq(Nat) /\ Len(NextMessages(b)) = b.messages
         /\ NextBatch(b) \in Seq(Nat) /\ Len(NextBatch(b)) = 1 + b.ignored + b.messages
         /\ PayloadMessages(NextBatch(b)) = NextMessages(b)
<1> DEFINE m == NextMessages(b)
<1>1. b.ignored \in Nat /\ b.messages \in Nat /\ Len(sent) \in Nat
  BY ConnectionAssumption, LenProperties
<1>2. /\ m \in Seq(Nat) /\ Len(m) = b.messages
      /\ \A i \in DOMAIN m : m[i] # 0
  <2> DEFINE n == b.messages
             l == Len(sent)
  <2>1. m = [i \in 1 .. n |-> l + i]
    BY DEF NextMessages
  <2>2. n \in Nat /\ l \in Nat
    BY <1>1
  <2> HIDE DEF m, n, l
  <2>3. m \in [1 .. n -> Nat] /\ \A i \in 1 .. n : m[i] # 0
    BY <2>1, <2>2
  <2>4. m \in Seq(Nat) /\ Len(m) = n /\ DOMAIN m = 1 .. n
    BY <2>2, <2>3
  <2> QED  BY <2>3, <2>4 DEF n
<1> HIDE DEF m
<1>3. NextBatch(b) = BatchPayload(b.ignored, m)
  BY DEF NextBatch, m
<1>4. LET p == BatchPayload(b.ignored, m) IN
      p \in Seq(Nat) /\ Len(p) = 1 + b.ignored + Len(m) /\ PayloadMessages(p) = m
  BY <1>1, <1>2, MessagesOfBatch
<1> QED  BY <1>1, <1>2, <1>3, <1>4 DEF m

\* The parts of a frame of the server, and that it fits into memory.
LEMMA NextFrame ==
  ASSUME NEW b \in Batches, sent \in Seq(Nat), NEW type \in Nat
  PROVE  LET p == NextBatch(b)
             e == encode_varint[Len(p)]
             t == type % (2 * Base) IN
         /\ encode_envelope(type, p) = <<t>> \o e \o p
         /\ t \in Nat /\ p \in Seq(Nat) /\ Len(p) \in Nat \ {0} /\ IsVarint(e, Len(p))
         /\ Len(e) <= MaxVarint /\ Len(p) < UsizeModulus
         /\ encode_envelope(type, p) \in Seq(Nat)
         /\ Len(encode_envelope(type, p)) = 1 + Len(e) + Len(p)
         /\ 1 + Len(e) + Len(p) < UsizeModulus
<1> DEFINE p == NextBatch(b)
           e == encode_varint[Len(p)]
           t == type % (2 * Base)
           f == encode_envelope(type, p)
<1>1. /\ p \in Seq(Nat) /\ Len(p) = 1 + b.ignored + b.messages
      /\ b.ignored \in Nat /\ b.messages \in Nat
  BY NextBatchCarries
<1>2. f = <<t>> \o e \o p
  BY DEF encode_envelope
<1> HIDE DEF p
<1>3. t \in Nat
  BY BaseIs
<1>4. Len(p) \in Nat \ {0} /\ IsVarint(e, Len(p))
  BY <1>1, VarintRoundTrip
<1>5. 1 + MaxVarint + Len(p) < UsizeModulus /\ MaxVarint \in Nat /\ UsizeModulus \in Nat
  <2>1. 2 + MaxVarint + b.ignored + b.messages < UsizeModulus
    BY ConnectionAssumption
  <2> QED  BY <1>1, <2>1, EnvelopeAssumption
<1>6. Len(e) <= MaxVarint
  BY <1>4, <1>5, EnvelopeAssumption
<1>7. Len(e) \in Nat /\ e \in Seq(Nat)
  BY <1>4 DEF IsVarint
<1> HIDE DEF e, t
<1>8. f \in Seq(Nat) /\ Len(f) = 1 + Len(e) + Len(p)
  <2>1. t \in Nat /\ e \in Seq(Nat) /\ p \in Seq(Nat)
    BY <1>1, <1>3, <1>7
  <2>2. LET d == <<t>> \o e \o p IN d \in Seq(Nat) /\ Len(d) = 1 + Len(e) + Len(p)
    BY ONLY <2>1, FrameBytes
  <2> HIDE DEF f
  <2> QED  BY <1>2, <2>2
<1> HIDE DEF f
<1>9. 1 + Len(e) + Len(p) < UsizeModulus /\ Len(p) < UsizeModulus
  BY <1>4, <1>5, <1>6, <1>7
<1> QED  BY <1>1, <1>2, <1>3, <1>4, <1>6, <1>8, <1>9 DEF p, e, t, f

LEMMA BatchArrives ==
  ASSUME NEW b \in Batches, sent \in Seq(Nat)
  PROVE  parse_envelope(encode_envelope(PAYLOAD, NextBatch(b))) = NextMessages(b)
<1> DEFINE p == NextBatch(b)
           e == encode_varint[Len(p)]
           t == PAYLOAD % (2 * Base)
<1>1. PAYLOAD \in Nat
  BY DEF PAYLOAD
<1>2. /\ encode_envelope(PAYLOAD, p) = <<t>> \o e \o p
      /\ t \in Nat /\ p \in Seq(Nat) /\ IsVarint(e, Len(p))
      /\ Len(e) <= MaxVarint /\ Len(p) < UsizeModulus
  BY <1>1, NextFrame
<1>3. t = PAYLOAD
  BY BaseIs DEF PAYLOAD
<1> HIDE DEF e, t
<1>4. PayloadMessages(p) = NextMessages(b)
  BY NextBatchCarries
<1> HIDE DEF p
<1>5. parse_envelope(<<t>> \o e \o p) = PayloadMessages(p)
  BY <1>2, <1>3, WholeFrame
<1> QED  BY <1>2, <1>4, <1>5 DEF p

LEMMA NoBatch ==
  ASSUME NEW p \in Seq(Nat), p = <<>> \/ p[1] # WithBatch
  PROVE  PayloadMessages(p) = None
<1>1. p # <<>> => Head(p) = p[1]
  OBVIOUS
<1> QED  BY <1>1 DEF PayloadMessages

\* A frame of the server's whose payload holds at most two bytes.
LEMMA SmallFrame ==
  ASSUME Batches # {}, NEW p \in Seq(Nat), Len(p) <= 2, p = <<>> \/ p[1] # WithBatch
  PROVE  /\ encode_envelope(PAYLOAD, p) \in Seq(Nat)
         /\ parse_envelope(encode_envelope(PAYLOAD, p)) = None
<1> DEFINE e == encode_varint[Len(p)]
           t == PAYLOAD % (2 * Base)
<1>1. t \in Nat /\ PAYLOAD \in Nat
  BY BaseIs DEF PAYLOAD
<1>2. Len(p) \in Nat
  BY LenProperties
<1>3. Len(p) < UsizeModulus
  <2>1. PICK b \in Batches : TRUE
    OBVIOUS
  <2>2. 2 + MaxVarint + b.ignored + b.messages < UsizeModulus /\ b.ignored \in Nat
        /\ b.messages \in Nat
    BY <2>1, ConnectionAssumption
  <2> QED  BY <1>2, <2>2, EnvelopeAssumption
<1>4. IsVarint(e, Len(p)) /\ Len(e) <= MaxVarint
  BY <1>2, <1>3, VarintRoundTrip, EnvelopeAssumption
<1>5. encode_envelope(PAYLOAD, p) = <<t>> \o e \o p
  BY DEF encode_envelope
<1> HIDE DEF e, t
<1>6. e \in Seq(Nat)
  BY <1>4 DEF IsVarint
<1>7. <<t>> \o e \o p \in Seq(Nat)
  BY <1>1, <1>6, FrameBytes
<1>8. parse_envelope(<<t>> \o e \o p) \in {PayloadMessages(p), None}
  BY <1>1, <1>3, <1>4, WholeFrame
<1> QED  BY <1>5, <1>7, <1>8, NoBatch

LEMMA UselessCarriesNothing ==
  ASSUME NEW b \in Batches, sent \in Seq(Nat), NEW data \in Useless(b)
  PROVE  data \in Seq(Nat) /\ parse_envelope(data) = None
<1> DEFINE p == NextBatch(b)
           e == encode_varint[Len(p)]
           t == PAYLOAD % (2 * Base)
           whole == encode_envelope(PAYLOAD, p)
<1>1. PAYLOAD \in Nat /\ ERROR \in Nat /\ ERROR % (2 * Base) # PAYLOAD
  BY BaseIs DEF PAYLOAD, ERROR
<1>2. /\ whole = <<t>> \o e \o p
      /\ t \in Nat /\ p \in Seq(Nat) /\ Len(p) \in Nat \ {0} /\ IsVarint(e, Len(p))
      /\ whole \in Seq(Nat) /\ Len(whole) = 1 + Len(e) + Len(p)
  BY <1>1, NextFrame
<1>3. Len(e) \in Nat \ {0}
  BY <1>2 DEF IsVarint
<1>4. CASE \E k \in 0 .. Len(whole) - 1 : data = SubSeq(whole, 1, k)
  <2>1. PICK k \in 0 .. Len(whole) - 1 : data = SubSeq(whole, 1, k)
    BY <1>4
  <2> HIDE DEF e, p, t, whole
  <2>2. k \in 0 .. Len(e) + Len(p)
    BY <1>2, <1>3, <2>1
  <2>3. parse_envelope(SubSeq(<<t>> \o e \o p, 1, k)) = None
    BY <1>2, <2>2, CutFrame
  <2>4. data \in Seq(Nat)
    <3>1. \A i \in 1 .. k : whole[i] \in Nat
      <4>1. \A i \in 1 .. k : i \in 1 .. Len(whole)
        BY <1>2, <1>3, <2>2
      <4> QED  BY <1>2, <4>1, ElementOfSeq
    <3>2. k \in Int
      BY <1>2, <1>3, <2>2
    <3> QED  BY <2>1, <3>1, <3>2, SubSeqProperties
  <2> QED  BY <1>2, <2>1, <2>3, <2>4
<1>5. CASE data = encode_envelope(ERROR, p)
  <2> DEFINE u == ERROR % (2 * Base)
  <2>1. /\ encode_envelope(ERROR, p) = <<u>> \o e \o p /\ u \in Nat
        /\ encode_envelope(ERROR, p) \in Seq(Nat)
        /\ Len(e) <= MaxVarint /\ Len(p) < UsizeModulus
    BY <1>1, NextFrame
  <2> HIDE DEF e, p, u
  <2>2. u # PAYLOAD
    BY <1>1 DEF u
  <2>3. parse_envelope(<<u>> \o e \o p) = None
    BY <1>2, <2>1, <2>2, WholeFrame
  <2> QED  BY <1>5, <2>1, <2>3
<1>6. CASE data = encode_envelope(PAYLOAD, <<>>)
  <2>1. <<>> \in Seq(Nat) /\ Len(<<>>) <= 2
    BY EmptySeq
  <2> QED  BY <1>6, <2>1, SmallFrame
<1>7. CASE data = encode_envelope(PAYLOAD, <<1, 1>>)
  <2>1. <<1, 1>> \in Seq(Nat) /\ Len(<<1, 1>>) <= 2 /\ <<1, 1>>[1] # WithBatch
    BY DEF WithBatch
  <2> QED  BY <1>7, <2>1, SmallFrame
<1>8. ASSUME NEW m \in {UsizeModulus - 1, UsizeModulus},
             data = <<PAYLOAD>> \o encode_varint[m]
      PROVE  data \in Seq(Nat) /\ parse_envelope(data) = None
  <2>1. m \in Nat \ {0}
    <3>1. 2 + MaxVarint + b.ignored + b.messages < UsizeModulus /\ b.ignored \in Nat
          /\ b.messages \in Nat
      BY ConnectionAssumption
    <3> QED  BY <3>1, EnvelopeAssumption
  <2> QED  BY <1>1, <1>8, <2>1, BareLength
<1>9. \/ \E k \in 0 .. Len(whole) - 1 : data = SubSeq(whole, 1, k)
      \/ data = encode_envelope(ERROR, p)
      \/ data = encode_envelope(PAYLOAD, <<>>)
      \/ data = encode_envelope(PAYLOAD, <<1, 1>>)
      \/ data = <<PAYLOAD>> \o encode_varint[UsizeModulus - 1]
      \/ data = <<PAYLOAD>> \o encode_varint[UsizeModulus]
  BY DEF Useless
<1> QED  BY <1>4, <1>5, <1>6, <1>7, <1>8, <1>9

-----------------------------------------------------------------------------
(* The decode tool.                                                        *)

LEMMA VarintEndType ==
  ASSUME NEW data \in Seq(Nat)
  PROVE  LET end == VarintEnd(data)
             len == varint_value[SubSeq(data, 2, end)] IN
         /\ end \in Nat /\ end <= Len(data) /\ len \in Nat
         /\ \A i \in end + 1 .. end + len : i <= Len(data) => data[i] \in Nat
<1> DEFINE ends == {k \in 2 .. Len(data) : data[k] < Base /\ k <= MaxVarint + 1}
           end  == CHOOSE k \in ends : \A j \in ends : k <= j
<1>0. Len(data) \in Nat /\ \A i \in 1 .. Len(data) : data[i] \in Nat
  BY LenProperties, ElementOfSeq
<1>1. ends # {} => end \in 2 .. Len(data)
  <2>1. ends \in SUBSET Nat /\ ends \subseteq 2 .. Len(data)
    BY <1>0
  <2> HIDE DEF ends
  <2>2. ends # {} => \E k \in ends : \A j \in ends : k <= j
    BY <2>1, LeastNat
  <2> QED  BY <2>1, <2>2
<1>2. VarintEnd(data) = 0 \/ VarintEnd(data) \in 2 .. Len(data)
  <2>1. VarintEnd(data) = IF ends = {} \/ varint_value[SubSeq(data, 2, end)] >= UsizeModulus
                          THEN 0 ELSE end
    BY DEF VarintEnd
  <2> HIDE DEF ends, end
  <2> QED  BY <1>1, <2>1
<1> DEFINE v == VarintEnd(data)
<1>3. v \in Nat /\ v <= Len(data)
  BY <1>0, <1>2
<1> HIDE DEF v
<1>4. varint_value[SubSeq(data, 2, v)] \in Nat
  <2>1. \A i \in 2 .. v : data[i] \in Nat
    BY <1>0, <1>3
  <2>2. SubSeq(data, 2, v) \in Seq(Nat)
    BY <1>3, <2>1, SubSeqProperties
  <2> QED  BY <2>2, ValueOfVarint
<1>5. \A i \in v + 1 .. v + varint_value[SubSeq(data, 2, v)] : i <= Len(data) => data[i] \in Nat
  BY <1>0, <1>3, <1>4
<1> QED  BY <1>3, <1>4, <1>5 DEF v

LEMMA PayloadMessagesType ==
  ASSUME NEW p \in Seq(Nat), p # <<>>, Head(p) = WithBatch
  PROVE  PayloadMessages(p) \in Seq(Nat)
<1> DEFINE F == {i \in DOMAIN p : i = 1 \/ p[i] = 0}
           last == CHOOSE i \in F : \A j \in F : j <= i
           n == Len(p)
<1>1. n \in Nat \ {0} /\ DOMAIN p = 1 .. n /\ \A i \in 1 .. n : p[i] \in Nat
  BY LenProperties, ElementOfSeq
<1>2. PayloadMessages(p) = SubSeq(p, last + 1, n)
  BY DEF PayloadMessages
<1>3. last \in 1 .. n
  <2> DEFINE D == {n - i : i \in F}
  <2>1. F \subseteq 1 .. n /\ 1 \in F
    BY <1>1
  <2> HIDE DEF F
  <2>2. D \in SUBSET Nat /\ D # {}
    BY <1>1, <2>1
  <2>3. PICK d \in D : \A e \in D : d <= e
    BY <2>2, LeastNat
  <2>4. PICK i \in F : d = n - i
    BY <2>3
  <2>5. \A j \in F : j <= i
    <3> TAKE j \in F
    <3>1. n - i <= n - j
      BY <2>3, <2>4
    <3> QED  BY <1>1, <2>1, <2>4, <3>1
  <2>6. last \in F
    BY <2>4, <2>5
  <2> QED  BY <2>1, <2>6
<1> HIDE DEF last
<1>4. \A i \in last + 1 .. n : p[i] \in Nat
  BY <1>1, <1>3
<1> QED  BY <1>1, <1>2, <1>3, <1>4, SubSeqProperties

\* What the tool shows of some bytes, and what the connection makes of them.
AgreeOn(data) ==
  LET shown == decode_envelope(data)
      read  == parse_envelope(data) IN
  IF read = None THEN shown.shows # "batch" /\ (shown.shows = "panic" <=> Overflows(data))
  ELSE shown = [shows |-> "batch", messages |-> read]

\* They agree on every sequence of bytes that fits into memory, and on every one in
\* which the connection finds nothing (connection.rs, parse_envelope; bin/decode.rs,
\* decode_envelope).
THEOREM DecodeAgreesWithParse ==
  ASSUME NEW data \in Seq(Nat), Len(data) < UsizeModulus \/ parse_envelope(data) = None
  PROVE  AgreeOn(data)
<1> DEFINE end == VarintEnd(data)
           len == varint_value[SubSeq(data, 2, end)]
           p == SubSeq(data, end + 1, end + len)
           shown == decode_envelope(data)
           read == parse_envelope(data)
<1>1. /\ end \in Nat /\ end <= Len(data) /\ len \in Nat /\ Len(data) \in Nat
      /\ UsizeModulus \in Nat
  BY VarintEndType, LenProperties, EnvelopeAssumption
<1>2. \A i \in end + 1 .. end + len : i <= Len(data) => data[i] \in Nat
  BY VarintEndType
<1>3. Overflows(data) <=> end # 0 /\ end + len >= UsizeModulus
  BY DEF Overflows
<1>4. read = IF (data # <<>> /\ end # 0 /\ Len(data) >= end + len) /\ data[1] = PAYLOAD
             THEN PayloadMessages(p) ELSE None
  BY DEF parse_envelope
<1>5. shown = IF data = <<>> THEN [shows |-> "empty"]
              ELSE IF end = 0 THEN [shows |-> "no length"]
              ELSE IF Overflows(data) THEN [shows |-> "panic"]
              ELSE IF Len(data) < end + len THEN [shows |-> "incomplete"]
              ELSE IF data[1] # PAYLOAD THEN [shows |-> "raw"]
              ELSE decode_payload(p)
  BY DEF decode_envelope
<1>6. Len(data) >= end + len => p \in Seq(Nat)
  <2> SUFFICES ASSUME Len(data) >= end + len PROVE p \in Seq(Nat)
    OBVIOUS
  <2> HIDE DEF end, len
  <2>1. \A i \in end + 1 .. end + len : data[i] \in Nat
    BY <1>1, <1>2
  <2>2. end + 1 \in Int /\ end + len \in Int
    BY <1>1
  <2> QED  BY <2>1, <2>2, SubSeqProperties
<1>7. data = <<>> => end = 0
  <2>1. Len(<<>>) = 0
    OBVIOUS
  <2> QED  BY <1>1, <2>1
<1> DEFINE holds == p # <<>> /\ Head(p) = WithBatch
<1>8. decode_payload(p) = IF ~holds THEN [shows |-> "no batch"]
                          ELSE [shows |-> "batch", messages |-> PayloadMessages(p)]
  BY DEF decode_payload
<1>9. ~holds => PayloadMessages(p) = None
  BY DEF PayloadMessages
<1>10. p \in Seq(Nat) /\ holds => PayloadMessages(p) # None
  BY PayloadMessagesType, EnvelopeAssumption
<1> HIDE DEF end, len, p, shown, read, holds
<1>11. CASE data = <<>> \/ end = 0
  <2>1. read = None /\ ~Overflows(data) /\ shown.shows \in {"empty", "no length"}
    BY <1>3, <1>4, <1>5, <1>7, <1>11
  <2> QED  BY <2>1 DEF AgreeOn, read, shown
<1>12. CASE data # <<>> /\ end # 0 /\ Overflows(data)
  <2>1. read = None
    BY <1>1, <1>3, <1>4, <1>12 DEF read
  <2>2. shown.shows = "panic"
    BY <1>5, <1>12
  <2> QED  BY <1>12, <2>1, <2>2 DEF AgreeOn, read, shown
<1>13. CASE data # <<>> /\ end # 0 /\ ~Overflows(data) /\ ~(Len(data) >= end + len)
  <2>1. read = None /\ shown.shows = "incomplete"
    BY <1>1, <1>4, <1>5, <1>13
  <2> QED  BY <1>13, <2>1 DEF AgreeOn, read, shown
<1>14. CASE data # <<>> /\ end # 0 /\ ~Overflows(data) /\ Len(data) >= end + len
  <2>0. ~(Len(data) < end + len)
    BY <1>1, <1>14
  <2>1. CASE data[1] # PAYLOAD
    <3>1. read = None /\ shown.shows = "raw"
      BY <1>4, <1>5, <1>14, <2>0, <2>1
    <3> QED  BY <1>14, <3>1 DEF AgreeOn, read, shown
  <2>2. CASE data[1] = PAYLOAD /\ ~holds
    <3>1. read = None
      BY <1>4, <1>9, <1>14, <2>2
    <3>2. shown = [shows |-> "no batch"]
      BY <1>5, <1>8, <1>14, <2>0, <2>2
    <3>3. shown.shows = "no batch"
      BY <3>2
    <3> QED  BY <1>14, <3>1, <3>3 DEF AgreeOn, read, shown
  <2>3. CASE data[1] = PAYLOAD /\ holds
    <3>1. read = PayloadMessages(p) /\ read # None
      BY <1>4, <1>6, <1>10, <1>14, <2>3
    <3>2. shown = [shows |-> "batch", messages |-> read]
      BY <1>5, <1>8, <1>14, <2>0, <2>3, <3>1
    <3> QED  BY <3>1, <3>2 DEF AgreeOn, read, shown
  <2> QED  BY <2>1, <2>2, <2>3
<1> QED  BY <1>11, <1>12, <1>13, <1>14

-----------------------------------------------------------------------------
(* The stream.  `at' gives, for each WebSocket message that waits, how many  *)
(* messages the server had sent before it.                                 *)

Carries(ws, from, to) ==
  LET messages == parse_envelope(ws.data) IN
  IF ws.kind = "Binary" /\ messages # None
  THEN /\ messages \in Seq(Nat) /\ Len(messages) = to - from
       /\ \A i \in 1 .. to - from : messages[i] = from + i
  ELSE to = from

Counts(s, before, n) == s \in Seq(Nat) /\ Len(s) = n /\ \A i \in 1 .. n : s[i] = before + i

Waiting ==
  \E at \in [1 .. Len(net) + 1 -> Nat] :
    /\ at[1] = Len(yielded) + Len(batch) /\ at[Len(net) + 1] = Len(sent)
    /\ \A j, k \in 1 .. Len(net) + 1 : j <= k => at[j] <= at[k]
    /\ \A k \in 1 .. Len(net) : Carries(net[k], at[k], at[k + 1])

InOrder ==
  /\ \E S : net \in Seq(S)
  /\ sent \in Seq(Nat) /\ yielded \in Seq(Nat) /\ batch \in Seq(Nat)
  /\ \A i \in 1 .. Len(sent) : sent[i] = i
  /\ \A i \in 1 .. Len(yielded) : yielded[i] = i
  /\ \A i \in 1 .. Len(batch) : batch[i] = Len(yielded) + i
  /\ Waiting
  /\ \A k \in 1 .. Len(net) - 1 : net[k].kind \notin {"Close", "Error"}
  /\ \A k \in 1 .. Len(net) : net[k].kind = "Binary" =>
       /\ net[k].data \in Seq(Nat)
       /\ Len(net[k].data) < UsizeModulus \/ parse_envelope(net[k].data) = None
  /\ stream \in {"open", "ended"}
  /\ stream = "ended" => yielded = sent /\ batch = <<>>

\* A message that arrives is behind all the others.
LEMMA ArrivesInOrder ==
  ASSUME InOrder, NEW ws, NEW more \in Nat, Arrives(ws), ~ServerDone,
         sent' \in Seq(Nat), Len(sent') = Len(sent) + more,
         \A i \in 1 .. Len(sent') : sent'[i] = i,
         Carries(ws, Len(sent), Len(sent) + more),
         ws.kind = "Binary" => /\ ws.data \in Seq(Nat)
                               /\ Len(ws.data) < UsizeModulus \/ parse_envelope(ws.data) = None,
         stream = "open"
  PROVE  InOrder'
<1>1. net' = Append(net, ws) /\ UNCHANGED <<writing, reading>>
  BY DEF Arrives
<1>2. UNCHANGED <<yielded, batch, stream>>
  BY <1>1 DEF reading
<1> DEFINE n == Len(net)
<1>3. PICK S : net \in Seq(S)
  BY DEF InOrder
<1>4. n \in Nat /\ net' \in Seq(S \cup {ws}) /\ Len(net') = n + 1 /\ net'[n + 1] = ws
      /\ \A k \in 1 .. n : net'[k] = net[k]
  <2>1. net \in Seq(S \cup {ws}) /\ ws \in S \cup {ws}
    BY <1>3
  <2> QED  BY <1>1, <1>3, <2>1, AppendProperties, LenProperties
<1>5. PICK at \in [1 .. n + 1 -> Nat] :
        /\ at[1] = Len(yielded) + Len(batch) /\ at[n + 1] = Len(sent)
        /\ \A j, k \in 1 .. n + 1 : j <= k => at[j] <= at[k]
        /\ \A k \in 1 .. n : Carries(net[k], at[k], at[k + 1])
  BY DEF InOrder, Waiting
<1>6. Len(sent) \in Nat
  BY LenProperties DEF InOrder
<1> HIDE DEF n
<1>7. Waiting'
  <2> DEFINE to == Len(sent) + more
             next == [k \in 1 .. n + 2 |-> IF k = n + 2 THEN to ELSE at[k]]
  <2>0. to \in Nat
    BY <1>6
  <2> HIDE DEF to
  <2>1. next \in [1 .. n + 2 -> Nat] /\ next[n + 2] = to
        /\ \A k \in 1 .. n + 1 : next[k] = at[k]
    BY <1>4, <1>5, <2>0
  <2> HIDE DEF next
  <2>2. \A j, k \in 1 .. n + 2 : j <= k => next[j] <= next[k]
    <3> SUFFICES ASSUME NEW j \in 1 .. n + 2, NEW k \in 1 .. n + 2, j <= k
                 PROVE  next[j] <= next[k]
      OBVIOUS
    <3>1. CASE k # n + 2
      <4>1. j \in 1 .. n + 1 /\ k \in 1 .. n + 1
        BY <1>4, <3>1
      <4> QED  BY <1>5, <2>1, <4>1
    <3>2. CASE k = n + 2 /\ j # n + 2
      <4>1. j \in 1 .. n + 1 /\ n + 1 \in 1 .. n + 1 /\ j <= n + 1
        BY <1>4, <3>2
      <4>2. at[j] <= at[n + 1] /\ at[j] \in Nat
        BY <1>5, <4>1
      <4>3. Len(sent) <= to
        BY <1>6 DEF to
      <4> QED  BY <1>5, <1>6, <2>0, <2>1, <3>2, <4>1, <4>2, <4>3
    <3>3. CASE k = n + 2 /\ j = n + 2
      BY <2>0, <2>1, <3>3
    <3> QED  BY <3>1, <3>2, <3>3
  <2>3. \A k \in 1 .. n + 1 : Carries(net'[k], next[k], next[k + 1])
    <3> TAKE k \in 1 .. n + 1
    <3>1. CASE k # n + 1
      <4>1. k \in 1 .. n /\ k \in 1 .. n + 1 /\ k + 1 \in 1 .. n + 1
        BY <1>4, <3>1
      <4>2. net'[k] = net[k] /\ next[k] = at[k] /\ next[k + 1] = at[k + 1]
        BY <1>4, <2>1, <4>1
      <4> QED  BY <1>5, <4>1, <4>2
    <3>2. CASE k = n + 1
      <4>1. next[n + 1] = Len(sent) /\ next[(n + 1) + 1] = to
        <5>1. n + 1 \in 1 .. n + 1 /\ (n + 1) + 1 = n + 2
          BY <1>4
        <5> QED  BY <1>5, <2>1, <5>1
      <4> QED  BY <1>4, <3>2, <4>1 DEF to
    <3> QED  BY <3>1, <3>2
  <2>4. next[1] = Len(yielded') + Len(batch')
    <3>1. 1 \in 1 .. n + 1
      BY <1>4
    <3> QED  BY <1>2, <1>5, <2>1, <3>1
  <2>5. next[n + 2] = Len(sent')
    BY <2>1 DEF to
  <2>6. Len(net') + 1 = n + 2
    BY <1>4
  <2> QED  BY <1>4, <2>1, <2>2, <2>3, <2>4, <2>5, <2>6 DEF Waiting
<1>8. \A k \in 1 .. Len(net') - 1 : net'[k].kind \notin {"Close", "Error"}
  <2>0. Len(net') - 1 = n
    BY <1>4
  <2> SUFFICES ASSUME NEW k \in 1 .. n PROVE net[k].kind \notin {"Close", "Error"}
    BY <1>4, <2>0
  <2>1. CASE k # n
    <3>1. k \in 1 .. n - 1
      BY <1>4, <2>1
    <3> QED  BY <3>1 DEF InOrder, n
  <2>2. CASE k = n
    <3>1. net # <<>>
      BY <1>4, <2>2 DEF n
    <3> QED  BY <2>2, <3>1 DEF ServerDone, n
  <2> QED  BY <2>1, <2>2
<1>9. \A k \in 1 .. Len(net') : net'[k].kind = "Binary" =>
        /\ net'[k].data \in Seq(Nat)
        /\ Len(net'[k].data) < UsizeModulus \/ parse_envelope(net'[k].data) = None
  <2>1. \A k \in 1 .. Len(net') : k \in 1 .. n \/ k = n + 1
    BY <1>4
  <2>2. \A k \in 1 .. n : net[k].kind = "Binary" =>
        /\ net[k].data \in Seq(Nat)
        /\ Len(net[k].data) < UsizeModulus \/ parse_envelope(net[k].data) = None
    BY DEF InOrder, n
  <2> QED  BY <1>4, <2>1, <2>2
<1>10. \E T : net' \in Seq(T)
  BY <1>4
<1> QED  BY <1>2, <1>7, <1>8, <1>9, <1>10 DEF InOrder

LEMMA TakesInOrder ==
  ASSUME InOrder, net # <<>>, batch = <<>>, stream = "open", net' = Tail(net),
         UNCHANGED <<sent, yielded, stream>>,
         batch' = IF Head(net).kind = "Binary" /\ parse_envelope(Head(net).data) # None
                  THEN parse_envelope(Head(net).data) ELSE <<>>
  PROVE  InOrder'
<1> DEFINE n == Len(net)
<1>1. PICK S : net \in Seq(S)
  BY DEF InOrder
<1>2. n \in Nat \ {0} /\ Head(net) = net[1]
  BY <1>1, LenProperties, EmptySeq
<1>3. net' \in Seq(S) /\ Len(net') = n - 1 /\ \A k \in 1 .. n - 1 : net'[k] = net[k + 1]
  BY <1>1, HeadTailProperties
<1>4. PICK at \in [1 .. n + 1 -> Nat] :
        /\ at[1] = Len(yielded) + Len(batch) /\ at[n + 1] = Len(sent)
        /\ \A j, k \in 1 .. n + 1 : j <= k => at[j] <= at[k]
        /\ \A k \in 1 .. n : Carries(net[k], at[k], at[k + 1])
  BY DEF InOrder, Waiting
<1>5. Len(yielded) \in Nat /\ Len(batch) = 0
  BY LenProperties DEF InOrder
<1>6. \A k \in 1 .. n : net[k].kind = "Binary" =>
        /\ net[k].data \in Seq(Nat)
        /\ Len(net[k].data) < UsizeModulus \/ parse_envelope(net[k].data) = None
  BY DEF InOrder
<1>7. \A k \in 1 .. n - 1 : net[k].kind \notin {"Close", "Error"}
  BY DEF InOrder
<1> HIDE DEF n
<1>8. at[1] = Len(yielded) /\ at[1] \in Nat /\ at[2] \in Nat /\ Carries(net[1], at[1], at[2])
  <2>1. 1 \in 1 .. n /\ 1 \in 1 .. n + 1 /\ 2 \in 1 .. n + 1 /\ 1 + 1 = 2
    BY <1>2
  <2>2. Carries(net[1], at[1], at[1 + 1])
    BY <1>4, <2>1
  <2> QED  BY <1>4, <1>5, <2>1, <2>2
<1>9. /\ batch' \in Seq(Nat) /\ Len(batch') = at[2] - at[1]
      /\ \A i \in 1 .. Len(batch') : batch'[i] = Len(yielded') + i
  <2>1. CASE net[1].kind = "Binary" /\ parse_envelope(net[1].data) # None
    <3>1. batch' = parse_envelope(net[1].data)
      BY <1>2, <2>1
    <3>2. /\ batch' \in Seq(Nat) /\ Len(batch') = at[2] - at[1]
          /\ \A i \in 1 .. at[2] - at[1] : batch'[i] = at[1] + i
      BY <1>8, <2>1, <3>1 DEF Carries
    <3> QED  BY <1>8, <3>2
  <2>2. CASE ~(net[1].kind = "Binary" /\ parse_envelope(net[1].data) # None)
    <3>1. batch' = <<>> /\ at[2] = at[1]
      BY <1>2, <1>8, <2>2 DEF Carries
    <3>2. at[2] - at[1] = 0 /\ Len(<<>>) = 0 /\ <<>> \in Seq(Nat)
      BY <1>8, <3>1, EmptySeq
    <3>3. batch' \in Seq(Nat) /\ Len(batch') = 0
      BY <3>1, <3>2
    <3>4. \A i \in 1 .. 0 : FALSE
      OBVIOUS
    <3> QED  BY <3>2, <3>3, <3>4
  <2> QED  BY <2>1, <2>2
<1>10. Waiting'
  <2> DEFINE next == [k \in 1 .. n |-> at[k + 1]]
  <2>1. /\ next \in [1 .. n -> Nat] /\ \A k \in 1 .. n : next[k] = at[k + 1]
        /\ \A k \in 1 .. n : k + 1 \in 1 .. n + 1
    BY <1>2, <1>4
  <2> HIDE DEF next
  <2>2. \A j, k \in 1 .. n : j <= k => next[j] <= next[k]
    <3> SUFFICES ASSUME NEW j \in 1 .. n, NEW k \in 1 .. n, j <= k PROVE next[j] <= next[k]
      OBVIOUS
    <3>1. j + 1 \in 1 .. n + 1 /\ k + 1 \in 1 .. n + 1 /\ j + 1 <= k + 1
      BY <1>2
    <3> QED  BY <1>4, <2>1, <3>1
  <2>3. \A k \in 1 .. n - 1 : Carries(net'[k], next[k], next[k + 1])
    <3> TAKE k \in 1 .. n - 1
    <3>1. k + 1 \in 1 .. n /\ k \in 1 .. n
      BY <1>2
    <3>2. Carries(net[k + 1], at[k + 1], at[(k + 1) + 1])
      BY <1>4, <3>1
    <3> QED  BY <1>3, <2>1, <3>1, <3>2
  <2>4. next[1] = Len(yielded') + Len(batch')
    <3>1. next[1] = at[2]
      <4>1. 1 \in 1 .. n /\ 1 + 1 = 2
        BY <1>2
      <4> QED  BY <2>1, <4>1
    <3>2. Len(yielded') = at[1]
      BY <1>8
    <3>3. at[1] + (at[2] - at[1]) = at[2]
      BY <1>8
    <3> QED  BY <1>9, <3>1, <3>2, <3>3
  <2>5. next[n] = Len(sent')
    <3>1. n \in 1 .. n
      BY <1>2
    <3> QED  BY <1>4, <2>1, <3>1
  <2>6. Len(net') + 1 = n
    BY <1>2, <1>3
  <2> QED  BY <1>3, <2>1, <2>2, <2>3, <2>4, <2>5, <2>6 DEF Waiting
<1>11. \A k \in 1 .. Len(net') - 1 : net'[k].kind \notin {"Close", "Error"}
  <2> TAKE k \in 1 .. Len(net') - 1
  <2>1. k \in 1 .. n - 1 /\ k + 1 \in 1 .. n - 1
    BY <1>2, <1>3
  <2> QED  BY <1>3, <1>7, <2>1
<1>12. \A k \in 1 .. Len(net') : net'[k].kind = "Binary" =>
        /\ net'[k].data \in Seq(Nat)
        /\ Len(net'[k].data) < UsizeModulus \/ parse_envelope(net'[k].data) = None
  <2> TAKE k \in 1 .. Len(net')
  <2>1. k \in 1 .. n - 1 /\ k + 1 \in 1 .. n
    BY <1>2, <1>3
  <2> QED  BY <1>3, <1>6, <2>1
<1>13. \E T : net' \in Seq(T)
  BY <1>3
<1> QED  BY <1>9, <1>10, <1>11, <1>12, <1>13 DEF InOrder

\* What the stream yields is the next of the messages that were sent.
LEMMA YieldsInOrder ==
  ASSUME InOrder, YieldMessage
  PROVE  /\ InOrder'
         /\ Len(yielded) < Len(sent) /\ yielded' = Append(yielded, sent[Len(yielded) + 1])
<1> DEFINE y == Len(yielded)
           b == Len(batch)
<1>1. /\ batch # <<>> /\ yielded' = Append(yielded, Head(batch)) /\ batch' = Tail(batch)
      /\ UNCHANGED <<net, sent, stream>> /\ stream = "open"
  BY DEF YieldMessage, Polled, Running, server
<1>2. /\ yielded \in Seq(Nat) /\ batch \in Seq(Nat) /\ sent \in Seq(Nat)
      /\ y \in Nat /\ b \in Nat \ {0} /\ Len(sent) \in Nat
  BY <1>1, LenProperties, EmptySeq DEF InOrder
<1>3. Head(batch) = y + 1
  <2>1. Head(batch) = batch[1] /\ 1 \in 1 .. b
    BY <1>1, <1>2
  <2> QED  BY <2>1 DEF InOrder
<1>4. /\ yielded' \in Seq(Nat) /\ Len(yielded') = y + 1
      /\ \A i \in 1 .. y + 1 : yielded'[i] = IF i = y + 1 THEN y + 1 ELSE yielded[i]
  <2>1. Len(Append(yielded, y + 1)) = y + 1 /\ Append(yielded, y + 1) \in Seq(Nat)
    BY <1>2, AppendProperties
  <2>2. \A i \in 1 .. y + 1 : Append(yielded, y + 1)[i] = IF i = y + 1 THEN y + 1 ELSE yielded[i]
    BY <1>2
  <2> QED  BY <1>1, <1>3, <2>1, <2>2
<1>5. /\ batch' \in Seq(Nat) /\ Len(batch') = b - 1
      /\ \A i \in 1 .. b - 1 : batch'[i] = batch[i + 1]
  BY <1>1, <1>2, HeadTailProperties
<1>6. PICK at \in [1 .. Len(net) + 1 -> Nat] :
        /\ at[1] = y + b /\ at[Len(net) + 1] = Len(sent)
        /\ \A j, k \in 1 .. Len(net) + 1 : j <= k => at[j] <= at[k]
        /\ \A k \in 1 .. Len(net) : Carries(net[k], at[k], at[k + 1])
  BY DEF InOrder, Waiting
<1>7. y + b <= Len(sent)
  <2>1. Len(net) \in Nat
    BY LenProperties DEF InOrder
  <2>2. 1 \in 1 .. Len(net) + 1 /\ Len(net) + 1 \in 1 .. Len(net) + 1 /\ 1 <= Len(net) + 1
    BY <2>1
  <2> QED  BY <1>6, <2>2
<1>8. \A i \in 1 .. Len(sent) : sent[i] = i
  BY DEF InOrder
<1>9. \A i \in 1 .. y : yielded[i] = i
  BY DEF InOrder
<1>10. \A i \in 1 .. b : batch[i] = y + i
  BY DEF InOrder
<1>11. y < Len(sent) /\ sent[y + 1] = y + 1
  <2>1. y < Len(sent) /\ y + 1 \in 1 .. Len(sent)
    BY <1>2, <1>7
  <2> QED  BY <1>8, <2>1
<1> HIDE DEF y, b
<1>12. Waiting'
  <2>1. y + b = Len(yielded') + Len(batch')
    BY <1>2, <1>4, <1>5
  <2> QED  BY <1>1, <1>6, <2>1 DEF Waiting
<1>13. \A i \in 1 .. Len(yielded') : yielded'[i] = i
  <2>1. \A i \in 1 .. y + 1 : i = y + 1 \/ i \in 1 .. y
    BY <1>2
  <2> QED  BY <1>4, <1>9, <2>1
<1>14. \A i \in 1 .. Len(batch') : batch'[i] = Len(yielded') + i
  <2> TAKE i \in 1 .. Len(batch')
  <2>1. i \in 1 .. b - 1 /\ i + 1 \in 1 .. b
    BY <1>2, <1>5
  <2>2. batch'[i] = y + (i + 1)
    BY <1>5, <1>10, <2>1
  <2> QED  BY <1>2, <1>4, <2>1, <2>2
<1>15. InOrder'
  BY <1>1, <1>4, <1>5, <1>12, <1>13, <1>14 DEF InOrder
<1>16. yielded' = Append(yielded, sent[Len(yielded) + 1])
  BY <1>1, <1>3, <1>11 DEF y
<1> QED  BY <1>11, <1>15, <1>16 DEF y

\* The stream ends behind the last message of all.
LEMMA EndsInOrder ==
  ASSUME InOrder, ReadEnd
  PROVE  InOrder' /\ yielded = sent
<1> DEFINE n == Len(net)
<1>1. /\ batch = <<>> /\ net # <<>> /\ Head(net).kind \in {"Close", "Error"}
      /\ stream' = "ended" /\ UNCHANGED <<net, sent, batch, yielded>>
  BY DEF ReadEnd, server
<1>2. PICK S : net \in Seq(S)
  BY DEF InOrder
<1>3. n \in Nat \ {0} /\ Head(net) = net[1]
  BY <1>1, <1>2, LenProperties, EmptySeq
<1>4. n = 1
  <2>1. 1 \notin 1 .. n - 1
    BY <1>1, <1>3 DEF InOrder
  <2> HIDE DEF n
  <2>2. n > 1 => 1 \in 1 .. n - 1
    BY <1>3
  <2> QED  BY <1>3, <2>1, <2>2
<1>5. PICK at \in [1 .. n + 1 -> Nat] :
        /\ at[1] = Len(yielded) + Len(batch) /\ at[n + 1] = Len(sent)
        /\ \A k \in 1 .. n : Carries(net[k], at[k], at[k + 1])
  BY DEF InOrder, Waiting
<1>6. at[1] = at[2]
  <2>1. Carries(net[1], at[1], at[1 + 1])
    BY <1>4, <1>5
  <2>2. net[1].kind # "Binary"
    BY <1>1, <1>3
  <2> QED  BY <2>1, <2>2 DEF Carries
<1>7. Len(yielded) = Len(sent)
  <2>1. Len(batch) = 0 /\ Len(yielded) \in Nat
    BY <1>1, LenProperties DEF InOrder
  <2> QED  BY <1>4, <1>5, <1>6, <2>1
<1>8. yielded = sent
  <2>1. yielded \in Seq(Nat) /\ sent \in Seq(Nat)
    BY DEF InOrder
  <2>2. \A i \in 1 .. Len(yielded) : yielded[i] = sent[i]
    BY <1>7 DEF InOrder
  <2> QED  BY <1>7, <2>1, <2>2, SeqEqual
<1> QED  BY <1>1, <1>8 DEF InOrder, Waiting

-----------------------------------------------------------------------------
LEMMA InOrderFirst == Init => InOrder
<1> SUFFICES ASSUME Init PROVE InOrder
  OBVIOUS
<1>1. /\ net = <<>> /\ sent = <<>> /\ yielded = <<>> /\ batch = <<>> /\ stream = "open"
      /\ Len(<<>>) = 0 /\ <<>> \in Seq(Nat) /\ <<>> \in Seq({})
  BY EmptySeq DEF Init
<1>2. Waiting
  <2> DEFINE at == [k \in 1 .. 1 |-> 0]
  <2>1. at \in [1 .. 1 -> Nat] /\ at[1] = 0 /\ 1 \in 1 .. 1
    OBVIOUS
  <2>2. \A j, k \in 1 .. 1 : j <= k => at[j] <= at[k]
    OBVIOUS
  <2> HIDE DEF at
  <2>3. Len(net) + 1 = 1 /\ Len(sent) = 0 /\ Len(yielded) + Len(batch) = 0
        /\ \A k \in 1 .. Len(net) : FALSE
    BY <1>1
  <2> QED  BY <2>1, <2>2, <2>3 DEF Waiting
<1>3. \A k \in 1 .. 0 : FALSE
  OBVIOUS
<1>4. Len(net) - 1 = 0 - 1 /\ \A k \in 1 .. 0 - 1 : FALSE
  BY <1>1
<1> QED  BY <1>1, <1>2, <1>3, <1>4 DEF InOrder

LEMMA ServerInOrder ==
  /\ InOrder /\ ServerSends => InOrder' /\ L!Sends
  /\ InOrder /\ (ServerSendsUseless \/ ServerSendsOther) => InOrder'
<1>0. InOrder => Len(sent) \in Nat /\ sent \in Seq(Nat)
  BY LenProperties DEF InOrder
<1>1. ASSUME InOrder, ServerSends PROVE InOrder' /\ L!Sends
  <2>1. PICK b \in Batches : /\ Arrives(Binary(encode_envelope(PAYLOAD, NextBatch(b))))
                             /\ sent' = sent \o NextMessages(b)
    BY <1>1 DEF ServerSends
  <2> DEFINE m == NextMessages(b)
             data == encode_envelope(PAYLOAD, NextBatch(b))
             s == Len(sent)
  <2>2. /\ b.messages \in Nat /\ m \in Seq(Nat) /\ Len(m) = b.messages
    BY <1>0, <1>1, NextBatchCarries
  <2>3. parse_envelope(data) = m
    BY <1>0, <1>1, BatchArrives
  <2>4. data \in Seq(Nat) /\ Len(data) < UsizeModulus
    <3>1. PAYLOAD \in Nat
      BY DEF PAYLOAD
    <3> QED  BY <1>0, <1>1, <3>1, NextFrame
  <2>5. \A i \in 1 .. b.messages : m[i] = s + i
    BY DEF NextMessages
  <2> HIDE DEF m, data, s
  <2>6. /\ sent' \in Seq(Nat) /\ Len(sent') = s + b.messages
        /\ \A i \in 1 .. s + b.messages : sent'[i] = IF i <= s THEN sent[i] ELSE m[i - s]
    BY <1>0, <1>1, <2>1, <2>2, ConcatProperties DEF m, s
  <2>7. \A i \in 1 .. s : sent[i] = i
    BY <1>1 DEF InOrder, s
  <2>8. s \in Nat
    BY <1>0, <1>1 DEF s
  <2>9. \A i \in 1 .. Len(sent') : sent'[i] = i
    <3> TAKE i \in 1 .. Len(sent')
    <3>1. CASE i <= s
      <4>1. i \in 1 .. s
        BY <2>2, <2>6, <2>8, <3>1
      <4> QED  BY <2>6, <2>7, <4>1
    <3>2. CASE ~(i <= s)
      <4>1. i - s \in 1 .. b.messages /\ s + (i - s) = i
        BY <2>2, <2>6, <2>8, <3>2
      <4>2. sent'[i] = m[i - s]
        BY <2>6, <3>2
      <4> QED  BY <2>5, <4>1, <4>2
    <3> QED  BY <3>1, <3>2
  <2>10. Carries(Binary(data), s, s + b.messages)
    <3>1. Binary(data).kind = "Binary" /\ Binary(data).data = data
      BY DEF Binary
    <3>2. (s + b.messages) - s = b.messages
      BY <2>2, <2>8
    <3>3. m # None
      BY <2>2, EnvelopeAssumption
    <3> HIDE DEF Binary
    <3> QED  BY <2>2, <2>3, <2>5, <3>1, <3>2, <3>3 DEF Carries
  <2>11. Binary(data).data = data
    BY DEF Binary
  <2>12. InOrder'
    <3>1. ~ServerDone /\ stream = "open"
      BY <1>1 DEF ServerSends, MaySend
    <3>2. Arrives(Binary(data))
      BY <2>1 DEF data
    <3> QED  BY <1>1, <2>2, <2>4, <2>6, <2>9, <2>10, <2>11, <3>1, <3>2, ArrivesInOrder DEF s
  <2>13. Len(sent') >= Len(sent) /\ SubSeq(sent', 1, Len(sent)) = sent
    <3> DEFINE q == SubSeq(sent', 1, s)
    <3>1. \A i \in 1 .. s : i \in 1 .. s + b.messages /\ i <= s /\ sent'[i] = sent[i]
      BY <2>2, <2>6, <2>8
    <3>2. \A i \in 1 .. s : sent'[i] \in Nat
      BY <2>7, <3>1
    <3>3. /\ q \in Seq(Nat) /\ Len(q) = IF 1 <= s THEN s - 1 + 1 ELSE 0
          /\ \A i \in 1 .. s - 1 + 1 : q[i] = sent'[1 + i - 1]
      BY <2>8, <3>2, SubSeqProperties
    <3> HIDE DEF q
    <3>4. Len(q) = s /\ \A i \in 1 .. s : i \in 1 .. s - 1 + 1 /\ 1 + i - 1 = i
      BY <2>8, <3>3
    <3>5. q = sent
      BY <1>0, <1>1, <3>1, <3>3, <3>4, SeqEqual DEF s
    <3> QED  BY <2>2, <2>6, <2>8, <3>5 DEF q, s
  <2>14. UNCHANGED <<yielded, stream>>
    BY <2>1 DEF Arrives, reading
  <2> QED  BY <2>12, <2>13, <2>14 DEF L!Sends
<1>2. ASSUME InOrder, NEW ws, Arrives(ws), MaySend, UNCHANGED sent,
             ws.kind = "Binary" => ws.data \in Seq(Nat) /\ parse_envelope(ws.data) = None
      PROVE  InOrder'
  <2>1. Carries(ws, Len(sent), Len(sent) + 0)
    BY <1>0, <1>2 DEF Carries
  <2>2. /\ sent' \in Seq(Nat) /\ Len(sent') = Len(sent) + 0
        /\ \A i \in 1 .. Len(sent') : sent'[i] = i
    BY <1>0, <1>2 DEF InOrder
  <2> QED  BY <1>2, <2>1, <2>2, ArrivesInOrder DEF MaySend
<1>3. ASSUME InOrder, ServerSendsUseless PROVE InOrder'
  <2>0. PICK b \in Batches : \E data \in Useless(b) : Arrives(Binary(data))
    BY <1>3 DEF ServerSendsUseless
  <2>1. PICK data \in Useless(b) : Arrives(Binary(data))
    BY <2>0
  <2>2. data \in Seq(Nat) /\ parse_envelope(data) = None
    BY <1>0, <1>3, UselessCarriesNothing
  <2>3. Binary(data).data = data
    BY DEF Binary
  <2> QED  BY <1>2, <1>3, <2>1, <2>2, <2>3 DEF ServerSendsUseless
<1>4. ASSUME InOrder, ServerSendsOther PROVE InOrder'
  <2>1. PICK ws \in {Other, ServerClose, Failure} : Arrives(ws)
    BY <1>4 DEF ServerSendsOther
  <2>2. ws.kind # "Binary"
    BY DEF Other, ServerClose, Failure
  <2> QED  BY <1>2, <1>4, <2>1, <2>2 DEF ServerSendsOther
<1> QED  BY <1>1, <1>3, <1>4

LEMMA ReaderInOrder ==
  InOrder /\ (ReadBinary \/ ReadOther \/ ReadPanics) => InOrder' /\ UNCHANGED <<sent, yielded, stream>>
<1>1. ASSUME InOrder, ReadBinary PROVE InOrder' /\ UNCHANGED <<sent, yielded, stream>>
  <2> DEFINE m == parse_envelope(Head(net).data)
  <2>1. /\ stream = "open" /\ batch = <<>> /\ net # <<>> /\ Head(net).kind = "Binary"
        /\ net' = Tail(net) /\ UNCHANGED <<sent, yielded, stream>>
        /\ batch' = IF m = None THEN <<>> ELSE m
    BY <1>1 DEF ReadBinary, Polled, Running, AfterFrame
  <2>2. batch' = IF Head(net).kind = "Binary" /\ m # None THEN m ELSE <<>>
    BY <2>1
  <2> QED  BY <1>1, <2>1, <2>2, TakesInOrder
<1>2. ASSUME InOrder, ReadOther PROVE InOrder' /\ UNCHANGED <<sent, yielded, stream>>
  <2>1. /\ stream = "open" /\ batch = <<>> /\ net # <<>> /\ Head(net).kind # "Binary"
        /\ net' = Tail(net) /\ UNCHANGED <<sent, yielded, stream, batch>>
    BY <1>2 DEF ReadOther, Polled, Running, reading
  <2>2. batch' = IF Head(net).kind = "Binary" /\ parse_envelope(Head(net).data) # None
                 THEN parse_envelope(Head(net).data) ELSE <<>>
    BY <2>1
  <2> QED  BY <1>2, <2>1, <2>2, TakesInOrder
<1>3. ASSUME InOrder, ReadPanics PROVE InOrder' /\ UNCHANGED <<sent, yielded, stream>>
  BY <1>3 DEF ReadPanics, server, reading, InOrder, Waiting
<1> QED  BY <1>1, <1>2, <1>3

LEMMA InOrderInductive ==
  ASSUME InOrder, [Next]_vars
  PROVE  InOrder' /\ [L!Next]_<<sent, yielded, stream = "ended">>
<1>1. CASE UNCHANGED <<net, sent, batch, stream, yielded>>
  BY <1>1 DEF InOrder, Waiting
<1>2. CASE \/ Authenticate \/ Subscribe \/ JoinSession \/ Split \/ Send \/ Close
          \/ StartHandler \/ FinishHandler \/ IdPanics
  BY <1>1, <1>2 DEF Authenticate, Subscribe, JoinSession, Split, Send, Close, StartHandler,
                    FinishHandler, IdPanics, server, reading
<1>3. CASE ServerSends
  BY <1>3, ServerInOrder DEF L!Next
<1>4. CASE ServerSendsUseless \/ ServerSendsOther
  <2>1. UNCHANGED <<sent, yielded, stream>>
    BY <1>4 DEF ServerSendsUseless, ServerSendsOther, Arrives, reading
  <2> QED  BY <1>4, <2>1, ServerInOrder
<1>5. CASE YieldMessage
  <2>1. stream # "ended" /\ UNCHANGED <<sent, stream>>
    BY <1>5 DEF YieldMessage, Polled, Running, server
  <2> QED  BY <1>5, <2>1, YieldsInOrder DEF L!Next, L!Yields
<1>6. CASE ReadBinary \/ ReadPanics \/ ReadOther
  BY <1>6, ReaderInOrder
<1>7. CASE ReadEnd
  <2>1. stream # "ended" /\ stream' = "ended" /\ UNCHANGED <<sent, yielded>>
    BY <1>7 DEF ReadEnd, Polled, Running, server
  <2> QED  BY <1>7, <2>1, EndsInOrder DEF L!Next, L!Ends
<1>8. CASE UNCHANGED vars
  BY <1>1, <1>8 DEF vars, server, reading
<1> QED  BY <1>2, <1>3, <1>4, <1>5, <1>6, <1>7, <1>8 DEF Next

\* The stream the runner polls yields what the server sent, in order, none twice and
\* none left out, and ends after the last, whatever else the server sends and
\* wherever its frames are cut off (ConnectionReader, connection.rs).
THEOREM ReaderImplementsLink == Spec => ImplementsLink
<1>1. Init => L!Init
  BY DEF Init, L!Init
<1> QED  BY <1>1, InOrderFirst, InOrderInductive, PTL DEF Spec, ImplementsLink, L!Spec

\* The tool shows what the connection reads, for every WebSocket message the server
\* can have sent (src/bin/decode.rs).
THEOREM ToolAlwaysAgrees == Spec => []ToolAgrees
<1>1. InOrder => ToolAgrees
  <2> SUFFICES ASSUME InOrder, NEW i \in DOMAIN net, net[i].kind = "Binary"
               PROVE  AgreeOn(net[i].data)
    BY DEF ToolAgrees, AgreeOn
  <2>1. i \in 1 .. Len(net)
    BY DEF InOrder
  <2> QED  BY <2>1, DecodeAgreesWithParse DEF InOrder
<1> QED  BY <1>1, InOrderFirst, InOrderInductive, PTL DEF Spec

=============================================================================
