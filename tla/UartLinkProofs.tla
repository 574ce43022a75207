--------------------------- MODULE UartLinkProofs ---------------------------
(***************************************************************************)
(* Theorems about UartLink for every number of message numbers, payloads   *)
(* and queue sizes: its types; and, for a tool that is stopped only while  *)
(* the device is at rest, that an undamaged session drops no byte and gets *)
(* its own answers, and that the link implements Rpc whatever the lines    *)
(* lose and change.                                                        *)
(***************************************************************************)
EXTENDS UartLinkProps, SequenceTheorems, TLAPS

-----------------------------------------------------------------------------
(***************************************************************************)
(* The invariant.  What the queues and the line hold is one stream of      *)
(* bytes to the device, and one to the tool, whose rests are packets.      *)
(* Unspoilt says where an undamaged session stands; Turns, Once and        *)
(* OwnCrcs what is left of that when bytes were lost or changed; Ending    *)
(* how the receiver gets back in step.                                     *)
(***************************************************************************)
\* The tool is not stopped while the device is at work.
Patient == ~Impatient

\* What is on its way to the device, and to the tool.
stream == rx \o toDevice
reply  == tx \o out

\* The bytes of a packet before they are escaped, and what the line carries of
\* them from the k-th.
Bytes(body) == Crc(body) \o body

Last1(b) == Escaped(b[Len(b)]) \o <<ETX>>
Last2(b) == Escaped(b[Len(b) - 1]) \o Last1(b)
Last3(b) == Escaped(b[Len(b) - 2]) \o Last2(b)
Last4(b) == Escaped(b[Len(b) - 3]) \o Last3(b)
Last5(b) == Escaped(b[Len(b) - 4]) \o Last4(b)

Rest(b, k) ==
    LET left == Len(b) + 1 - k
    IN  CASE left = 0 -> <<ETX>>
          [] left = 1 -> Last1(b)
          [] left = 2 -> Last2(b)
          [] left = 3 -> Last3(b)
          [] left = 4 -> Last4(b)
          [] left = 5 -> Last5(b)

\* A receiver that has data, and a DLE if neg, will have b at the end of rest.
Follows(b, rest, data, neg) ==
    \E k \in 1 .. Len(b) + 1 :
        /\ data = SubSeq(b, 1, k - 1)
        /\ \/ ~neg /\ rest = Rest(b, k)
           \/ /\ neg /\ k <= Len(b) /\ b[k] \in Specials
              /\ rest = <<Negated(b[k])>> \o Rest(b, k + 1)

Request == Bytes(<<call.id, Work, call.pay>>)

\* Bytes as the lines carry them, and as the device stores them.
Crc1s == {CrcLow(i) : i \in 1 .. MaxId}
Crc2s == {CrcHigh(Work, 1 + p) : p \in Payloads}
Wire    == {n \in Nat : n <= 70000} \cup Crc1s \cup Crc2s
Decoded == {n \in Int : n < 1000000} \cup Crc1s \cup Crc2s

\* Types.
TypeTool ==
    /\ call \in {NoCall} \cup [id : 1 .. MaxId, pay : Payloads]
    /\ lastId \in 0 .. MaxId
    /\ call # NoCall => lastId # 0
    /\ reader \in [data : Seq(Int), neg : BOOLEAN, alive : BOOLEAN]

TypeLines ==
    /\ toDevice \in Seq(Wire) /\ rx \in Seq(Wire) /\ tx \in Seq(Int)
    /\ ovf \in BOOLEAN /\ (~ovf => Len(rx) < RxSize)
    /\ Len(rx) <= RxSize /\ Len(tx) <= TxSize

TypeServer ==
    /\ packet \in [state : {"begin", "progress"}, data : Seq(Decoded), neg : BOOLEAN]
    /\ packet.state = "begin" => ~packet.neg
    /\ main \in Places
    /\ msg \in {NoMsg} \cup [id : 1 .. MaxId, pay : Payloads]
    /\ out \in Seq(Int) /\ (main = "send" <=> out # <<>>)

TypeFaults == damage \in 0 .. 2 /\ spoilt \in BOOLEAN

TypeInv == TypeTool /\ TypeLines /\ TypeServer /\ TypeFaults

-----------------------------------------------------------------------------
\* An undamaged session: nothing is asked, or the request is on its way, is being
\* executed, its answer is on its way, or with the tool.  In the call after a
\* damaged one bytes of that may stand before the request.
Silent == stream = <<>> /\ reply = <<>> /\ reader = Listen
Synced == stream = <<>> /\ packet.state = "begin"

AtEase ==
    /\ call = NoCall /\ answers = <<>> /\ main = "poll" /\ Silent
    /\ damage <= 1 => packet.state = "begin"

Waiting == call # NoCall /\ damage <= 1

Gathering ==
    \/ stream = Packet(<<call.id, Work, call.pay>>) /\ (damage = 0 => packet.state = "begin")
    \/ /\ packet.state = "progress"
       /\ \E n \in 0 .. Len(packet.data) :
            /\ damage = 0 => n = 0
            /\ Follows(Request, stream, SubSeq(packet.data, n + 1, Len(packet.data)), packet.neg)

Asking ==
    /\ Waiting /\ answers = <<>> /\ runs = <<>>
    /\ main = "poll" /\ reply = <<>> /\ reader = Listen
    /\ Gathering

Executing ==
    /\ Waiting /\ answers = <<>> /\ runs = <<>>
    /\ main = "execute" /\ Synced /\ Silent
    /\ damage = 0 => msg = [id |-> call.id, pay |-> call.pay]

Answers ==
    {Bytes(<<m, NoError, p>>) : m \in Numbers, p \in Small}
        \cup {Bytes(<<m, NotSupported>>) : m \in Numbers}

Done == damage = 0 => runs = <<call.pay>>

Answering ==
    /\ Waiting /\ answers = <<>> /\ Done
    /\ main \in {"send", "poll"} /\ Synced /\ reader.alive
    /\ \E a \in Answers :
        /\ damage = 0 => a = Bytes(<<call.id, NoError, call.pay>>)
        /\ \/ reader = Listen /\ reply = <<STX>> \o Rest(a, 1)
           \/ Follows(a, reply, reader.data, reader.neg)

Answered ==
    /\ Waiting /\ Done
    /\ main = "poll" /\ Synced /\ Silent
    /\ answers # <<>> /\ answers = <<answers[1]>>
    /\ damage = 0 => answers = <<[id |-> call.id, cmd |-> NoError, pay |-> <<call.pay>>]>>

Unspoilt == ~spoilt => AtEase \/ Asking \/ Executing \/ Answering \/ Answered

-----------------------------------------------------------------------------
\* Any session.  A packet under way to the device, or one that can still begin,
\* and an answer long enough to be one exclude each other.
Begun == packet.state = "progress"
Started1 == \E i \in 1 .. Len(stream) : stream[i] = STX
Armed == Begun \/ Started1

Left == Len(reader.data) + Len(reply)
Replying == main = "execute" \/ Left >= 5

OneEnd == \A i \in 1 .. Len(reply) : reply[i] = ETX => i = Len(reply)

Turns ==
    /\ Armed => ~Replying /\ answers = <<>> /\ (spoilt => call # NoCall)
    /\ Armed /\ call # NoCall => runs = <<>>
    /\ Replying => answers = <<>> /\ call # NoCall /\ OneEnd
    /\ answers # <<>> => answers = <<answers[1]>> /\ call # NoCall
    /\ Armed \/ answers # <<>> \/ call = NoCall => Left <= 2
    /\ main = "execute" => runs = <<>> /\ msg # NoMsg /\ msg.pay = call.pay /\ reply = <<>>
    /\ main = "dead" => spoilt

\* No packet begins behind the end of one.
Once(s, begun) ==
    \A j, k \in 1 .. Len(s) :
        s[j] = ETX /\ s[k] = STX /\ j < k
            => ~begun /\ \A i \in 1 .. j : s[i] # STX

\* The second bytes of a CRC in a packet under way are those of the call: no
\* command is accepted but its own.
OwnCrc == CrcHigh(Work, 1 + call.pay)

Own(s) == \A j \in 1 .. Len(s) : s[j] \in Crc2s => s[j] = OwnCrc

OwnLine(s, begun, c) ==
    \A i, j \in 1 .. Len(s) :
        (begun \/ s[i] = STX) /\ i <= j /\ s[j] \in Crc2s => s[j] = c

OwnCrcs ==
    /\ call # NoCall => OwnLine(stream, Begun, OwnCrc)
    /\ spoilt /\ Begun => Own(packet.data)

\* Once the damage is over the stream ends with the end of a packet.
Ending ==
    LET n == Len(stream)
    IN  damage <= 1 =>
            /\ n = 0 => packet.state = "begin"
            /\ n = 1 => ~packet.neg
            /\ n >= 1 => stream[n] = ETX
            /\ n >= 2 => stream[n - 1] \notin Specials

LinkInv ==
    /\ TypeInv /\ Unspoilt /\ Turns
    /\ Once(stream, Begun)
    /\ OwnCrcs /\ Ending
-----------------------------------------------------------------------------
(***************************************************************************)
(* Sequences.                                                              *)
(***************************************************************************)
LEMMA ConsIs ==
  ASSUME NEW S, NEW x \in S, NEW s \in Seq(S)
  PROVE  /\ <<x>> \o s \in Seq(S) /\ <<x>> \o s # <<>>
         /\ Len(<<x>> \o s) = Len(s) + 1
         /\ Head(<<x>> \o s) = x /\ Tail(<<x>> \o s) = s
         /\ \A i \in 1 .. Len(s) + 1 : (<<x>> \o s)[i] = IF i = 1 THEN x ELSE s[i - 1]
<1>1. <<x>> \in Seq(S) /\ Len(<<x>>) = 1 /\ <<x>>[1] = x OBVIOUS
<1>2. /\ <<x>> \o s \in Seq(S)
      /\ Len(<<x>> \o s) = 1 + Len(s)
      /\ \A i \in 1 .. 1 + Len(s) :
            (<<x>> \o s)[i] = IF i <= 1 THEN <<x>>[i] ELSE s[i - 1]
  BY <1>1, ConcatProperties
<1>3. Len(s) \in Nat BY LenProperties
<1>4. <<x>> \o s # <<>> BY <1>2, <1>3
<1> DEFINE c == <<x>> \o s
<1>5. Tail(c) \in Seq(S) /\ Len(Tail(c)) = Len(c) - 1
      /\ \A i \in 1 .. Len(Tail(c)) : Tail(c)[i] = c[i + 1]
  BY <1>2, <1>4, HeadTailProperties
<1>6. Tail(c) = s
  <2>1. Len(Tail(c)) = Len(s) BY <1>2, <1>3, <1>5
  <2>2. \A i \in 1 .. Len(Tail(c)) : Tail(c)[i] = s[i]
    BY <1>2, <1>3, <1>5, <2>1
  <2> QED BY <2>1, <2>2, <1>5, SeqEqual
<1>7. Head(c) = x BY <1>1, <1>2, <1>3
<1> QED BY <1>1, <1>2, <1>3, <1>4, <1>6, <1>7

\* A byte that an interrupt or the main loop moves stays in the stream.
LEMMA Moved ==
  ASSUME NEW S, NEW s \in Seq(S), NEW t \in Seq(S), t # <<>>
  PROVE  Append(s, Head(t)) \o Tail(t) = s \o t
<1>1. Head(t) \in S /\ Tail(t) \in Seq(S) /\ Len(Tail(t)) = Len(t) - 1
      /\ \A i \in 1 .. Len(Tail(t)) : Tail(t)[i] = t[i + 1]
  BY HeadTailProperties
<1> DEFINE a == Append(s, Head(t))
<1>2. a \in Seq(S) /\ Len(a) = Len(s) + 1
      /\ \A i \in 1 .. Len(s) + 1 : a[i] = IF i <= Len(s) THEN s[i] ELSE Head(t)
  BY <1>1
<1>3. Len(s) \in Nat /\ Len(t) \in Nat \ {0} BY LenProperties, EmptySeq
<1>4. /\ a \o Tail(t) \in Seq(S) /\ Len(a \o Tail(t)) = Len(a) + Len(Tail(t))
      /\ \A i \in 1 .. Len(a) + Len(Tail(t)) :
            (a \o Tail(t))[i] = IF i <= Len(a) THEN a[i] ELSE Tail(t)[i - Len(a)]
  BY <1>1, <1>2, ConcatProperties
<1>5. /\ s \o t \in Seq(S) /\ Len(s \o t) = Len(s) + Len(t)
      /\ \A i \in 1 .. Len(s) + Len(t) : (s \o t)[i] = IF i <= Len(s) THEN s[i] ELSE t[i - Len(s)]
  BY ConcatProperties
<1>6. Len(a \o Tail(t)) = Len(s \o t) BY <1>1, <1>2, <1>3, <1>4, <1>5
<1>7. ASSUME NEW i \in 1 .. Len(a \o Tail(t))
      PROVE  (a \o Tail(t))[i] = (s \o t)[i]
  <2>0. i \in 1 .. Len(s) + Len(t) BY <1>5, <1>6
  <2>1. CASE i <= Len(s) BY <2>0, <2>1, <1>2, <1>3, <1>4, <1>5, <1>1
  <2>2. CASE i = Len(s) + 1
    <3>1. (a \o Tail(t))[i] = Head(t) BY <2>0, <2>2, <1>2, <1>3, <1>4, <1>1
    <3>2. (s \o t)[i] = t[1]
      <4>1. i - Len(s) = 1 BY <2>2, <1>3
      <4> QED BY <4>1, <2>0, <2>2, <1>3, <1>5
    <3> QED BY <3>1, <3>2
  <2>3. CASE i > Len(s) + 1
    <3>1. (a \o Tail(t))[i] = Tail(t)[i - Len(a)] BY <2>0, <2>3, <1>1, <1>2, <1>3, <1>4
    <3>2. i - Len(a) \in 1 .. Len(Tail(t)) BY <2>0, <2>3, <1>1, <1>2, <1>3
    <3>3. Tail(t)[i - Len(a)] = t[i - Len(a) + 1] BY <3>2, <1>1
    <3>4. i - Len(a) + 1 = i - Len(s) BY <1>2, <1>3, <2>0
    <3>5. (s \o t)[i] = t[i - Len(s)] BY <2>0, <2>3, <1>3, <1>5
    <3> QED BY <3>1, <3>3, <3>4, <3>5
  <2> QED BY <2>1, <2>2, <2>3, <2>0, <1>3
<1> HIDE DEF a
<1>8. a \o Tail(t) = s \o t BY <1>4, <1>5, <1>6, <1>7, SeqEqual
<1> QED BY <1>8 DEF a

LEMMA Taken ==
  ASSUME NEW S, NEW s \in Seq(S), NEW t \in Seq(S), s # <<>>
  PROVE  /\ s \o t \in Seq(S) /\ s \o t # <<>>
         /\ Head(s \o t) = Head(s) /\ Tail(s \o t) = Tail(s) \o t
<1>1. Head(s) \in S /\ Tail(s) \in Seq(S) /\ Len(Tail(s)) = Len(s) - 1
      /\ \A i \in 1 .. Len(Tail(s)) : Tail(s)[i] = s[i + 1]
  BY HeadTailProperties
<1>2. Len(s) \in Nat \ {0} /\ Len(t) \in Nat BY LenProperties, EmptySeq
<1> DEFINE c == s \o t
<1>3. /\ c \in Seq(S) /\ Len(c) = Len(s) + Len(t)
      /\ \A i \in 1 .. Len(s) + Len(t) : c[i] = IF i <= Len(s) THEN s[i] ELSE t[i - Len(s)]
  BY ConcatProperties
<1>4. c # <<>> BY <1>2, <1>3
<1>5. Tail(c) \in Seq(S) /\ Len(Tail(c)) = Len(c) - 1
      /\ \A i \in 1 .. Len(Tail(c)) : Tail(c)[i] = c[i + 1]
  BY <1>3, <1>4, HeadTailProperties
<1> DEFINE d == Tail(s) \o t
<1>6. /\ d \in Seq(S) /\ Len(d) = Len(Tail(s)) + Len(t)
      /\ \A i \in 1 .. Len(Tail(s)) + Len(t) :
            d[i] = IF i <= Len(Tail(s)) THEN Tail(s)[i] ELSE t[i - Len(Tail(s))]
  BY <1>1, ConcatProperties
<1>7. Len(Tail(c)) = Len(d) BY <1>1, <1>2, <1>3, <1>5, <1>6
<1>8. ASSUME NEW i \in 1 .. Len(Tail(c)) PROVE Tail(c)[i] = d[i]
  <2>0. i + 1 \in 1 .. Len(s) + Len(t) /\ i \in 1 .. Len(Tail(s)) + Len(t) /\ i \in Nat
    BY <1>1, <1>2, <1>3, <1>5
  <2>1. Tail(c)[i] = c[i + 1] BY <1>5
  <2>2. CASE i + 1 <= Len(s)
    <3>1. c[i + 1] = s[i + 1] BY <1>3, <2>0, <2>2
    <3>2. d[i] = Tail(s)[i] /\ i \in 1 .. Len(Tail(s)) BY <1>1, <1>2, <1>6, <2>0, <2>2
    <3> QED BY <2>1, <3>1, <3>2, <1>1
  <2>3. CASE ~(i + 1 <= Len(s))
    <3>1. c[i + 1] = t[i + 1 - Len(s)] BY <1>3, <2>0, <2>3
    <3>2. d[i] = t[i - Len(Tail(s))] BY <1>1, <1>2, <1>6, <2>0, <2>3
    <3>3. i + 1 - Len(s) = i - Len(Tail(s)) BY <1>1, <1>2, <2>0
    <3> QED BY <2>1, <3>1, <3>2, <3>3
  <2> QED BY <2>2, <2>3
<1>9. Head(c) = Head(s)
  <2>1. Head(c) = c[1] /\ Head(s) = s[1] BY <1>3, <1>2
  <2> QED BY <2>1, <1>2, <1>3
<1> HIDE DEF c, d
<1>10. Tail(c) = d BY <1>5, <1>6, <1>7, <1>8, SeqEqual
<1> QED BY <1>3, <1>4, <1>9, <1>10 DEF c, d

LEMMA Associates ==
  \A x, y, z \in Seq(Int) : (x \o y) \o z = x \o (y \o z)
<1> SUFFICES ASSUME NEW x \in Seq(Int), NEW y \in Seq(Int), NEW z \in Seq(Int)
             PROVE  (x \o y) \o z = x \o (y \o z)
  OBVIOUS
<1> DEFINE S == Int
<1>1. x \in Seq(S) /\ y \in Seq(S) /\ z \in Seq(S) OBVIOUS
<1> HIDE DEF S
<1> QED BY <1>1, ConcatAssociative, SMTT(30)


-----------------------------------------------------------------------------
(***************************************************************************)
(* Packets.                                                                *)
(***************************************************************************)
Small5(b) == b \in Seq(Int) /\ Len(b) <= 5

LEMMA EscapedIs ==
  ASSUME NEW v \in Int
  PROVE  /\ Negated(v) \in Int /\ Escaped(v) \in Seq(Int)
         /\ v \in Specials => Negated(v) \in {251, 252, 253} /\ Escaped(v) = <<DLE, Negated(v)>>
         /\ v \notin Specials => Escaped(v) = <<v>>
  BY DEF Negated, Escaped, Specials, STX, ETX, DLE

LEMMA UpTo5 ==
  ASSUME NEW n \in Nat, n <= 5
  PROVE  n \in 0 .. 5
  OBVIOUS

\* Induction over the bytes of a packet, from its end.
LEMMA FromTheEnd ==
  ASSUME NEW n \in 0 .. 5, NEW S, n + 1 \in S,
         \A k \in 1 .. n : k + 1 \in S => k \in S
  PROVE  \A k \in 1 .. n + 1 : k \in S
<1>1. n >= 1 => n \in S OBVIOUS
<1>2. n >= 2 => n - 1 \in S
  <2> SUFFICES ASSUME n >= 2 PROVE n - 1 \in S OBVIOUS
  <2>1. n - 1 \in 1 .. n /\ n - 1 + 1 = n OBVIOUS
  <2> QED BY <1>1, <2>1
<1>3. n >= 3 => n - 2 \in S
  <2> SUFFICES ASSUME n >= 3 PROVE n - 2 \in S OBVIOUS
  <2>1. n - 2 \in 1 .. n /\ n - 2 + 1 = n - 1 OBVIOUS
  <2> QED BY <1>2, <2>1
<1>4. n >= 4 => n - 3 \in S
  <2> SUFFICES ASSUME n >= 4 PROVE n - 3 \in S OBVIOUS
  <2>1. n - 3 \in 1 .. n /\ n - 3 + 1 = n - 2 OBVIOUS
  <2> QED BY <1>3, <2>1
<1>5. n >= 5 => n - 4 \in S
  <2> SUFFICES ASSUME n >= 5 PROVE n - 4 \in S OBVIOUS
  <2>1. n - 4 \in 1 .. n /\ n - 4 + 1 = n - 3 OBVIOUS
  <2> QED BY <1>4, <2>1
<1> QED BY <1>1, <1>2, <1>3, <1>4, <1>5

LEMMA RestUnfolds ==
  ASSUME NEW b, Small5(b)
  PROVE  /\ \A k \in 1 .. Len(b) + 1 : Rest(b, k) \in Seq(Int)
         /\ Rest(b, Len(b) + 1) = <<ETX>>
         /\ \A k \in 1 .. Len(b) : Rest(b, k) = Escaped(b[k]) \o Rest(b, k + 1)
<1>1. b \in Seq(Int) /\ Len(b) \in 0 .. 5 /\ \A i \in 1 .. Len(b) : b[i] \in Int
  <2>1. b \in Seq(Int) /\ Len(b) <= 5 BY DEF Small5
  <2>2. Len(b) \in Nat BY <2>1, LenProperties
  <2>3. \A i \in 1 .. Len(b) : b[i] \in Int BY <2>1, ElementOfSeq
  <2>4. Len(b) \in 0 .. 5 BY <2>1, <2>2, UpTo5
  <2> QED BY <2>1, <2>3, <2>4
<1> DEFINE n == Len(b)
<1>0. n \in 0 .. 5 BY <1>1
<1>2. Rest(b, n + 1) = <<ETX>> BY <1>1 DEF Rest
<1>3. \A k \in 1 .. n : Rest(b, k) = Escaped(b[k]) \o Rest(b, k + 1)
  <2> SUFFICES ASSUME NEW k \in 1 .. n PROVE Rest(b, k) = Escaped(b[k]) \o Rest(b, k + 1) OBVIOUS
  <2>1. CASE k = n
    <3>1. Rest(b, k) = Last1(b) BY <1>1, <2>1 DEF Rest
    <3> QED BY <1>2, <2>1, <3>1 DEF Last1
  <2>2. CASE k = n - 1
    <3>1. Rest(b, k) = Last2(b) /\ Rest(b, k + 1) = Last1(b) BY <1>1, <2>2 DEF Rest
    <3> QED BY <2>2, <3>1 DEF Last2
  <2>3. CASE k = n - 2
    <3>1. Rest(b, k) = Last3(b) /\ Rest(b, k + 1) = Last2(b) BY <1>1, <2>3 DEF Rest
    <3> QED BY <2>3, <3>1 DEF Last3
  <2>4. CASE k = n - 3
    <3>1. Rest(b, k) = Last4(b) /\ Rest(b, k + 1) = Last3(b) BY <1>1, <2>4 DEF Rest
    <3> QED BY <2>4, <3>1 DEF Last4
  <2>5. CASE k = n - 4
    <3>1. Rest(b, k) = Last5(b) /\ Rest(b, k + 1) = Last4(b) BY <1>1, <2>5 DEF Rest
    <3> QED BY <2>5, <3>1 DEF Last5
  <2>6. k = n \/ k = n - 1 \/ k = n - 2 \/ k = n - 3 \/ k = n - 4
    <3> HIDE DEF n
    <3> QED BY <1>0
  <2> QED BY <2>1, <2>2, <2>3, <2>4, <2>5, <2>6
<1>4. \A k \in 1 .. n : Escaped(b[k]) \in Seq(Int)
  <2> SUFFICES ASSUME NEW k \in 1 .. n PROVE Escaped(b[k]) \in Seq(Int) OBVIOUS
  <2>1. b[k] \in Int BY <1>1
  <2> QED BY <2>1, EscapedIs
<1> DEFINE In == {k \in 1 .. n + 1 : Rest(b, k) \in Seq(Int)}
<1>5. \A k \in 1 .. n : k + 1 \in In => k \in In
  <2> SUFFICES ASSUME NEW k \in 1 .. n, Rest(b, k + 1) \in Seq(Int) PROVE k \in In OBVIOUS
  <2>1. Rest(b, k) \in Seq(Int) BY <1>3, <1>4, ConcatProperties
  <2>2. k \in 1 .. n + 1
    <3> HIDE DEF n
    <3> QED BY <1>0
  <2> QED BY <2>1, <2>2
<1>6. n + 1 \in In
  <2>1. n + 1 \in 1 .. n + 1
    <3> HIDE DEF n
    <3> QED BY <1>0
  <2>2. <<ETX>> \in Seq(Int) BY DEF ETX
  <2> QED BY <1>2, <2>1, <2>2
<1>9. \A k \in 1 .. n + 1 : k \in In
  <2> HIDE DEF In, n
  <2> QED BY <1>0, <1>5, <1>6, FromTheEnd
<1> QED BY <1>2, <1>3, <1>9 DEF In

\* What the rest of a packet is made of: one ETX, at the end, before it no DLE
\* and nowhere an STX, and between them the bytes, or their negation.
Tidy(s, b) ==
    /\ s \in Seq(Int) /\ s # <<>> /\ s[Len(s)] = ETX
    /\ \A i \in 1 .. Len(s) :
        /\ s[i] # STX /\ (s[i] = ETX => i = Len(s))
        /\ s[i] \in {ETX, DLE, 251, 252, 253} \/ \E j \in 1 .. Len(b) : s[i] = b[j]
    /\ Len(s) >= 2 => s[Len(s) - 1] \notin Specials

LEMMA TidyCons ==
  ASSUME NEW b, NEW s, Tidy(s, b), NEW v \in Int, v \notin {STX, ETX}, v = DLE => Len(s) >= 2,
         v \in {DLE, 251, 252, 253} \/ \E j \in 1 .. Len(b) : v = b[j]
  PROVE  Tidy(<<v>> \o s, b)
<1> DEFINE t == <<v>> \o s
<1>1. s \in Seq(Int) /\ s # <<>> /\ s[Len(s)] = ETX BY DEF Tidy
<1>2. PICK n : n = Len(s) OBVIOUS
<1>3. n \in Nat \ {0} BY <1>1, <1>2, EmptySeq
<1>4. /\ t \in Seq(Int) /\ t # <<>> /\ Len(t) = n + 1
      /\ \A i \in 1 .. n + 1 : t[i] = IF i = 1 THEN v ELSE s[i - 1]
  BY <1>1, <1>2, ConsIs
<1> HIDE DEF t
<1>5. t[n + 1] = ETX BY <1>1, <1>2, <1>3, <1>4
<1>6. \A i \in 1 .. n : /\ s[i] # STX /\ (s[i] = ETX => i = n)
                        /\ s[i] \in {ETX, DLE, 251, 252, 253} \/ \E j \in 1 .. Len(b) : s[i] = b[j]
  BY <1>2 DEF Tidy
<1>7. ASSUME NEW i \in 1 .. n + 1
      PROVE  /\ t[i] # STX /\ (t[i] = ETX => i = n + 1)
             /\ t[i] \in {ETX, DLE, 251, 252, 253} \/ \E j \in 1 .. Len(b) : t[i] = b[j]
  <2>1. CASE i = 1
    <3>1. t[i] = v BY <1>3, <1>4, <2>1
    <3> QED BY <3>1 DEF STX, ETX, DLE
  <2>2. CASE i # 1
    <3>1. t[i] = s[i - 1] /\ i - 1 \in 1 .. n BY <1>3, <1>4, <2>2
    <3>2. (s[i - 1] = ETX => i - 1 = n) BY <3>1, <1>6
    <3>3. i - 1 = n => i = n + 1 BY <1>3
    <3> QED BY <3>1, <3>2, <3>3, <1>6
  <2> QED BY <2>1, <2>2
<1>8. t[n] \notin Specials
  <2>1. CASE n = 1
    <3>1. t[n] = v BY <2>1, <1>3, <1>4
    <3>2. v = DLE => n >= 2 BY <1>2
    <3>3. v # DLE BY <2>1, <3>2
    <3> QED BY <3>1, <3>3 DEF Specials
  <2>2. CASE n # 1
    <3>1. t[n] = s[n - 1] BY <2>2, <1>3, <1>4
    <3>2. n >= 2 BY <2>2, <1>3
    <3>3. Len(s) >= 2 => s[Len(s) - 1] \notin Specials BY DEF Tidy
    <3>4. n >= 2 => s[n - 1] \notin Specials BY <1>2, <3>3, Zenon
    <3> QED BY <3>1, <3>2, <3>3, <3>4
  <2> QED BY <2>1, <2>2
<1>9. Len(t) - 1 = n BY <1>3, <1>4
<1>10. Len(t) = n + 1 BY <1>4
<1>11. t[Len(t)] = ETX /\ t[Len(t) - 1] \notin Specials BY <1>5, <1>8, <1>9, <1>10, Zenon
<1>12. \A i \in 1 .. Len(t) :
         /\ t[i] # STX /\ (t[i] = ETX => i = Len(t))
         /\ t[i] \in {ETX, DLE, 251, 252, 253} \/ \E j \in 1 .. Len(b) : t[i] = b[j]
  <2> SUFFICES ASSUME NEW i \in 1 .. Len(t)
               PROVE  /\ t[i] # STX /\ (t[i] = ETX => i = Len(t))
                      /\ \/ t[i] \in {ETX, DLE, 251, 252, 253}
                         \/ \E j \in 1 .. Len(b) : t[i] = b[j]
    OBVIOUS
  <2>1. i \in 1 .. n + 1 BY <1>10, Zenon
  <2>2. t[i] # STX /\ (t[i] = ETX => i = n + 1) BY <1>7, <2>1, Zenon
  <2>3. t[i] \in {ETX, DLE, 251, 252, 253} \/ \E j \in 1 .. Len(b) : t[i] = b[j]
    BY <1>7, <2>1, Zenon
  <2> QED BY <1>10, <2>2, <2>3, Zenon
<1>13. Tidy(t, b) BY <1>4, <1>11, <1>12, Zenon DEF Tidy
<1> QED BY <1>13 DEF t

LEMMA RestTidy ==
  ASSUME NEW b, Small5(b)
  PROVE  \A k \in 1 .. Len(b) + 1 : Tidy(Rest(b, k), b)
<1>1. PICK n : n = Len(b) OBVIOUS
<1>2. n \in 0 .. 5
  <2>1. n \in Nat BY <1>1, LenProperties DEF Small5
  <2> QED BY <2>1, <1>1, UpTo5 DEF Small5
<1> DEFINE T == {k \in 1 .. n + 1 : Tidy(Rest(b, k), b)}
<1>3. n + 1 \in T
  <2>1. Tidy(<<ETX>>, b) BY DEF Tidy, STX, ETX
  <2>2. n + 1 \in 1 .. n + 1 BY <1>2
  <2> QED BY <1>1, <2>1, <2>2, RestUnfolds
<1>4. ASSUME NEW k \in 1 .. n, k + 1 \in T PROVE k \in T
  <2> DEFINE r == Rest(b, k + 1)
             v == b[k]
  <2>1. Tidy(r, b) BY <1>4
  <2>2. Rest(b, k) = Escaped(v) \o r BY <1>1, RestUnfolds
  <2>3. v \in Int BY <1>1, ElementOfSeq DEF Small5
  <2>4. r \in Seq(Int) BY <2>1 DEF Tidy
  <2>5. k \in 1 .. n + 1 BY <1>2
  <2>6. CASE v \notin Specials
    <3>1. Rest(b, k) = <<v>> \o r BY <2>2, <2>3, <2>6, EscapedIs
    <3>2. \E j \in 1 .. Len(b) : v = b[j] BY <1>1
    <3>3. v \notin {STX, ETX} /\ v # DLE BY <2>6 DEF Specials
    <3> HIDE DEF r, v
    <3>4. Tidy(<<v>> \o r, b) BY <2>1, <2>3, <3>2, <3>3, TidyCons
    <3> QED BY <2>5, <3>1, <3>4
  <2>7. CASE v \in Specials
    <3> DEFINE m == Negated(v)
               u == <<m>> \o r
    <3>1. m \in {251, 252, 253} /\ Escaped(v) = <<DLE, m>> BY <2>3, <2>7, EscapedIs
    <3>2. Rest(b, k) = <<DLE>> \o u
      <4>1. <<DLE, m>> = <<DLE>> \o <<m>> OBVIOUS
      <4>2. <<DLE>> \in Seq(Int) /\ <<m>> \in Seq(Int) BY <3>1 DEF DLE
      <4> HIDE DEF m
      <4> QED BY <2>2, <2>4, <3>1, <4>1, <4>2, ConcatAssociative
    <3> HIDE DEF r, v, m
    <3>3. m \in Int /\ m \notin {STX, ETX} /\ m # DLE /\ m \in {DLE, 251, 252, 253}
      BY <3>1 DEF STX, ETX, DLE
    <3>4. Tidy(u, b) BY <2>1, <3>3, TidyCons
    <3>5. Len(u) >= 2
      <4>1. Len(u) = Len(r) + 1 BY <2>4, <3>3, ConsIs
      <4>2. Len(r) \in Nat \ {0} BY <2>1, EmptySeq DEF Tidy
      <4> QED BY <4>1, <4>2
    <3>6. DLE \in Int /\ DLE \notin {STX, ETX} /\ DLE \in {DLE, 251, 252, 253} BY DEF STX, ETX, DLE
    <3> HIDE DEF u
    <3>7. Tidy(<<DLE>> \o u, b) BY <3>4, <3>5, <3>6, TidyCons
    <3> QED BY <2>5, <3>2, <3>7
  <2> QED BY <2>6, <2>7
<1>5. \A k \in 1 .. n + 1 : k \in T
  <2> HIDE DEF T
  <2> QED BY <1>2, <1>3, <1>4, FromTheEnd
<1> QED BY <1>1, <1>5

\* A packet is its STX and the rest.
LEMMA RestCase ==
  ASSUME NEW b, Small5(b), NEW k \in 1 .. Len(b)
  PROVE  /\ b[k] \in Int /\ k + 1 \in 1 .. Len(b) + 1
         /\ b[k] \notin Specials => Rest(b, k) = <<b[k]>> \o Rest(b, k + 1)
         /\ b[k] \in Specials =>
                /\ Negated(b[k]) \in {251, 252, 253}
                /\ Rest(b, k) = <<DLE>> \o (<<Negated(b[k])>> \o Rest(b, k + 1))
<1>1. b[k] \in Int BY ElementOfSeq DEF Small5
<1>2. PICK n : n = Len(b) OBVIOUS
<1>3. n \in Nat BY <1>2, LenProperties DEF Small5
<1>4. k + 1 \in 1 .. n + 1 /\ k \in 1 .. n BY <1>2, <1>3
<1>5. Rest(b, k) = Escaped(b[k]) \o Rest(b, k + 1) BY RestUnfolds
<1>6. Rest(b, k + 1) \in Seq(Int) BY <1>2, <1>4, RestUnfolds
<1>7. CASE b[k] \notin Specials
  <2>1. Escaped(b[k]) = <<b[k]>> BY <1>1, <1>7, EscapedIs
  <2> QED BY <1>1, <1>2, <1>4, <1>5, <1>7, <2>1
<1>8. CASE b[k] \in Specials
  <2> DEFINE m == Negated(b[k])
  <2>1. m \in {251, 252, 253} /\ Escaped(b[k]) = <<DLE, m>> BY <1>1, <1>8, EscapedIs
  <2>2. <<DLE, m>> = <<DLE>> \o <<m>> OBVIOUS
  <2>3. <<DLE>> \in Seq(Int) /\ <<m>> \in Seq(Int) BY <2>1 DEF DLE
  <2> HIDE DEF m
  <2>4. Rest(b, k) = <<DLE>> \o (<<m>> \o Rest(b, k + 1))
    BY <1>5, <1>6, <2>1, <2>2, <2>3, ConcatAssociative
  <2> QED BY <1>1, <1>2, <1>4, <1>8, <2>1, <2>4 DEF m
<1> QED BY <1>7, <1>8

\* The data grows by the next byte.
LEMMA Grows ==
  ASSUME NEW b \in Seq(Int), NEW k \in 1 .. Len(b)
  PROVE  /\ SubSeq(b, 1, k - 1) \in Seq(Int) /\ SubSeq(b, 1, k) \in Seq(Int)
         /\ Len(SubSeq(b, 1, k - 1)) = k - 1
         /\ Append(SubSeq(b, 1, k - 1), b[k]) = SubSeq(b, 1, k)
<1>1. PICK n : n = Len(b) OBVIOUS
<1>2. n \in Nat /\ \A i \in 1 .. n : b[i] \in Int BY <1>1, LenProperties, ElementOfSeq
<1>3. k \in Int /\ k - 1 \in Int /\ k \in 1 .. n /\ 1 <= k BY <1>1, <1>2
<1>4. \A i \in 1 .. k : b[i] \in Int BY <1>2, <1>3
<1>5. \A i \in 1 .. k - 1 : b[i] \in Int BY <1>2, <1>3
<1> DEFINE s == SubSeq(b, 1, k - 1)
           t == SubSeq(b, 1, k)
<1>6. /\ s \in Seq(Int) /\ Len(s) = IF 1 <= k - 1 THEN k - 1 - 1 + 1 ELSE 0
      /\ \A i \in 1 .. k - 1 - 1 + 1 : s[i] = b[1 + i - 1]
  BY <1>3, <1>5, SubSeqProperties
<1>7. /\ t \in Seq(Int) /\ Len(t) = IF 1 <= k THEN k - 1 + 1 ELSE 0
      /\ \A i \in 1 .. k - 1 + 1 : t[i] = b[1 + i - 1]
  BY <1>3, <1>4, SubSeqProperties
<1> HIDE DEF s, t
<1>8. Len(s) = k - 1 BY <1>3, <1>6
<1>9. Len(t) = k BY <1>3, <1>7
<1>10. \A i \in 1 .. k - 1 : s[i] = b[i] BY <1>3, <1>6
<1>11. \A i \in 1 .. k : t[i] = b[i] BY <1>3, <1>7
<1>12. b[k] \in Int BY <1>2, <1>3
<1> DEFINE a == Append(s, b[k])
<1>13. a \in Seq(Int) /\ Len(a) = k /\ \A i \in 1 .. k : a[i] = IF i = k THEN b[k] ELSE s[i]
  BY <1>3, <1>6, <1>8, <1>12
<1> HIDE DEF a
<1>14. ASSUME NEW i \in 1 .. k PROVE a[i] = t[i]
  <2>1. CASE i = k BY <2>1, <1>3, <1>11, <1>13
  <2>2. CASE i # k
    <3>1. i \in 1 .. k - 1 BY <2>2, <1>3
    <3>2. a[i] = s[i] BY <2>2, <1>13
    <3> QED BY <3>1, <3>2, <1>10, <1>11
  <2> QED BY <2>1, <2>2
<1>15. a = t BY <1>7, <1>9, <1>13, <1>14, SeqEqual
<1> QED BY <1>6, <1>7, <1>8, <1>15 DEF s, t, a

LEMMA FollowsFirst ==
  ASSUME NEW b, Small5(b)
  PROVE  Follows(b, Rest(b, 1), <<>>, FALSE)
<1>1. PICK n : n = Len(b) OBVIOUS
<1>2. n \in Nat BY <1>1, LenProperties DEF Small5
<1>3. 1 \in 1 .. Len(b) + 1 BY <1>1, <1>2
<1>4. SubSeq(b, 1, 1 - 1) = <<>> BY SubSeqEmpty
<1> QED BY <1>3, <1>4 DEF Follows

\* A byte read brings the receiver one byte further, and the ETX to the end.
Next2(neg, h) == IF neg THEN Negated(h) ELSE h

\* One more of those bytes is taken.
Stepped(b, rest, data, neg) ==
    /\ rest \in Seq(Int) /\ rest # <<>> /\ data \in Seq(Int) /\ Len(data) <= Len(b)
    /\ Head(rest) \in Int
    /\ ~neg => Head(rest) # STX
    /\ ~neg /\ Head(rest) = ETX => data = b /\ Tail(rest) = <<>>
    /\ ~neg /\ Head(rest) = DLE => Follows(b, Tail(rest), data, TRUE)
    /\ neg \/ Head(rest) \notin Specials
           => Follows(b, Tail(rest), Append(data, Next2(neg, Head(rest))), FALSE)
    /\ ~neg /\ Len(data) >= Len(b) - 1 => Len(rest) <= 3

LEMMA FollowsStep ==
  ASSUME NEW b, Small5(b), NEW rest, NEW data, NEW neg \in BOOLEAN,
         Follows(b, rest, data, neg)
  PROVE  Stepped(b, rest, data, neg)
<1> USE DEF Stepped
<1>1. PICK n : n = Len(b) OBVIOUS
<1>2. n \in Nat /\ b \in Seq(Int) BY <1>1, LenProperties DEF Small5
<1>3. PICK k \in 1 .. n + 1 :
        /\ data = SubSeq(b, 1, k - 1)
        /\ \/ ~neg /\ rest = Rest(b, k)
           \/ /\ neg /\ k <= n /\ b[k] \in Specials
              /\ rest = <<Negated(b[k])>> \o Rest(b, k + 1)
  BY <1>1 DEF Follows
<1>4. CASE k = n + 1
  <2>1. ~neg /\ rest = <<ETX>> BY <1>1, <1>2, <1>3, <1>4, RestUnfolds
  <2>2. data = b
    <3>1. k - 1 = n BY <1>2, <1>4
    <3> QED BY <3>1, <1>1, <1>2, <1>3, SubSeqFull
  <2>3. Head(rest) = ETX /\ Tail(rest) = <<>> /\ rest # <<>> /\ rest \in Seq(Int) /\ Len(rest) = 1
    BY <2>1 DEF ETX
  <2>4. ETX \in Int /\ ETX # STX /\ ETX # DLE /\ ETX \in Specials BY DEF ETX, STX, DLE, Specials
  <2>5. Len(data) <= Len(b) BY <1>1, <1>2, <2>2
  <2>6. Len(rest) <= 3 BY <2>3
  <2> HIDE DEF Follows
  <2> QED BY <1>2, <2>1, <2>2, <2>3, <2>4, <2>5, <2>6
<1>5. CASE k \in 1 .. n
  <2>1. k \in 1 .. Len(b) BY <1>1, <1>5
  <2> DEFINE r == Rest(b, k + 1)
             v == b[k]
  <2>2. /\ v \in Int /\ k + 1 \in 1 .. n + 1
        /\ v \notin Specials => Rest(b, k) = <<v>> \o r
        /\ v \in Specials => /\ Negated(v) \in {251, 252, 253}
                             /\ Rest(b, k) = <<DLE>> \o (<<Negated(v)>> \o r)
    BY <1>1, <2>1, RestCase, SMTT(30)
  <2>3. r \in Seq(Int) BY <1>1, <2>2, RestUnfolds
  <2>4. /\ data \in Seq(Int) /\ Len(data) = k - 1 /\ Append(data, v) = SubSeq(b, 1, k)
    BY <1>2, <1>3, <2>1, Grows
  <2>5. Len(data) <= Len(b) BY <1>1, <1>2, <1>5, <2>4
  <2>6. Len(data) >= Len(b) - 1 => k = n
    <3>1. k - 1 >= n - 1 => k = n BY <1>2, <1>5
    <3> QED BY <3>1, <2>4, <1>1
  <2>7. k = n => r = <<ETX>> BY <1>1, RestUnfolds
  <2>8. Follows(b, r, SubSeq(b, 1, k), FALSE)
    <3>1. k + 1 - 1 = k BY <1>5
    <3> QED BY <1>1, <2>2, <3>1 DEF Follows
  <2>9. Specials = {STX, ETX, DLE} BY DEF Specials
  <2>10. Len(<<ETX>>) = 1 OBVIOUS
  <2>11. CASE ~neg /\ v \notin Specials
    <3>1. rest = <<v>> \o r BY <1>3, <2>2, <2>11
    <3>2. rest \in Seq(Int) /\ rest # <<>> /\ Head(rest) = v /\ Tail(rest) = r /\ Len(rest) = Len(r) + 1
      <4> HIDE DEF v, r
      <4> QED BY <2>2, <2>3, <3>1, ConsIs, SMTT(30)
    <3>3. Next2(neg, v) = v BY <2>11 DEF Next2
    <3>4. Follows(b, r, Append(data, v), FALSE) BY <2>4, <2>8
    <3>5. k = n => Len(rest) <= 3
      <4> SUFFICES ASSUME k = n PROVE Len(rest) <= 3 OBVIOUS
      <4>1. Len(r) = 1 BY <2>7, <2>10, Zenon
      <4>2. Len(rest) = 1 + 1 BY <4>1, <3>2, Zenon
      <4> QED BY <4>2
    <3> HIDE DEF v, r
    <3> QED BY <2>2, <2>4, <2>5, <2>6, <2>9, <2>11, <3>2, <3>3, <3>4, <3>5
  <2>12. CASE ~neg /\ v \in Specials
    <3> DEFINE u == <<Negated(v)>> \o r
    <3>1. rest = <<DLE>> \o u /\ Negated(v) \in Int BY <1>3, <2>2, <2>12
    <3>2. u \in Seq(Int) /\ Len(u) = Len(r) + 1
      <4> HIDE DEF v, r
      <4> QED BY <2>3, <3>1, ConsIs
    <3>3. DLE \in Int /\ DLE # STX /\ DLE # ETX /\ DLE \in Specials BY DEF DLE, STX, ETX, Specials
    <3>4. Follows(b, u, data, TRUE)
      <4>1. k \in 1 .. Len(b) + 1 /\ k <= Len(b) BY <1>1, <1>2, <1>5
      <4> QED BY <4>1, <1>3, <2>12 DEF Follows
    <3> HIDE DEF u
    <3>5. rest \in Seq(Int) /\ rest # <<>> /\ Head(rest) = DLE /\ Tail(rest) = u /\ Len(rest) = Len(u) + 1
      BY <3>1, <3>2, <3>3, ConsIs
    <3>6. k = n => Len(rest) <= 3
      <4> SUFFICES ASSUME k = n PROVE Len(rest) <= 3 OBVIOUS
      <4>1. Len(r) = 1 BY <2>7, <2>10, Zenon
      <4>2. Len(rest) = 1 + 1 + 1 BY <4>1, <3>2, <3>5, Zenon
      <4> QED BY <4>2
    <3> HIDE DEF v, r
    <3> QED BY <2>4, <2>5, <2>6, <2>12, <3>3, <3>4, <3>5, <3>6
  <2>13. CASE neg
    <3> DEFINE m == Negated(v)
    <3>1. rest = <<m>> \o r /\ v \in Specials BY <1>3, <2>13
    <3>2. m \in Int /\ Negated(m) = v BY <2>2 DEF Negated
    <3>3. Follows(b, r, Append(data, v), FALSE) BY <2>4, <2>8
    <3> HIDE DEF v, r, m
    <3>4. rest \in Seq(Int) /\ rest # <<>> /\ Head(rest) = m /\ Tail(rest) = r
      BY <2>3, <3>1, <3>2, ConsIs
    <3>5. Next2(neg, m) = v BY <2>13, <3>2 DEF Next2
    <3> QED BY <2>4, <2>5, <2>13, <3>2, <3>3, <3>4, <3>5
  <2> QED BY <2>11, <2>12, <2>13
<1>6. k = n + 1 \/ k \in 1 .. n BY <1>2
<1> QED BY <1>4, <1>5, <1>6

LEMMA FollowsTidy ==
  ASSUME NEW b, Small5(b), NEW rest, NEW data, NEW neg \in BOOLEAN,
         Follows(b, rest, data, neg)
  PROVE  Tidy(rest, b)
<1>1. PICK k \in 1 .. Len(b) + 1 :
        \/ ~neg /\ rest = Rest(b, k)
        \/ /\ neg /\ k <= Len(b) /\ b[k] \in Specials
           /\ rest = <<Negated(b[k])>> \o Rest(b, k + 1)
  BY DEF Follows
<1>2. CASE ~neg BY <1>1, <1>2, RestTidy
<1>3. CASE neg
  <2>1. PICK n : n = Len(b) OBVIOUS
  <2>2. n \in Nat BY <2>1, LenProperties DEF Small5
  <2>3. k \in 1 .. n BY <1>1, <1>3, <2>1, <2>2
  <2>4. k \in 1 .. Len(b) BY <2>1, <2>3
  <2> DEFINE m == Negated(b[k])
             r == Rest(b, k + 1)
  <2>9. b[k] \in Specials /\ rest = <<m>> \o r BY <1>1, <1>3
  <2>8. k + 1 \in 1 .. Len(b) + 1 BY <2>4, RestCase
  <2>10. b[k] \in Int BY <2>4, ElementOfSeq DEF Small5
  <2>5. m \in {251, 252, 253} BY <2>9, <2>10, EscapedIs
  <2>6. Tidy(r, b) BY <2>8, RestTidy
  <2>7. m \in Int /\ m \notin {STX, ETX} /\ m # DLE /\ m \in {DLE, 251, 252, 253}
    BY <2>5 DEF STX, ETX, DLE
  <2> HIDE DEF m, r
  <2> QED BY <2>6, <2>7, <2>9, TidyCons
<1> QED BY <1>2, <1>3

\* FlattenSeq of the four or five bytes of a packet.
LEMMA FlattenIs ==
  ASSUME NEW ss, NEW n \in {4, 5}, Len(ss) = n
  PROVE  FlattenSeq(ss) =
           IF n = 4 THEN ((ss[1] \o ss[2]) \o ss[3]) \o ss[4]
           ELSE (((ss[1] \o ss[2]) \o ss[3]) \o ss[4]) \o ss[5]
<1> DEFINE cat(x, y) == x \o y
           Is(f) == f = [i \in 1 .. n |-> IF i = 1 THEN ss[i] ELSE cat(f[i - 1], ss[i])]
           f0 == CHOOSE f : Is(f)
           s2 == cat(ss[1], ss[2])
           s3 == cat(s2, ss[3])
           s4 == cat(s3, ss[4])
           s5 == cat(s4, ss[5])
           g == [i \in 1 .. n |-> IF i = 1 THEN ss[1] ELSE IF i = 2 THEN s2
                                  ELSE IF i = 3 THEN s3 ELSE IF i = 4 THEN s4 ELSE s5]
<1>1. FlattenSeq(ss) = f0[n]
  <2>1. Len(ss) # 0 OBVIOUS
  <2> QED BY <2>1 DEF FlattenSeq
<1> HIDE DEF cat
<1>2. Is(g)
  <2>1. /\ g[1] = ss[1] /\ g[2] = s2 /\ g[3] = s3 /\ g[4] = s4
        /\ n = 5 => g[5] = s5
    <3> HIDE DEF s2, s3, s4, s5
    <3> QED OBVIOUS
  <2>2. \A i \in 1 .. n : g[i] = IF i = 1 THEN ss[i] ELSE cat(g[i - 1], ss[i])
    <3> SUFFICES ASSUME NEW i \in 1 .. n PROVE g[i] = IF i = 1 THEN ss[i] ELSE cat(g[i - 1], ss[i])
      OBVIOUS
    <3> HIDE DEF g
    <3>1. i \in {1, 2, 3, 4} \/ (i = 5 /\ n = 5) OBVIOUS
    <3> HIDE DEF s2, s3, s4, s5
    <3>2. CASE i = 1 BY <2>1, <3>2
    <3>3. CASE i = 2 BY <2>1, <3>3 DEF s2
    <3>4. CASE i = 3 BY <2>1, <3>4 DEF s3
    <3>5. CASE i = 4 BY <2>1, <3>5 DEF s4
    <3>6. CASE i = 5 /\ n = 5 BY <2>1, <3>6 DEF s5
    <3> QED BY <3>1, <3>2, <3>3, <3>4, <3>5, <3>6
  <2>3. g = [i \in 1 .. n |-> g[i]] BY Zenon
  <2> HIDE DEF g
  <2>4. g = [i \in 1 .. n |-> IF i = 1 THEN ss[i] ELSE cat(g[i - 1], ss[i])] BY <2>2, <2>3, Zenon
  <2> QED BY <2>4
<1>3. Is(f0)
  <2> HIDE DEF g, Is
  <2> QED BY <1>2
<1> DEFINE h == f0
           F == [i \in 1 .. n |-> IF i = 1 THEN ss[i] ELSE cat(h[i - 1], ss[i])]
<1>4. h = F BY <1>3, Zenon
<1> HIDE DEF h
<1>5. F[1] = ss[1] OBVIOUS
<1>6. F[2] = cat(h[1], ss[2]) OBVIOUS
<1>7. F[3] = cat(h[2], ss[3]) OBVIOUS
<1>8. F[4] = cat(h[3], ss[4]) OBVIOUS
<1>9. n = 5 => F[5] = cat(h[4], ss[5]) OBVIOUS
<1> HIDE DEF F
<1>10. h[4] = s4 /\ (n = 5 => h[5] = s5) BY <1>4, <1>5, <1>6, <1>7, <1>8, <1>9, Zenon
<1>11. FlattenSeq(ss) = h[n] BY <1>1 DEF h
<1> QED BY <1>10, <1>11 DEF cat

LEMMA CrcsAre ==
  \A m, c \in Int :
    /\ CrcLow(m) \in Int /\ \A p \in Int : CrcHigh(c, p) \in Int
    /\ Crc(<<m, c>>) = <<CrcLow(m), CrcHigh(c, 0)>>
    /\ \A p \in Int : Crc(<<m, c, p>>) = <<CrcLow(m), CrcHigh(c, 1 + p)>>
<1> TAKE m, c \in Int
<1>1. CrcLow(m) \in Int /\ \A p \in Int : CrcHigh(c, p) \in Int BY SMT DEF CrcLow, CrcHigh
<1>2. <<m, c>>[1] = m /\ <<m, c>>[2] = c /\ Len(<<m, c>>) = 2 OBVIOUS
<1>3. \A p \in Int : <<m, c, p>>[1] = m /\ <<m, c, p>>[2] = c /\ <<m, c, p>>[3] = p /\ Len(<<m, c, p>>) = 3
  OBVIOUS
<1>4. 2 # 3 OBVIOUS
<1> QED BY <1>1, <1>2, <1>3, <1>4 DEF Crc

LEMMA BytesAre ==
  ASSUME NEW m \in Int, NEW c \in Int
  PROVE  /\ Bytes(<<m, c>>) = <<CrcLow(m), CrcHigh(c, 0), m, c>>
         /\ \A p \in Int : Bytes(<<m, c, p>>) = <<CrcLow(m), CrcHigh(c, 1 + p), m, c, p>>
<1>1. ASSUME NEW x \in Int, NEW y \in Int PROVE <<x, y>> \o <<m, c>> = <<x, y, m, c>>
  <2> DEFINE s == <<m, c>>
             w == <<x, y, m, c>>
  <2>1. /\ s \in Seq(Int) /\ Len(s) = 2 /\ w \in Seq(Int) /\ Len(w) = 4 /\ w[1] = x /\ w[2] = y
        /\ s[1] = m /\ w[3] = m /\ s[2] = c /\ w[4] = c
    OBVIOUS
  <2> HIDE DEF s, w
  <2> DEFINE u == <<x, y>>
             d == u \o s
  <2>0. u \in Seq(Int) /\ Len(u) = 2 /\ u[1] = x /\ u[2] = y OBVIOUS
  <2> HIDE DEF u
  <2>9. /\ d \in Seq(Int) /\ Len(d) = Len(u) + Len(s)
        /\ \A i \in 1 .. Len(u) + Len(s) : d[i] = IF i <= Len(u) THEN u[i] ELSE s[i - Len(u)]
    BY <2>0, <2>1, ConcatProperties
  <2>10. \A i \in 1 .. 2 + Len(s) : d[i] = IF i <= 2 THEN u[i] ELSE s[i - 2]
    BY <2>0, <2>9, Zenon
  <2> HIDE DEF d
  <2>2. /\ d \in Seq(Int) /\ Len(d) = Len(s) + 2 /\ d[1] = x /\ d[2] = y
        /\ \A i \in 1 .. Len(s) : d[i + 2] = s[i]
    <3>1. Len(s) \in Nat BY <2>1
    <3>2. d[1] = x /\ d[2] = y BY <2>0, <2>9, <3>1
    <3>3. ASSUME NEW i \in 1 .. Len(s) PROVE d[i + 2] = s[i]
      <4>1. i + 2 \in 1 .. 2 + Len(s) /\ ~(i + 2 <= 2) /\ i + 2 - 2 = i BY <3>1
      <4> QED BY <4>1, <2>10
    <3> QED BY <2>0, <2>9, <3>1, <3>2, <3>3
  <2>3. Len(d) = 4 /\ d[3] = s[1] /\ d[4] = s[2]
    BY <2>1, <2>2
  <2>4. \A i \in 1 .. 4 : i \in {1, 2, 3, 4} OBVIOUS
  <2>5. \A i \in 1 .. 4 : d[i] = w[i] BY <2>1, <2>2, <2>3, <2>4
  <2>6. d = w BY <2>1, <2>2, <2>3, <2>5, SeqEqual
  <2> QED BY <2>6 DEF s, w, d, u
<1>2. ASSUME NEW x \in Int, NEW y \in Int, NEW p \in Int PROVE <<x, y>> \o <<m, c, p>> = <<x, y, m, c, p>>
  <2> DEFINE s == <<m, c, p>>
             w == <<x, y, m, c, p>>
  <2>1. /\ s \in Seq(Int) /\ Len(s) = 3 /\ w \in Seq(Int) /\ Len(w) = 5 /\ w[1] = x /\ w[2] = y
        /\ s[1] = m /\ w[3] = m /\ s[2] = c /\ w[4] = c /\ s[3] = p /\ w[5] = p
    OBVIOUS
  <2> HIDE DEF s, w
  <2> DEFINE u == <<x, y>>
             d == u \o s
  <2>0. u \in Seq(Int) /\ Len(u) = 2 /\ u[1] = x /\ u[2] = y OBVIOUS
  <2> HIDE DEF u
  <2>9. /\ d \in Seq(Int) /\ Len(d) = Len(u) + Len(s)
        /\ \A i \in 1 .. Len(u) + Len(s) : d[i] = IF i <= Len(u) THEN u[i] ELSE s[i - Len(u)]
    BY <2>0, <2>1, ConcatProperties
  <2>10. \A i \in 1 .. 2 + Len(s) : d[i] = IF i <= 2 THEN u[i] ELSE s[i - 2]
    BY <2>0, <2>9, Zenon
  <2> HIDE DEF d
  <2>2. /\ d \in Seq(Int) /\ Len(d) = Len(s) + 2 /\ d[1] = x /\ d[2] = y
        /\ \A i \in 1 .. Len(s) : d[i + 2] = s[i]
    <3>1. Len(s) \in Nat BY <2>1
    <3>2. d[1] = x /\ d[2] = y BY <2>0, <2>9, <3>1
    <3>3. ASSUME NEW i \in 1 .. Len(s) PROVE d[i + 2] = s[i]
      <4>1. i + 2 \in 1 .. 2 + Len(s) /\ ~(i + 2 <= 2) /\ i + 2 - 2 = i BY <3>1
      <4> QED BY <4>1, <2>10
    <3> QED BY <2>0, <2>9, <3>1, <3>2, <3>3
  <2>3. Len(d) = 5 /\ d[3] = s[1] /\ d[4] = s[2] /\ d[5] = s[3]
    BY <2>1, <2>2
  <2>4. \A i \in 1 .. 5 : i \in {1, 2, 3, 4, 5} OBVIOUS
  <2>5. \A i \in 1 .. 5 : d[i] = w[i] BY <2>1, <2>2, <2>3, <2>4
  <2>6. d = w BY <2>1, <2>2, <2>3, <2>5, SeqEqual
  <2> QED BY <2>6 DEF s, w, d, u
<1>3. CrcHigh(c, 0) \in Int /\ CrcLow(m) \in Int /\ \A p \in Int : CrcHigh(c, 1 + p) \in Int
  <2>1. 0 \in Int /\ \A p \in Int : 1 + p \in Int OBVIOUS
  <2> QED BY <2>1, CrcsAre
<1>4. Bytes(<<m, c>>) = <<CrcLow(m), CrcHigh(c, 0)>> \o <<m, c>> BY CrcsAre DEF Bytes
<1>5. \A p \in Int : Bytes(<<m, c, p>>) = <<CrcLow(m), CrcHigh(c, 1 + p)>> \o <<m, c, p>>
  <2>1. \A p \in Int : Crc(<<m, c, p>>) = <<CrcLow(m), CrcHigh(c, 1 + p)>> BY CrcsAre, Zenon
  <2> QED BY <2>1, Zenon DEF Bytes
<1>6. <<CrcLow(m), CrcHigh(c, 0)>> \o <<m, c>> = <<CrcLow(m), CrcHigh(c, 0), m, c>>
  BY <1>1, <1>3
<1>7. ASSUME NEW p \in Int
      PROVE  <<CrcLow(m), CrcHigh(c, 1 + p)>> \o <<m, c, p>> = <<CrcLow(m), CrcHigh(c, 1 + p), m, c, p>>
  BY <1>2, <1>3
<1> QED BY <1>4, <1>5, <1>6, <1>7

LEMMA PacketIs ==
  ASSUME NEW body, NEW n \in {4, 5}, Bytes(body) \in Seq(Int), Len(Bytes(body)) = n
  PROVE  /\ Packet(body) = <<STX>> \o Rest(Bytes(body), 1)
         /\ Small5(Bytes(body))
<1> DEFINE b == Bytes(body)
           ss == [i \in 1 .. Len(b) |-> Escaped(b[i])]
           cat(x, y) == x \o y
<1>1. Packet(body) = <<STX>> \o FlattenSeq(ss) \o <<ETX>> BY DEF Packet, Bytes
<1>2. Small5(b) BY DEF Small5
<1>3. \A i \in 1 .. n : b[i] \in Int BY ElementOfSeq
<1>4. Len(b) = n OBVIOUS
<1>5. ss = [i \in 1 .. n |-> Escaped(b[i])] BY <1>4, Zenon
<1>6. \A i \in 1 .. n : Escaped(b[i]) \in Seq(Int) BY <1>3, EscapedIs
<1> HIDE DEF b
<1>7. Len(ss) = n BY <1>5
<1>8. \A i \in 1 .. n : ss[i] = Escaped(b[i]) BY <1>5
<1> HIDE DEF ss
<1> DEFINE e1 == Escaped(b[1])
           e2 == Escaped(b[2])
           e3 == Escaped(b[3])
           e4 == Escaped(b[4])
           e5 == Escaped(b[5])
           E == <<ETX>>
           X == <<STX>>
           r(k) == Rest(b, k)
           f4 == cat(cat(cat(e1, e2), e3), e4)
           F == FlattenSeq(ss)
<1>10. ss[1] = e1 /\ ss[2] = e2 /\ ss[3] = e3 /\ ss[4] = e4 /\ (n = 5 => ss[5] = e5) BY <1>8
<1>9. F = IF n = 4 THEN f4 ELSE cat(f4, e5)
  <2>1. F = IF n = 4 THEN cat(cat(cat(ss[1], ss[2]), ss[3]), ss[4])
            ELSE cat(cat(cat(cat(ss[1], ss[2]), ss[3]), ss[4]), ss[5])
    BY <1>7, FlattenIs
  <2> HIDE DEF cat
  <2>2. CASE n = 4 BY <2>1, <2>2, <1>10, Zenon
  <2>3. CASE n = 5
    <3>1. n # 4 BY <2>3
    <3> QED BY <2>1, <2>3, <3>1, <1>10, Zenon
  <2> QED BY <2>2, <2>3
<1>11. E \in Seq(Int) /\ X \in Seq(Int) BY DEF ETX, STX
<1>12. /\ e1 \in Seq(Int) /\ e2 \in Seq(Int) /\ e3 \in Seq(Int) /\ e4 \in Seq(Int)
       /\ n = 5 => e5 \in Seq(Int)
  BY <1>6
<1>13. /\ Rest(b, n + 1) = E
       /\ \A k \in 1 .. n : Rest(b, k) = cat(Escaped(b[k]), Rest(b, k + 1))
       /\ \A k \in 1 .. n + 1 : Rest(b, k) \in Seq(Int)
  BY <1>2, <1>4, RestUnfolds
<1>a. \A x, y \in Seq(Int) : cat(x, y) \in Seq(Int)
  BY ConcatProperties
<1>b. \A x, y, z \in Seq(Int) : cat(cat(x, y), z) = cat(x, cat(y, z))
  BY Associates
<1>c. Packet(body) = cat(cat(X, F), E) BY <1>1
<1> HIDE DEF cat
<1>14. /\ r(1) = cat(e1, r(2)) /\ r(2) = cat(e2, r(3)) /\ r(3) = cat(e3, r(4)) /\ r(4) = cat(e4, r(5))
  <2>1. /\ 1 \in 1 .. n /\ 2 \in 1 .. n /\ 3 \in 1 .. n /\ 4 \in 1 .. n
        /\ 1 + 1 = 2 /\ 2 + 1 = 3 /\ 3 + 1 = 4 /\ 4 + 1 = 5
    OBVIOUS
  <2>2. r(1) = cat(e1, r(2)) BY <1>13, <2>1, Zenon
  <2>3. r(2) = cat(e2, r(3)) BY <1>13, <2>1, Zenon
  <2>4. r(3) = cat(e3, r(4)) BY <1>13, <2>1, Zenon
  <2>5. r(4) = cat(e4, r(5)) BY <1>13, <2>1, Zenon
  <2> QED BY <2>2, <2>3, <2>4, <2>5
<1>15. r(5) \in Seq(Int)
  <2>1. 5 \in 1 .. n + 1 OBVIOUS
  <2> QED BY <1>13, <2>1, Zenon
<1>16. n = 4 => r(5) = E
  <2>1. 4 + 1 = 5 OBVIOUS
  <2> QED BY <1>13, <2>1, Zenon
<1>17. n = 5 => r(5) = cat(e5, E)
  <2>1. 5 \in 1 .. 5 /\ 5 + 1 = 6 OBVIOUS
  <2> QED BY <1>13, <2>1, Zenon
<1> HIDE DEF e1, e2, e3, e4, e5, E, X, r, F
<1>18. f4 \in Seq(Int) /\ \A s \in Seq(Int) : cat(f4, s) = cat(e1, cat(e2, cat(e3, cat(e4, s))))
  <2> DEFINE p == cat(e1, e2)
             q == cat(p, e3)
  <2>1. p \in Seq(Int) BY <1>12, <1>a
  <2>3. q \in Seq(Int) BY <2>1, <1>12, <1>a
  <2>5. cat(q, e4) \in Seq(Int) BY <2>3, <1>12, <1>a
  <2>7. ASSUME NEW s \in Seq(Int) PROVE cat(f4, s) = cat(e1, cat(e2, cat(e3, cat(e4, s))))
    <3>1. cat(e4, s) \in Seq(Int) BY <1>12, <1>a
    <3>2. cat(e3, cat(e4, s)) \in Seq(Int) BY <3>1, <1>12, <1>a
    <3>3. cat(p, cat(e3, cat(e4, s))) = cat(e1, cat(e2, cat(e3, cat(e4, s))))
      BY <3>2, <1>12, <1>b
    <3> HIDE DEF p
    <3>4. cat(q, cat(e4, s)) = cat(p, cat(e3, cat(e4, s))) BY <3>1, <2>1, <1>12, <1>b
    <3> HIDE DEF q
    <3>5. cat(cat(q, e4), s) = cat(q, cat(e4, s)) BY <2>3, <1>12, <1>b
    <3>6. f4 = cat(q, e4) BY DEF p, q
    <3> QED BY <3>3, <3>4, <3>5, <3>6
  <2> QED BY <2>5, <2>7
<1> HIDE DEF f4
<1>20. cat(f4, r(5)) = r(1) BY <1>14, <1>15, <1>18
<1>21. F \in Seq(Int) /\ cat(F, E) = r(1)
  <2>1. CASE n = 4 BY <2>1, <1>16, <1>18, <1>9, <1>20
  <2>2. CASE n = 5
    <3>1. F = cat(f4, e5) BY <2>2, <1>9
    <3>2. F \in Seq(Int) BY <2>2, <3>1, <1>12, <1>18, <1>a
    <3>3. cat(F, E) = cat(f4, cat(e5, E)) BY <2>2, <3>1, <1>11, <1>12, <1>18, <1>b
    <3> QED BY <2>2, <3>2, <3>3, <1>17, <1>20
  <2> QED BY <2>1, <2>2
<1>22. cat(cat(X, F), E) = cat(X, r(1)) BY <1>11, <1>21, <1>b
<1> QED BY <1>c, <1>2, <1>22 DEF b, X, r, cat

-----------------------------------------------------------------------------
(***************************************************************************)
(* The values of bytes.                                                    *)
(***************************************************************************)
LEMMA Values ==
  /\ MaxId \in Nat /\ 1 <= MaxId /\ MaxId <= 65535
  /\ \A m : m \in Numbers <=> m \in Nat /\ m <= 65535
  /\ \A m \in 1 .. MaxId : m \in Nat /\ 1 <= m /\ m <= 65535
  /\ \A p \in Payloads : p \in Nat /\ p <= 255
  /\ \A v : v \in Small <=> v \in Nat /\ v <= 255
  /\ RxSize \in Nat /\ RxSize > 0 /\ TxSize \in Nat /\ TxSize > 0
<1>1. MESSAGE_MASK \in Nat BY DEF MESSAGE_MASK
<1>m. \A x \in Nat : x <= MESSAGE_MASK <=> x <= 65535 BY SMT DEF MESSAGE_MASK
<1>0. \A M \in Nat : \A x \in 1 .. M : x \in Nat /\ 1 <= x /\ x <= M OBVIOUS
<1> DEFINE top == 255
<1>2. top \in Nat /\ Small = 0 .. top BY DEF Small
<1>3. Payloads \subseteq 0 .. top BY LinkAssumption, Zenon DEF LinkAssumption
<1>4. MaxId \in 1 .. MESSAGE_MASK /\ RxSize \in Nat \ {0} /\ TxSize \in Nat \ {0}
  BY LinkAssumption, Zenon DEF LinkAssumption
<1>5. top = 255 OBVIOUS
<1> HIDE DEF top
<1>6. \A p \in Payloads : p \in Nat /\ p <= 255 BY <1>2, <1>3, <1>5
<1>7. \A v : v \in Small <=> v \in Nat /\ v <= 255 BY <1>2, <1>5
<1>8. \A m : m \in Numbers <=> m \in Nat /\ m <= 65535
  <2> SUFFICES ASSUME NEW m PROVE m \in Numbers <=> m \in Nat /\ m <= 65535 OBVIOUS
  <2>1. m \in Numbers => m \in Nat /\ m <= MESSAGE_MASK BY <1>1 DEF Numbers
  <2>2. ASSUME NEW k \in Nat, k <= 65535 PROVE k \in Numbers
    <3>1. k <= MESSAGE_MASK BY <2>2, <1>m
    <3>2. MESSAGE_MASK \in Nat BY <1>1
    <3> QED BY <3>1, <3>2 DEF Numbers
  <2>3. m \in Numbers => m \in Nat /\ m <= 65535 BY <2>1, <1>m
  <2> QED BY <2>2, <2>3
<1>9. MaxId \in Nat /\ 1 <= MaxId /\ MaxId <= 65535
  <2>1. MaxId \in Nat /\ 1 <= MaxId /\ MaxId <= MESSAGE_MASK BY <1>0, <1>1, <1>4, Zenon
  <2> QED BY <2>1, <1>m
<1>10. \A m \in 1 .. MaxId : m \in Nat /\ 1 <= m /\ m <= 65535 BY <1>9
<1> QED BY <1>4, <1>6, <1>7, <1>8, <1>9, <1>10

LEMMA WireIs ==
  /\ STX \in Wire /\ ETX \in Wire /\ DLE \in Wire /\ Junk \in Wire
  /\ {251, 252, 253} \subseteq Wire
  /\ Work \in Wire /\ Payloads \subseteq Wire
  /\ \A i \in 1 .. MaxId : i \in Wire /\ CrcLow(i) \in Wire
  /\ \A p \in Payloads : CrcHigh(Work, 1 + p) \in Wire
  /\ Wire \subseteq Int
<1>1. /\ MaxId \in Nat /\ 1 <= MaxId /\ MaxId <= 65535
      /\ \A p \in Payloads : p \in Nat /\ p <= 255
  BY Values
<1>2. STX \in Wire /\ ETX \in Wire /\ DLE \in Wire /\ Junk \in Wire /\ Work \in Wire
  BY SMT DEF Wire, STX, ETX, DLE, Junk, Work
<1>3. 251 \in Wire /\ 252 \in Wire /\ 253 \in Wire BY SMT DEF Wire
<1>4. Payloads \subseteq Wire BY <1>1, SMT DEF Wire
<1>5. \A i \in 1 .. MaxId : i \in Wire BY <1>1, SMT DEF Wire
<1>6. \A i \in 1 .. MaxId : CrcLow(i) \in Crc1s BY DEF Crc1s
<1>7. \A p \in Payloads : CrcHigh(Work, 1 + p) \in Crc2s BY DEF Crc2s
<1>8. Crc1s \subseteq Wire /\ Crc2s \subseteq Wire BY DEF Wire
<1>9. Crc1s \subseteq Int BY <1>1, SMT DEF Crc1s, CrcLow
<1>10. Crc2s \subseteq Int BY <1>1, SMT DEF Crc2s, CrcHigh, Work
<1>11. Wire \subseteq Int
  <2> SUFFICES ASSUME NEW v \in Wire PROVE v \in Int OBVIOUS
  <2>1. v \in Int \/ v \in Crc1s \/ v \in Crc2s BY DEF Wire
  <2> QED BY <2>1, <1>9, <1>10
<1>12. \A i \in 1 .. MaxId : i \in Wire /\ CrcLow(i) \in Wire BY <1>5, <1>6, <1>8, Zenon
<1>13. \A p \in Payloads : CrcHigh(Work, 1 + p) \in Wire BY <1>7, <1>8, Zenon
<1> QED BY <1>2, <1>3, <1>4, <1>11, <1>12, <1>13

\* No byte that is negated is taken for the second byte of a CRC.
LEMMA DecodedIs ==
  ASSUME NEW v \in Wire
  PROVE  v \in Decoded /\ Negated(v) \in Decoded /\ Negated(v) \notin Crc2s
<1>1. /\ MaxId \in Nat /\ 1 <= MaxId /\ MaxId <= 65535
      /\ \A p \in Payloads : p \in Nat /\ p <= 255
  BY Values
<1>2. (v \in Nat /\ v <= 70000) \/ v \in Crc1s \/ v \in Crc2s BY DEF Wire
<1>3. v \in Crc1s => v \in Int /\ v >= 1000000 BY <1>1, SMT DEF Crc1s, CrcLow
<1>4. v \in Crc2s => v \in Int /\ v >= 1000000 BY <1>1, SMT DEF Crc2s, CrcHigh, Work
<1>5. \A w \in Crc2s : w >= 1000000 BY <1>1, SMT DEF Crc2s, CrcHigh, Work
<1>6. v \in Decoded BY <1>2, SMT DEF Decoded
<1>7. Negated(v) \in Int /\ Negated(v) < 1000000 BY <1>2, <1>3, <1>4, SMT DEF Negated
<1>8. Negated(v) \in Decoded BY <1>7, SMT DEF Decoded
<1>9. Negated(v) \notin Crc2s BY <1>5, <1>7, SMT
<1> QED BY <1>6, <1>8, <1>9

LEMMA Retyped ==
  ASSUME NEW W, NEW s \in Seq(Int), \A i \in 1 .. Len(s) : s[i] \in W
  PROVE  s \in Seq(W)
<1>1. Len(s) \in Nat /\ s \in [1 .. Len(s) -> Int] BY LenProperties
<1>2. s \in [1 .. Len(s) -> W] BY <1>1
<1> QED BY <1>1, <1>2, SeqDef

\* The parts of a request: none but the second is taken for the second byte of a CRC.
LEMMA RequestIs ==
  ASSUME NEW m \in 1 .. MaxId, NEW p \in Payloads
  PROVE  LET b == Bytes(<<m, Work, p>>)
         IN  /\ b = <<CrcLow(m), CrcHigh(Work, 1 + p), m, Work, p>>
             /\ Small5(b) /\ Len(b) = 5 /\ b \in Seq(Wire)
             /\ b[2] = CrcHigh(Work, 1 + p) /\ b[3] = m /\ b[5] = p
             /\ \A i \in 1 .. 5 : b[i] \in Crc2s => b[i] = CrcHigh(Work, 1 + p)
             /\ \A i \in 1 .. 5 : b[i] \in Wire
             /\ Packet(<<m, Work, p>>) = <<STX>> \o Rest(b, 1)
<1> DEFINE b == Bytes(<<m, Work, p>>)
           x == CrcLow(m)
           y == CrcHigh(Work, 1 + p)
<1>1. /\ MaxId \in Nat /\ 1 <= MaxId /\ MaxId <= 65535
      /\ \A q \in Payloads : q \in Nat /\ q <= 255
  BY Values
<1>2. m \in Int /\ Work \in Int /\ p \in Int BY <1>1, SMT DEF Work
<1>3. b = <<x, y, m, Work, p>> BY <1>2, BytesAre
<1>4. x \in Wire /\ y \in Wire /\ m \in Wire /\ Work \in Wire /\ p \in Wire
  <2>1. p \in Wire BY WireIs
  <2> QED BY <2>1, WireIs
<1>5. x \notin Crc2s BY <1>1, SMT DEF Crc2s, CrcLow, CrcHigh, Work
<1>6. m \notin Crc2s /\ Work \notin Crc2s /\ p \notin Crc2s BY <1>1, SMT DEF Crc2s, CrcHigh, Work
<1>20. Wire \subseteq Int BY WireIs
<1> HIDE DEF x, y
<1>7. Len(b) = 5 /\ b[1] = x /\ b[2] = y /\ b[3] = m /\ b[4] = Work /\ b[5] = p BY <1>3
<1>8. b \in Seq(Wire)
  <2> HIDE DEF b
  <2> QED BY <1>3, <1>4
<1>9. b \in Seq(Int)
  <2> HIDE DEF b
  <2> QED BY <1>3, <1>4, <1>20
<1>10. 5 \in {4, 5} OBVIOUS
<1>11. Packet(<<m, Work, p>>) = <<STX>> \o Rest(b, 1) /\ Small5(b)
  BY <1>7, <1>9, <1>10, PacketIs
<1>12. \A i \in 1 .. 5 : i \in {1, 2, 3, 4, 5} OBVIOUS
<1> HIDE DEF b
<1>13. \A i \in 1 .. 5 : b[i] \in Crc2s => b[i] = y BY <1>5, <1>6, <1>7, <1>12, Zenon
<1>14. \A i \in 1 .. 5 : b[i] \in Wire BY <1>4, <1>7, <1>12, Zenon
<1> QED BY <1>3, <1>7, <1>8, <1>11, <1>13, <1>14 DEF b, x, y

\* Any packet: it begins with its only STX and ends with its only ETX.
Framed(s) ==
    /\ s \in Seq(Int) /\ Len(s) >= 2 /\ s[1] = STX /\ s[Len(s)] = ETX
    /\ \A i \in 2 .. Len(s) : s[i] # STX /\ (s[i] = ETX => i = Len(s))
    /\ Len(s) >= 3 => s[Len(s) - 1] \notin Specials

LEMMA TidyFramed ==
  ASSUME NEW b, NEW s, Tidy(s, b)
  PROVE  Framed(<<STX>> \o s)
<1> DEFINE t == <<STX>> \o s
           n == Len(s)
<1>1. s \in Seq(Int) /\ s # <<>> /\ s[n] = ETX BY DEF Tidy
<1>2. n \in Nat \ {0} BY <1>1, EmptySeq
<1>3. STX \in Int /\ STX # ETX BY DEF STX, ETX
<1>4. /\ t \in Seq(Int) /\ Len(t) = n + 1
      /\ \A i \in 1 .. n + 1 : t[i] = IF i = 1 THEN STX ELSE s[i - 1]
  BY <1>1, <1>3, ConsIs
<1>5. \A i \in 1 .. n : s[i] # STX /\ (s[i] = ETX => i = n) BY DEF Tidy
<1>6. n >= 2 => s[n - 1] \notin Specials BY DEF Tidy
<1> HIDE DEF t, n
<1>7. t[1] = STX /\ t[n + 1] = ETX BY <1>1, <1>2, <1>4
<1>8. ASSUME NEW i \in 2 .. n + 1 PROVE t[i] # STX /\ (t[i] = ETX => i = n + 1)
  <2>1. i - 1 \in 1 .. n /\ t[i] = s[i - 1] BY <1>2, <1>4
  <2>2. s[i - 1] # STX /\ (s[i - 1] = ETX => i - 1 = n) BY <2>1, <1>5
  <2> QED BY <2>1, <2>2, <1>2
<1>9. n + 1 >= 3 => t[n + 1 - 1] \notin Specials
  <2> SUFFICES ASSUME n + 1 >= 3 PROVE t[n + 1 - 1] \notin Specials OBVIOUS
  <2>1. n >= 2 /\ n + 1 - 1 = n /\ n \in 1 .. n + 1 /\ n # 1 BY <1>2
  <2>2. t[n] = s[n - 1] BY <2>1, <1>4
  <2> QED BY <2>1, <2>2, <1>6
<1>10. n + 1 >= 2 BY <1>2
<1> DEFINE P(k) == /\ k - 1 >= 1 /\ t[1] = STX /\ t[k] = ETX
                   /\ \A i \in 2 .. k : t[i] # STX /\ (t[i] = ETX => i = k)
                   /\ k >= 3 => t[k - 1] \notin Specials
<1>11. P(n + 1)
  <2>1. (n + 1) - 1 >= 1 BY <1>2
  <2>2. n + 1 >= 3 => t[(n + 1) - 1] \notin Specials
    <3>1. (n + 1) - 1 = n + 1 - 1 BY <1>2
    <3> QED BY <3>1, <1>9, Zenon
  <2>3. \A i \in 2 .. n + 1 : t[i] # STX /\ (t[i] = ETX => i = n + 1) BY <1>8
  <2> QED BY <1>7, <2>1, <2>2, <2>3, Zenon
<1>12. P(Len(t))
  <2> HIDE DEF P
  <2> QED BY <1>4, <1>11
<1>13. Len(t) >= 2 BY <1>4, <1>10
<1>14. Framed(t) BY <1>4, <1>12, <1>13 DEF Framed
<1> QED BY <1>14 DEF t

LEMMA RestFramed ==
  ASSUME NEW b, Small5(b), Len(b) \in {4, 5}
  PROVE  Framed(<<STX>> \o Rest(b, 1)) /\ Len(<<STX>> \o Rest(b, 1)) >= 3
<1> DEFINE r == Rest(b, 1)
<1>1. 1 \in 1 .. Len(b) + 1 OBVIOUS
<1>2. Tidy(r, b) BY <1>1, RestTidy
<1>3. Framed(<<STX>> \o r) BY <1>2, TidyFramed
<1>4. Follows(b, r, <<>>, FALSE) BY FollowsFirst
<1>5. Head(r) = ETX => <<>> = b
  <2>1. Stepped(b, r, <<>>, FALSE) BY <1>4, FollowsStep
  <2> QED BY <2>1 DEF Stepped
<1>6. b # <<>>
  <2>1. Len(<<>>) = 0 OBVIOUS
  <2>2. Len(b) # 0 OBVIOUS
  <2> QED BY <2>1, <2>2, Zenon
<1>7. r \in Seq(Int) /\ r # <<>> /\ r[Len(r)] = ETX BY <1>2 DEF Tidy
<1> HIDE DEF r
<1>8. Len(r) \in Nat \ {0} BY <1>7, EmptySeq
<1>9. Head(r) = r[1]
  <2>1. Len(r) >= 1 BY <1>8
  <2> QED BY <1>7, <2>1
<1>10. Len(r) # 1 BY <1>5, <1>6, <1>7, <1>9, Zenon
<1>11. Len(<<STX>> \o r) = Len(r) + 1
  <2>1. STX \in Int BY DEF STX
  <2> QED BY <1>7, <2>1, ConsIs
<1>12. Len(<<STX>> \o r) >= 3
  <2>1. \A n \in Nat \ {0} : n # 1 => n + 1 >= 3 OBVIOUS
  <2>2. Len(r) + 1 >= 3 BY <1>8, <1>10, <2>1
  <2> QED BY <1>11, <2>2, Zenon
<1> QED BY <1>3, <1>12 DEF r

\* Packets of two fields and of three.
Whole(body, n) ==
    /\ Small5(Bytes(body)) /\ Len(Bytes(body)) = n
    /\ Packet(body) = <<STX>> \o Rest(Bytes(body), 1)
    /\ Framed(Packet(body)) /\ Len(Packet(body)) >= 3
    /\ \A i \in 3 .. n : Bytes(body)[i] = body[i - 2]

LEMMA ShortPacket ==
  ASSUME NEW m \in Int, NEW c \in Int
  PROVE  Whole(<<m, c>>, 4)
<1> DEFINE body == <<m, c>>
           b == Bytes(body)
           x == CrcLow(m)
           y == CrcHigh(c, 0)
<1>1. b = <<x, y, m, c>> BY BytesAre
<1>2. 0 \in Int OBVIOUS
<1>3. x \in Int /\ y \in Int BY <1>2, CrcsAre
<1>8. body[1] = m /\ body[2] = c OBVIOUS
<1> HIDE DEF x, y, body
<1>4. Len(b) = 4 /\ b[3] = m /\ b[4] = c BY <1>1
<1>5. b \in Seq(Int)
  <2> HIDE DEF b
  <2> QED BY <1>1, <1>3
<1>6. 4 \in {4, 5} OBVIOUS
<1>7. Packet(body) = <<STX>> \o Rest(b, 1) /\ Small5(b)
  BY <1>4, <1>5, <1>6, PacketIs
<1> HIDE DEF b
<1>9. Framed(<<STX>> \o Rest(b, 1)) /\ Len(<<STX>> \o Rest(b, 1)) >= 3
  BY <1>4, <1>6, <1>7, RestFramed, Zenon
<1>10. \A i \in 3 .. 4 : b[i] = body[i - 2] BY <1>4, <1>8
<1> QED BY <1>4, <1>7, <1>9, <1>10, Zenon DEF Whole, b, body

LEMMA LongPacket ==
  ASSUME NEW m \in Int, NEW c \in Int
  PROVE  \A p \in Int : Whole(<<m, c, p>>, 5)
<1> TAKE p \in Int
<1> DEFINE body == <<m, c, p>>
           b == Bytes(body)
           x == CrcLow(m)
           y == CrcHigh(c, 1 + p)
<1>1. b = <<x, y, m, c, p>> BY BytesAre
<1>2. 1 + p \in Int OBVIOUS
<1>3. x \in Int /\ y \in Int BY <1>2, CrcsAre
<1>8. body[1] = m /\ body[2] = c /\ body[3] = p OBVIOUS
<1> HIDE DEF x, y, body
<1>4. Len(b) = 5 /\ b[3] = m /\ b[4] = c /\ b[5] = p BY <1>1
<1>5. b \in Seq(Int)
  <2> HIDE DEF b
  <2> QED BY <1>1, <1>3
<1>6. 5 \in {4, 5} OBVIOUS
<1>7. Packet(body) = <<STX>> \o Rest(b, 1) /\ Small5(b)
  BY <1>4, <1>5, <1>6, PacketIs
<1> HIDE DEF b
<1>9. Framed(<<STX>> \o Rest(b, 1)) /\ Len(<<STX>> \o Rest(b, 1)) >= 3
  BY <1>4, <1>6, <1>7, RestFramed, Zenon
<1>10. \A i \in 3 .. 5 : b[i] = body[i - 2] BY <1>4, <1>8
<1> QED BY <1>4, <1>7, <1>9, <1>10, Zenon DEF Whole, b, body

\* The request, on the line.
LEMMA RequestLine ==
  ASSUME NEW m \in 1 .. MaxId, NEW p \in Payloads
  PROVE  /\ Packet(<<m, Work, p>>) \in Seq(Wire)
         /\ \A i \in 1 .. Len(Packet(<<m, Work, p>>)) :
              Packet(<<m, Work, p>>)[i] \in Crc2s => Packet(<<m, Work, p>>)[i] = CrcHigh(Work, 1 + p)
<1> DEFINE b == Bytes(<<m, Work, p>>)
           s == Rest(b, 1)
           t == <<STX>> \o s
<1>1. /\ Small5(b) /\ Len(b) = 5 /\ Packet(<<m, Work, p>>) = t
      /\ \A i \in 1 .. 5 : b[i] \in Crc2s => b[i] = CrcHigh(Work, 1 + p)
      /\ \A i \in 1 .. 5 : b[i] \in Wire
  BY RequestIs
<1> HIDE DEF b
<1>2. 1 \in 1 .. Len(b) + 1 BY <1>1
<1>3. Tidy(s, b) BY <1>1, <1>2, RestTidy
<1> HIDE DEF s
<1>4. s \in Seq(Int) /\ Len(s) \in Nat
  <2>1. s \in Seq(Int) BY <1>3 DEF Tidy
  <2> QED BY <2>1, LenProperties
<1>5. STX \in Int BY DEF STX
<1>6. /\ t \in Seq(Int) /\ Len(t) = Len(s) + 1
      /\ \A i \in 1 .. Len(s) + 1 : t[i] = IF i = 1 THEN STX ELSE s[i - 1]
  BY <1>4, <1>5, ConsIs
<1> HIDE DEF t
<1> DEFINE C == {STX, ETX, DLE, 251, 252, 253}
<1>7. \A i \in 1 .. Len(s) : s[i] \in {ETX, DLE, 251, 252, 253} \/ \E j \in 1 .. Len(b) : s[i] = b[j]
  BY <1>3 DEF Tidy
<1>8. ASSUME NEW i \in 1 .. Len(t) PROVE t[i] \in C \/ \E j \in 1 .. 5 : t[i] = b[j]
  <2>1. CASE i = 1 BY <2>1, <1>4, <1>6
  <2>2. CASE i # 1
    <3>1. i - 1 \in 1 .. Len(s) /\ t[i] = s[i - 1] BY <2>2, <1>4, <1>6
    <3> QED BY <3>1, <1>1, <1>7
  <2> QED BY <2>1, <2>2
<1>9. C \subseteq Wire BY WireIs
<1>10. \A v \in C : v \notin Crc2s
  <2>0. /\ MaxId \in Nat /\ 1 <= MaxId /\ MaxId <= 65535
        /\ \A q \in Payloads : q \in Nat /\ q <= 255
    BY Values
  <2>1. \A w \in Crc2s : w > 1000000 BY <2>0, SMT DEF Crc2s, CrcHigh, Work
  <2>2. \A v \in C : v <= 253 /\ v \in Int BY DEF STX, ETX, DLE
  <2> HIDE DEF C
  <2> QED BY <2>1, <2>2, SMT
<1> HIDE DEF C
<1>11. \A i \in 1 .. Len(t) : t[i] \in Wire BY <1>1, <1>8, <1>9
<1>12. \A i \in 1 .. Len(t) : t[i] \in Crc2s => t[i] = CrcHigh(Work, 1 + p)
  BY <1>1, <1>8, <1>10
<1>13. t \in Seq(Wire) BY <1>6, <1>11, Retyped
<1> QED BY <1>1, <1>12, <1>13

\* What the device accepts is a request.
LEMMA AcceptedIs ==
  ASSUME NEW d \in Seq(Decoded), Accepts(d)
  PROVE  /\ Len(d) = 5 /\ d[3] \in 1 .. MaxId /\ d[5] \in Payloads
         /\ d[2] = CrcHigh(Work, 1 + d[5])
<1> DEFINE n == Len(d)
           q == SubSeq(d, 3, n)
           r == SubSeq(d, 1, 2)
<1>0. /\ MaxId \in Nat /\ 1 <= MaxId /\ MaxId <= 65535
      /\ \A m : m \in Numbers <=> m \in Nat /\ m <= 65535
      /\ \A p \in Payloads : p \in Nat /\ p <= 255
      /\ \A v : v \in Small <=> v \in Nat /\ v <= 255
  BY Values
<1>1. /\ n \in {4, 5} /\ d[3] \in Numbers /\ \A i \in 4 .. n : d[i] \in Small
      /\ r = Crc(q)
  BY Zenon DEF Accepts, Sound
<1>2. \A i \in 1 .. n : d[i] \in Decoded BY ElementOfSeq
<1> HIDE DEF n
<1>3. Len(q) = n - 2 /\ \A i \in 1 .. n - 2 : q[i] = d[i + 2]
  <2>1. n \in Int /\ 3 \in Int /\ \A i \in 3 .. n : d[i] \in Decoded BY <1>1, <1>2
  <2>2. /\ Len(q) = IF 3 <= n THEN n - 3 + 1 ELSE 0
        /\ \A i \in 1 .. n - 3 + 1 : q[i] = d[3 + i - 1]
    BY <2>1, SubSeqProperties
  <2> HIDE DEF q
  <2> QED BY <2>2, <1>1
<1>4. r[1] = d[1] /\ r[2] = d[2]
  <2>1. \A i \in 1 .. 2 : d[i] \in Decoded BY <1>1, <1>2
  <2>2. \A i \in 1 .. 2 - 1 + 1 : r[i] = d[1 + i - 1] BY <2>1, SubSeqProperties
  <2> HIDE DEF r
  <2> QED BY <2>2
<1>5. d[1] = CrcLow(q[1]) /\ d[2] = CrcHigh(q[2], IF Len(q) = 3 THEN 1 + q[3] ELSE 0)
  <2> HIDE DEF q, r
  <2> QED BY <1>1, <1>4 DEF Crc
<1> HIDE DEF q, r
<1>6. q[1] = d[3] /\ q[2] = d[4] /\ (n = 5 => q[3] = d[5]) BY <1>1, <1>3
<1>7. d[3] \in Nat /\ d[4] \in Small BY <1>0, <1>1
<1>8. d[4] \in Nat /\ d[4] <= 255 BY <1>0, <1>7
<1>9. n = 5 => d[5] \in Nat /\ d[5] <= 255 BY <1>0, <1>1
<1>10. d[1] \in Decoded /\ d[2] \in Decoded BY <1>1, <1>2
<1>11. d[3] \in 1 .. MaxId
  <2>1. d[1] = CrcLow(d[3]) BY <1>5, <1>6, Zenon
  <2>2. d[1] \in Int /\ d[1] >= 1000000 /\ d[1] <= 1065535 BY <1>0, <1>1, <1>7, <2>1, SMT DEF CrcLow
  <2>3. d[1] \in Crc1s \/ d[1] \in Crc2s BY <2>2, <1>10, SMT DEF Decoded
  <2>4. \A w \in Crc2s : w > 1065535 BY <1>0, SMT DEF Crc2s, CrcHigh, Work
  <2>5. d[1] \in Crc1s BY <2>2, <2>3, <2>4, SMT
  <2>6. PICK i \in 1 .. MaxId : d[1] = CrcLow(i) BY <2>5 DEF Crc1s
  <2> QED BY <1>0, <1>7, <2>1, <2>6, SMT DEF CrcLow
<1>12. d[2] \in Crc2s
  <2>1. d[2] = CrcHigh(d[4], IF n = 5 THEN 1 + d[5] ELSE 0)
    <3>1. Len(q) = 3 <=> n = 5 BY <1>1, <1>3
    <3> QED BY <1>5, <1>6, <3>1
  <2>2. d[2] \in Int /\ d[2] >= 100000000
    <3>2. (IF n = 5 THEN 1 + d[5] ELSE 0) \in Nat BY <1>9
    <3> DEFINE e == IF n = 5 THEN 1 + d[5] ELSE 0
    <3>3. e \in Nat /\ d[4] \in Nat /\ d[2] = CrcHigh(d[4], e) BY <1>8, <2>1, <3>2
    <3> HIDE DEF e
    <3> QED BY <3>3, SMT DEF CrcHigh
  <2>3. d[2] \in Crc1s \/ d[2] \in Crc2s BY <2>2, <1>10, SMT DEF Decoded
  <2>4. \A w \in Crc1s : w < 100000000 BY <1>0, SMT DEF Crc1s, CrcLow
  <2> QED BY <2>2, <2>3, <2>4, SMT
<1>13. PICK p \in Payloads : d[2] = CrcHigh(Work, 1 + p) BY <1>12 DEF Crc2s
<1>14. p \in Nat /\ p <= 255 BY <1>0
<1>15. CASE n = 5
  <2>1. d[2] = CrcHigh(d[4], 1 + d[5])
    <3>1. Len(q) = 3 BY <1>3, <1>15
    <3> QED BY <1>5, <1>6, <1>15, <3>1
  <2>2. d[5] = p
    <3>1. \A x, y \in Nat : y <= 255 /\ CrcHigh(x, 1 + y) = CrcHigh(1, 1 + p) => y = p
      BY <1>14, SMTT(30) DEF CrcHigh
    <3>2. d[5] \in Nat /\ d[5] <= 255 BY <1>9, <1>15
    <3>3. CrcHigh(d[4], 1 + d[5]) = CrcHigh(1, 1 + p) BY <1>13, <2>1, Zenon DEF Work
    <3> QED BY <1>8, <3>1, <3>2, <3>3, Zenon
  <2> QED BY <1>11, <1>13, <1>15, <2>2 DEF n
<1>16. CASE n = 4
  <2>1. d[2] = CrcHigh(d[4], 0)
    <3>1. Len(q) # 3 BY <1>3, <1>16
    <3> QED BY <1>5, <1>6, <3>1
  <2>2. FALSE BY <1>8, <1>13, <1>14, <2>1, SMT DEF CrcHigh, Work
  <2> QED BY <2>2
<1> QED BY <1>1, <1>15, <1>16

LEMMA SoundIs ==
  ASSUME NEW m \in 1 .. MaxId, NEW p \in Payloads
  PROVE  Accepts(Bytes(<<m, Work, p>>))
<1> DEFINE d == Bytes(<<m, Work, p>>)
           q == SubSeq(d, 3, 5)
           r == SubSeq(d, 1, 2)
           x == CrcLow(m)
           y == CrcHigh(Work, 1 + p)
<1>0. /\ \A k : k \in Numbers <=> k \in Nat /\ k <= 65535
      /\ \A k \in 1 .. MaxId : k \in Nat /\ 1 <= k /\ k <= 65535
      /\ \A k \in Payloads : k \in Nat /\ k <= 255
      /\ \A v : v \in Small <=> v \in Nat /\ v <= 255
  BY Values
<1>1. d = <<x, y, m, Work, p>> /\ Len(d) = 5 /\ Small5(d) BY RequestIs
<1>2. m \in Int /\ Work \in Int /\ p \in Int
  <2>1. Work \in Int BY DEF Work
  <2> QED BY <1>0, <2>1
<1>3. Crc(<<m, Work, p>>) = <<x, y>>
  <2>1. \A k \in Int : Crc(<<m, Work, k>>) = <<CrcLow(m), CrcHigh(Work, 1 + k)>> BY <1>2, CrcsAre
  <2> QED BY <2>1, <1>2
<1>4. x \in Int /\ y \in Int
  <2>1. 1 + p \in Int BY <1>2
  <2> QED BY <1>2, <2>1, CrcsAre
<1>5. m \in Numbers /\ Work \in Small /\ p \in Small
  <2>1. Work \in Nat /\ Work <= 255 BY DEF Work
  <2> QED BY <1>0, <2>1
<1> HIDE DEF x, y
<1>6. /\ d[1] = x /\ d[2] = y /\ d[3] = m /\ d[4] = Work /\ d[5] = p BY <1>1
<1> HIDE DEF d
<1>7. \A i \in 1 .. 5 : d[i] \in Int
  <2>1. d \in Seq(Int) BY <1>1 DEF Small5
  <2> QED BY <1>1, <2>1, ElementOfSeq
<1>8. q = <<m, Work, p>>
  <2>1. \A i \in 3 .. 5 : d[i] \in Int BY <1>7
  <2>2. /\ q \in Seq(Int) /\ Len(q) = IF 3 <= 5 THEN 5 - 3 + 1 ELSE 0
        /\ \A i \in 1 .. 5 - 3 + 1 : q[i] = d[3 + i - 1]
    BY <2>1, SubSeqProperties
  <2> HIDE DEF q
  <2>3. Len(q) = 3 /\ q[1] = m /\ q[2] = Work /\ q[3] = p BY <2>2, <1>6
  <2> DEFINE t == <<m, Work, p>>
  <2>4. t \in Seq(Int) /\ Len(t) = 3 /\ t[1] = m /\ t[2] = Work /\ t[3] = p BY <1>2
  <2> HIDE DEF t
  <2>5. \A i \in 1 .. 3 : i \in {1, 2, 3} OBVIOUS
  <2>6. \A i \in 1 .. 3 : q[i] = t[i] BY <2>3, <2>4, <2>5
  <2>7. q = t BY <2>2, <2>3, <2>4, <2>6, SeqEqual
  <2> QED BY <2>7 DEF t
<1>9. r = <<x, y>>
  <2>1. \A i \in 1 .. 2 : d[i] \in Int BY <1>7
  <2>2. /\ r \in Seq(Int) /\ Len(r) = IF 1 <= 2 THEN 2 - 1 + 1 ELSE 0
        /\ \A i \in 1 .. 2 - 1 + 1 : r[i] = d[1 + i - 1]
    BY <2>1, SubSeqProperties
  <2> HIDE DEF r
  <2>3. Len(r) = 2 /\ r[1] = x /\ r[2] = y BY <2>2, <1>6
  <2> DEFINE t == <<x, y>>
  <2>4. t \in Seq(Int) /\ Len(t) = 2 /\ t[1] = x /\ t[2] = y BY <1>4
  <2> HIDE DEF t
  <2>5. \A i \in 1 .. 2 : i \in {1, 2} OBVIOUS
  <2>6. \A i \in 1 .. 2 : r[i] = t[i] BY <2>3, <2>4, <2>5
  <2>7. r = t BY <2>2, <2>3, <2>4, <2>6, SeqEqual
  <2> QED BY <2>7 DEF t
<1> HIDE DEF q, r
<1>10. \A i \in 4 .. 5 : d[i] \in Small
  <2>1. \A i \in 4 .. 5 : i \in {4, 5} OBVIOUS
  <2> QED BY <2>1, <1>5, <1>6
<1>11. r = Crc(q) BY <1>3, <1>8, <1>9, Zenon
<1>12. 5 \in {4, 5} OBVIOUS
<1>14. Len(d) \in {4, 5} BY <1>1, <1>12, Zenon
<1>15. \A i \in 4 .. Len(d) : d[i] \in Small BY <1>1, <1>10, Zenon
<1>16. SubSeq(d, 1, 2) = Crc(SubSeq(d, 3, Len(d))) BY <1>1, <1>11, Zenon DEF q, r
<1>17. d[3] \in Numbers BY <1>5, <1>6, Zenon
<1>13. Sound(d) BY <1>14, <1>15, <1>16, <1>17, Zenon DEF Sound
<1> QED BY <1>13 DEF Accepts, d

-----------------------------------------------------------------------------
(***************************************************************************)
(* Every variable stays in its type.                                       *)
(***************************************************************************)
LEMMA Empties ==
  /\ <<>> \in Seq(Int) /\ <<>> \in Seq(Wire) /\ <<>> \in Seq(Decoded) /\ Len(<<>>) = 0
  /\ Listen \in [data : Seq(Int), neg : BOOLEAN, alive : BOOLEAN]
  /\ Empty \in [state : {"begin", "progress"}, data : Seq(Decoded), neg : BOOLEAN]
  /\ Empty.state = "begin" /\ ~Empty.neg
<1>1. <<>> \in Seq(Int) /\ <<>> \in Seq(Wire) /\ <<>> \in Seq(Decoded) /\ Len(<<>>) = 0
  BY EmptySeq
<1> QED BY <1>1 DEF Listen, Empty

LEMMA TypesInit == Init => TypeInv
<1> SUFFICES ASSUME Init PROVE TypeInv OBVIOUS
<1>1. RxSize \in Nat /\ RxSize > 0 /\ TxSize \in Nat /\ TxSize > 0 /\ MaxId \in Nat BY Values
<1>2. TypeTool BY <1>1, Empties DEF Init, TypeTool
<1>6. toDevice = <<>> /\ rx = <<>> /\ tx = <<>> /\ ovf = FALSE /\ damage = 0 /\ spoilt = FALSE
  BY DEF Init
<1>3. TypeLines
  <2>1. rx \in Seq(Wire) /\ tx \in Seq(Int) /\ toDevice \in Seq(Wire) /\ ovf \in BOOLEAN
    BY <1>6, Empties, Zenon
  <2>2. Len(rx) = 0 /\ Len(tx) = 0 BY <1>6, Empties, Zenon
  <2> QED BY <1>1, <2>1, <2>2 DEF TypeLines
<1>4. TypeServer BY Empties DEF Init, TypeServer, Places
<1>7. damage = 0 /\ spoilt = FALSE BY <1>6, Zenon
<1>8. 0 \in 0 .. 2 OBVIOUS
<1>9. damage \in 0 .. 2 /\ spoilt \in BOOLEAN BY <1>7, <1>8, Zenon
<1>5. TypeFaults BY <1>9, Zenon DEF TypeFaults
<1> QED BY <1>2, <1>3, <1>4, <1>5 DEF TypeInv

LEMMA TypesChecked == TypeInv => LinkTypeOK
  BY DEF TypeInv, TypeTool, TypeLines, TypeServer, TypeFaults, LinkTypeOK

LEMMA NextIdIs ==
  ASSUME TypeInv
  PROVE  NextId \in 1 .. MaxId /\ NextId # 0
<1>1. MaxId \in Nat /\ 1 <= MaxId BY Values
<1>2. lastId \in 0 .. MaxId BY DEF TypeInv, TypeTool
<1> QED BY <1>1, <1>2 DEF NextId

LEMMA HearsTypes ==
  ASSUME TypeInv, NEW v \in Int, Hears(v)
  PROVE  reader' \in [data : Seq(Int), neg : BOOLEAN, alive : BOOLEAN]
<1>1. reader \in [data : Seq(Int), neg : BOOLEAN, alive : BOOLEAN] BY DEF TypeInv, TypeTool
<1>2. Listen \in [data : Seq(Int), neg : BOOLEAN, alive : BOOLEAN] BY DEF Listen
<1>3. CASE ~reader.alive BY <1>1, <1>3 DEF Hears
<1>4. CASE reader.alive /\ ~reader.neg /\ v = ETX
  <2>1. Takes(reader.data) BY <1>4 DEF Hears
  <2>2. reader' = Listen \/ reader' = [Listen EXCEPT !.alive = FALSE] BY <2>1 DEF Takes
  <2> QED BY <2>2, <1>2
<1>5. CASE reader.alive /\ ~(~reader.neg /\ v = ETX)
  <2>1. reader' = Heard(reader, v) BY <1>5 DEF Hears
  <2>2. Negated(v) \in Int BY DEF Negated
  <2>3. CASE reader' = reader BY <1>1, <2>3
  <2>4. CASE reader' = [reader EXCEPT !.neg = TRUE] BY <1>1, <2>4
  <2>5. ASSUME NEW w \in Int, reader' = [reader EXCEPT !.data = Append(@, w), !.neg = FALSE]
        PROVE  reader' \in [data : Seq(Int), neg : BOOLEAN, alive : BOOLEAN]
    <3>1. Append(reader.data, w) \in Seq(Int) BY <1>1, AppendProperties
    <3> QED BY <1>1, <2>5, <3>1
  <2>6. \/ reader' = reader \/ reader' = [reader EXCEPT !.neg = TRUE]
        \/ reader' = [reader EXCEPT !.data = Append(@, v), !.neg = FALSE]
        \/ reader' = [reader EXCEPT !.data = Append(@, Negated(v)), !.neg = FALSE]
    BY <2>1, Zenon DEF Heard
  <2> QED BY <2>2, <2>3, <2>4, <2>5, <2>6
<1> QED BY <1>3, <1>4, <1>5

LEMMA PacketSeq ==
  ASSUME NEW m \in Int, NEW c \in Int, NEW p \in Int
  PROVE  /\ Packet(<<m, c>>) \in Seq(Int) \ {<<>>}
         /\ Packet(<<m, c, p>>) \in Seq(Int) \ {<<>>}
<1>1. ASSUME NEW body, NEW n, Whole(body, n) PROVE Packet(body) \in Seq(Int) \ {<<>>}
  <2>1. Packet(body) \in Seq(Int) /\ Len(Packet(body)) >= 2 BY <1>1 DEF Whole, Framed
  <2> DEFINE s == Packet(body)
  <2> HIDE DEF s
  <2> QED BY <2>1 DEF s
<1>2. Whole(<<m, c>>, 4) BY ShortPacket, Zenon
<1>3. Whole(<<m, c, p>>, 5)
  <2>1. \A k \in Int : Whole(<<m, c, k>>, 5) BY LongPacket, Zenon
  <2> QED BY <2>1
<1> QED BY <1>1, <1>2, <1>3

LEMMA TypesWriteCmd ==
  ASSUME TypeInv, WriteCmd
  PROVE  TypeInv'
<1>1. NextId \in 1 .. MaxId /\ NextId # 0 BY NextIdIs
<1>2. PICK p \in Payloads : /\ call' = [id |-> NextId, pay |-> p]
                            /\ toDevice' = toDevice \o Packet(<<NextId, Work, p>>)
  BY DEF WriteCmd
<1>3. /\ lastId' = NextId /\ damage' = Aged
      /\ UNCHANGED <<reader, queues, server, spoilt>>
  BY DEF WriteCmd
<1>4. TypeTool'
  <2>1. MaxId \in Nat BY Values
  <2> QED BY <1>1, <1>2, <1>3, <2>1 DEF TypeInv, TypeTool
<1>5. TypeLines'
  <2> DEFINE s == Packet(<<NextId, Work, p>>)
  <2>1. s \in Seq(Wire) BY <1>1, RequestLine
  <2>2. toDevice' = toDevice \o s BY <1>2
  <2> HIDE DEF s
  <2>3. toDevice' \in Seq(Wire) BY <2>1, <2>2, ConcatProperties DEF TypeInv, TypeLines
  <2> QED BY <1>3, <2>3 DEF TypeInv, TypeLines, queues
<1>6. TypeServer' BY <1>3 DEF TypeInv, TypeServer, server
<1>7. TypeFaults' BY <1>3 DEF TypeInv, TypeFaults, Aged
<1> QED BY <1>4, <1>5, <1>6, <1>7 DEF TypeInv

LEMMA TypesReadResponse ==
  ASSUME TypeInv, ReadResponse
  PROVE  TypeInv'
  BY DEF TypeInv, TypeTool, TypeLines, TypeServer, TypeFaults, ReadResponse, queues, server, faults

LEMMA TypesRestartTool ==
  ASSUME TypeInv, RestartTool
  PROVE  TypeInv'
<1>1. RxSize \in Nat /\ RxSize > 0 /\ TxSize \in Nat /\ TxSize > 0 /\ MaxId \in Nat BY Values
<1>2. TypeTool' BY <1>1, Empties DEF TypeInv, TypeTool, RestartTool
<1>3. TypeLines'
  <2>1. CASE main = "dead"
    <3>1. toDevice' = <<>> /\ rx' = <<>> /\ tx' = <<>> /\ ovf' = FALSE BY <2>1 DEF RestartTool
    <3>2. rx' \in Seq(Wire) /\ tx' \in Seq(Int) /\ toDevice' \in Seq(Wire) /\ ovf' \in BOOLEAN
      BY <3>1, Empties, Zenon
    <3>3. Len(rx') = 0 /\ Len(tx') = 0 BY <3>1, Empties, Zenon
    <3> QED BY <1>1, <3>2, <3>3 DEF TypeLines
  <2>2. CASE main # "dead" BY <2>2 DEF TypeInv, TypeLines, RestartTool, queues
  <2> QED BY <2>1, <2>2
<1>4. TypeServer'
  <2>1. CASE main = "dead" BY <2>1, Empties DEF TypeInv, TypeServer, RestartTool, Places
  <2>2. CASE main # "dead" BY <2>2 DEF TypeInv, TypeServer, RestartTool, server
  <2> QED BY <2>1, <2>2
<1>5. TypeFaults' BY DEF TypeInv, TypeFaults, RestartTool
<1> QED BY <1>2, <1>3, <1>4, <1>5 DEF TypeInv

LEMMA TypesDamageToDevice ==
  ASSUME TypeInv, DamageToDevice
  PROVE  TypeInv'
<1>1. /\ toDevice # <<>> /\ damage' = 2 /\ spoilt' = TRUE
      /\ UNCHANGED <<tool, queues, server>>
  BY DEF DamageToDevice, Spoils
<1>2. toDevice \in Seq(Wire) BY DEF TypeInv, TypeLines
<1>3. toDevice' \in Seq(Wire)
  <2>1. CASE \E k \in 1 .. Len(toDevice) : toDevice' = SubSeq(toDevice, k + 1, Len(toDevice))
    <3>1. PICK k \in 1 .. Len(toDevice) : toDevice' = SubSeq(toDevice, k + 1, Len(toDevice))
      BY <2>1
    <3>2. Len(toDevice) \in Nat BY <1>2, LenProperties
    <3>3. \A i \in k + 1 .. Len(toDevice) : toDevice[i] \in Wire
      <4>1. \A i \in k + 1 .. Len(toDevice) : i \in 1 .. Len(toDevice) BY <3>2
      <4> QED BY <4>1, <1>2, ElementOfSeq
    <3> DEFINE n == Len(toDevice)
               s == SubSeq(toDevice, k + 1, n)
    <3>4. n \in Int /\ k + 1 \in Int BY <3>2
    <3> HIDE DEF n
    <3>5. s \in Seq(Wire) BY <3>3, <3>4, SubSeqProperties DEF n
    <3> QED BY <3>1, <3>5 DEF n
  <2>2. CASE \E v \in Changed(Head(toDevice)) : toDevice' = <<v>> \o Tail(toDevice)
    <3>1. PICK v \in Changed(Head(toDevice)) : toDevice' = <<v>> \o Tail(toDevice) BY <2>2
    <3>2. v \in Wire
      <4>1. v \in Specials \cup {Junk} BY <3>1 DEF Changed
      <4> QED BY <4>1, WireIs DEF Specials
    <3>3. Tail(toDevice) \in Seq(Wire) BY <1>1, <1>2, HeadTailProperties
    <3> QED BY <3>1, <3>2, <3>3, ConsIs
  <2> QED BY <2>1, <2>2 DEF DamageToDevice
<1>4. TypeTool' BY <1>1 DEF TypeInv, TypeTool, tool
<1>5. TypeLines' BY <1>1, <1>3 DEF TypeInv, TypeLines, queues
<1>6. TypeServer' BY <1>1 DEF TypeInv, TypeServer, server
<1>7. TypeFaults' BY <1>1 DEF TypeFaults
<1> QED BY <1>4, <1>5, <1>6, <1>7 DEF TypeInv

LEMMA TypesToHost ==
  ASSUME TypeInv, tx # <<>>, tx' = Tail(tx),
         UNCHANGED reader \/ \E v \in Int : Hears(v),
         UNCHANGED <<call, lastId, toDevice, rx, ovf, server>>, TypeFaults'
  PROVE  TypeInv'
<1>1. reader' \in [data : Seq(Int), neg : BOOLEAN, alive : BOOLEAN]
  BY HearsTypes DEF TypeInv, TypeTool
<1>2. TypeTool' BY <1>1 DEF TypeInv, TypeTool
<1>3. tx' \in Seq(Int) /\ Len(tx') <= TxSize
  <2>1. tx \in Seq(Int) /\ Len(tx) <= TxSize BY DEF TypeInv, TypeLines
  <2>2. Tail(tx) \in Seq(Int) /\ Len(Tail(tx)) = Len(tx) - 1 BY <2>1, HeadTailProperties
  <2>3. Len(tx) \in Nat /\ TxSize \in Nat BY <2>1, LenProperties, Values
  <2> QED BY <2>1, <2>2, <2>3
<1>4. TypeLines' BY <1>3 DEF TypeInv, TypeLines
<1>5. TypeServer' BY DEF TypeInv, TypeServer, server
<1> QED BY <1>2, <1>4, <1>5 DEF TypeInv

LEMMA TypesDamageToHost ==
  ASSUME TypeInv, DamageToHost
  PROVE  TypeInv'
<1>1. /\ tx # <<>> /\ tx' = Tail(tx) /\ damage' = 2 /\ spoilt' = TRUE
      /\ UNCHANGED <<reader, answers>> \/ \E v \in Changed(Head(tx)) : Hears(v)
      /\ UNCHANGED <<call, lastId, toDevice, rx, ovf, server, runs>>
  BY DEF DamageToHost, Spoils
<1>2. \A v \in Changed(Head(tx)) : v \in Int BY DEF Changed, Specials, STX, ETX, DLE, Junk
<1>3. UNCHANGED reader \/ \E v \in Int : Hears(v) BY <1>1, <1>2
<1>4. TypeFaults' BY <1>1 DEF TypeFaults
<1> QED BY <1>1, <1>3, <1>4, TypesToHost

LEMMA TypesTxInterrupt ==
  ASSUME TypeInv, TxInterrupt
  PROVE  TypeInv'
<1>1. /\ tx # <<>> /\ tx' = Tail(tx) /\ Hears(Head(tx))
      /\ UNCHANGED <<call, lastId, toDevice, rx, ovf, server, runs, faults>>
  BY DEF TxInterrupt
<1>2. Head(tx) \in Int BY <1>1, HeadTailProperties DEF TypeInv, TypeLines
<1>3. TypeFaults' BY <1>1 DEF TypeInv, TypeFaults, faults
<1> QED BY <1>1, <1>2, <1>3, TypesToHost

LEMMA TypesRxInterrupt ==
  ASSUME TypeInv, RxInterrupt
  PROVE  TypeInv'
<1>1. /\ toDevice # <<>> /\ toDevice' = Tail(toDevice)
      /\ UNCHANGED <<tool, tx, server, runs>>
  BY DEF RxInterrupt
<1>2. toDevice \in Seq(Wire) /\ rx \in Seq(Wire) BY DEF TypeInv, TypeLines
<1>3. Head(toDevice) \in Wire /\ Tail(toDevice) \in Seq(Wire) BY <1>1, <1>2, HeadTailProperties
<1>4. RxSize \in Nat /\ Len(rx) \in Nat BY <1>2, LenProperties, Values
<1>5. TypeTool' BY <1>1 DEF TypeInv, TypeTool, tool
<1>6. TypeServer' BY <1>1 DEF TypeInv, TypeServer, server
<1>7. CASE ovf \/ main = "dead"
  <2>1. UNCHANGED <<rx, ovf>> /\ damage' = 2 /\ spoilt' = TRUE BY <1>7 DEF RxInterrupt
  <2>2. TypeLines' BY <1>1, <1>3, <2>1 DEF TypeInv, TypeLines
  <2>3. TypeFaults' BY <2>1 DEF TypeFaults
  <2> QED BY <1>5, <1>6, <2>2, <2>3 DEF TypeInv
<1>8. CASE ~(ovf \/ main = "dead")
  <2>1. rx' = Append(rx, Head(toDevice)) /\ ovf' = (Len(rx) + 1 = RxSize) /\ UNCHANGED faults
    BY <1>8 DEF RxInterrupt
  <2>2. rx' \in Seq(Wire) /\ Len(rx') = Len(rx) + 1 BY <2>1, <1>2, <1>3, AppendProperties
  <2>3. Len(rx) < RxSize BY <1>8 DEF TypeInv, TypeLines
  <2>7. ovf' \in BOOLEAN /\ (~ovf' => Len(rx) + 1 # RxSize) BY <2>1, Zenon
  <2>4. Len(rx') <= RxSize /\ (~ovf' => Len(rx') < RxSize)
    BY <2>2, <2>3, <2>7, <1>4
  <2>5. TypeLines' BY <1>1, <1>3, <2>2, <2>4, <2>7 DEF TypeInv, TypeLines
  <2>6. TypeFaults' BY <2>1 DEF TypeInv, TypeFaults, faults
  <2> QED BY <1>5, <1>6, <2>5, <2>6 DEF TypeInv
<1> QED BY <1>7, <1>8

\* What the main loop leaves in the receive queue.
LEMMA GetsTypes ==
  ASSUME TypeInv, Gets, rx' = Tail(rx) \/ rx' = <<>>, UNCHANGED toDevice,
         UNCHANGED tx \/ tx' = <<>>
  PROVE  TypeLines'
<1>1. rx # <<>> /\ ovf' = FALSE BY DEF Gets
<1>2. /\ rx \in Seq(Wire) /\ tx \in Seq(Int) /\ toDevice \in Seq(Wire)
      /\ Len(rx) <= RxSize /\ Len(tx) <= TxSize
  BY DEF TypeInv, TypeLines
<1>3. RxSize \in Nat /\ RxSize > 0 /\ TxSize \in Nat BY Values
<1>4. Tail(rx) \in Seq(Wire) /\ Len(Tail(rx)) = Len(rx) - 1 /\ Len(rx) \in Nat
  BY <1>1, <1>2, HeadTailProperties, LenProperties
<1>5. rx' \in Seq(Wire) /\ Len(rx') < RxSize
  <2>1. CASE rx' = Tail(rx)
    <3>1. Len(rx') = Len(rx) - 1 BY <2>1, <1>4
    <3> QED BY <2>1, <3>1, <1>2, <1>3, <1>4
  <2>2. CASE rx' = <<>>
    <3>1. rx' \in Seq(Wire) /\ Len(rx') = 0 BY <2>2, Empties, Zenon
    <3> QED BY <3>1, <1>3
  <2> QED BY <2>1, <2>2
<1>6. Len(rx') <= RxSize
  <2>1. Len(rx') \in Nat BY <1>5, LenProperties
  <2> QED BY <2>1, <1>3, <1>5
<1>7. tx' \in Seq(Int) /\ Len(tx') <= TxSize
  <2>1. CASE UNCHANGED tx BY <2>1, <1>2
  <2>2. CASE tx' = <<>>
    <3>1. tx' \in Seq(Int) /\ Len(tx') = 0 BY <2>2, Empties, Zenon
    <3> QED BY <3>1, <1>3
  <2> QED BY <2>1, <2>2
<1> QED BY <1>1, <1>2, <1>5, <1>6, <1>7 DEF TypeLines

LEMMA TypesDeviceGets ==
  ASSUME TypeInv, DeviceGets
  PROVE  TypeInv'
<1> DEFINE b == Head(rx)
           k == packet
<1>1. /\ main = "poll" /\ Gets /\ rx' = Tail(rx)
      /\ packet' = CASE k.state = "begin" /\ b = STX                -> Started(k)
                     [] k.state = "begin" /\ b # STX                -> k
                     [] k.state = "progress" /\ ~k.neg /\ b = STX   -> Restarted(k)
                     [] k.state = "progress" /\ ~k.neg /\ b = DLE   -> [k EXCEPT !.neg = TRUE]
                     [] OTHER                                       -> Stored(k, b)
      /\ UNCHANGED <<tool, toDevice, tx, main, msg, out, runs, faults>>
  BY DEF DeviceGets
<1>2. packet \in [state : {"begin", "progress"}, data : Seq(Decoded), neg : BOOLEAN]
      /\ (packet.state = "begin" => ~packet.neg)
  BY DEF TypeInv, TypeServer
<1>3. b \in Wire
  <2>1. rx # <<>> /\ rx \in Seq(Wire) BY <1>1 DEF Gets, TypeInv, TypeLines
  <2> QED BY <2>1, HeadTailProperties
<1>4. b \in Decoded /\ Negated(b) \in Decoded BY <1>3, DecodedIs
<1>5. \/ packet' = Started(k)
      \/ packet' = k
      \/ k.state = "progress" /\ packet' = Restarted(k)
      \/ k.state = "progress" /\ packet' = [k EXCEPT !.neg = TRUE]
      \/ packet' = Stored(k, b)
  <2> DEFINE c1 == k.state = "begin" /\ b = STX
             c2 == k.state = "begin" /\ b # STX
             c3 == k.state = "progress" /\ ~k.neg /\ b = STX
             c4 == k.state = "progress" /\ ~k.neg /\ b = DLE
  <2>1. packet' = CASE c1 -> Started(k) [] c2 -> k [] c3 -> Restarted(k)
                    [] c4 -> [k EXCEPT !.neg = TRUE] [] OTHER -> Stored(k, b)
    BY <1>1
  <2>2. STX # DLE BY DEF STX, DLE
  <2>3. c1 \/ c2 \/ c3 \/ c4 \/ (~c1 /\ ~c2 /\ ~c3 /\ ~c4) OBVIOUS
  <2>4. (c3 => k.state = "progress") /\ (c4 => k.state = "progress") OBVIOUS
  <2>5. c1 => ~c2 /\ ~c3 /\ ~c4 OBVIOUS
  <2>6. c2 => ~c3 /\ ~c4 OBVIOUS
  <2>7. c3 => ~c4 BY <2>2
  <2> HIDE DEF c1, c2, c3, c4, b, k
  <2> QED BY <2>1, <2>3, <2>4, <2>5, <2>6, <2>7
<1>6. /\ packet' \in [state : {"begin", "progress"}, data : Seq(Decoded), neg : BOOLEAN]
      /\ packet'.state = "begin" => ~packet'.neg
  <2> HIDE DEF b, k
  <2>0. k \in [state : {"begin", "progress"}, data : Seq(Decoded), neg : BOOLEAN]
        /\ (k.state = "begin" => ~k.neg)
    BY <1>2 DEF k
  <2>1. CASE packet' = Started(k) BY <2>1, Empties DEF Started
  <2>2. CASE packet' = k BY <2>0, <2>2
  <2>3. CASE k.state = "progress" /\ packet' = Restarted(k) BY <2>0, <2>3, Empties DEF Restarted
  <2>4. CASE k.state = "progress" /\ packet' = [k EXCEPT !.neg = TRUE] BY <2>0, <2>4
  <2>5. CASE packet' = Stored(k, b)
    <3>1. PICK w \in Decoded : packet' = [k EXCEPT !.data = Append(@, w), !.neg = FALSE]
      BY <2>5, <1>4 DEF Stored
    <3>2. Append(k.data, w) \in Seq(Decoded) BY <2>0, AppendProperties
    <3> QED BY <2>0, <3>1, <3>2
  <2> QED BY <1>5, <2>1, <2>2, <2>3, <2>4, <2>5
<1>7. TypeTool' BY <1>1 DEF TypeInv, TypeTool, tool
<1>8. TypeLines'
  <2>1. Gets /\ rx' = Tail(rx) /\ UNCHANGED toDevice /\ UNCHANGED tx BY <1>1
  <2> QED BY <2>1, GetsTypes
<1>9. TypeServer' BY <1>1, <1>6 DEF TypeInv, TypeServer
<1>10. TypeFaults' BY <1>1 DEF TypeInv, TypeFaults, faults
<1> QED BY <1>7, <1>8, <1>9, <1>10 DEF TypeInv

LEMMA EndsTypes ==
  ASSUME TypeInv, Ends
  PROVE  /\ packet' \in [state : {"begin", "progress"}, data : Seq(Decoded), neg : BOOLEAN]
         /\ packet'.state = "begin" /\ ~packet'.neg
  BY DEF TypeInv, TypeServer, Ends

LEMMA TypesEcho ==
  ASSUME TypeInv, Echo
  PROVE  TypeInv'
<1>1. /\ Ends /\ Gets /\ rx' = Tail(rx) /\ out' = <<STX, ETX>> /\ main' = "send"
      /\ UNCHANGED <<tool, toDevice, tx, msg, runs, faults>>
  BY DEF Echo, Ends
<1>2. TypeTool' BY <1>1 DEF TypeInv, TypeTool, tool
<1>3. TypeLines'
  <2>1. Gets /\ rx' = Tail(rx) /\ UNCHANGED toDevice /\ UNCHANGED tx BY <1>1
  <2> QED BY <2>1, GetsTypes
<1>4. out' \in Seq(Int) /\ out' # <<>> BY <1>1 DEF STX, ETX
<1>5. TypeServer' BY <1>1, <1>4, EndsTypes DEF TypeInv, TypeServer, Places
<1>6. TypeFaults' BY <1>1 DEF TypeInv, TypeFaults, faults
<1> QED BY <1>2, <1>3, <1>5, <1>6 DEF TypeInv

LEMMA MsgInt ==
  ASSUME TypeInv
  PROVE  msg.id \in Int /\ msg.pay \in Int /\ NoError \in Int /\ NotSupported \in Int
<1>1. \A p \in Payloads : p \in Int BY Values
<1>2. msg \in {NoMsg} \cup [id : 1 .. MaxId, pay : Payloads] BY DEF TypeInv, TypeServer
<1>3. CASE msg = NoMsg BY <1>3 DEF NoMsg, NoError, NotSupported
<1>4. CASE msg \in [id : 1 .. MaxId, pay : Payloads] BY <1>1, <1>4 DEF NoError, NotSupported
<1> QED BY <1>2, <1>3, <1>4

LEMMA TypesParse ==
  ASSUME TypeInv, Parse
  PROVE  TypeInv'
<1>1. /\ Ends /\ Gets /\ main = "poll" /\ rx' = <<>> /\ tx' = <<>>
      /\ UNCHANGED <<tool, toDevice, runs, faults>>
  BY DEF Parse, Ends
<1>2. TypeTool' BY <1>1 DEF TypeInv, TypeTool, tool
<1>3. TypeLines'
  <2>1. Gets /\ rx' = <<>> /\ UNCHANGED toDevice /\ tx' = <<>> BY <1>1
  <2> QED BY <2>1, GetsTypes
<1>4. TypeFaults' BY <1>1 DEF TypeInv, TypeFaults, faults
<1>5. \/ main' = "dead" /\ UNCHANGED <<msg, out>>
      \/ /\ Accepts(packet.data) /\ msg' = Parsed(packet.data) /\ main' = "execute"
         /\ UNCHANGED out
      \/ /\ out' = Packet(<<msg.id, NotSupported>>) /\ main' = "send" /\ UNCHANGED msg
  BY Zenon DEF Parse
<1>6. out = <<>> BY <1>1 DEF TypeInv, TypeServer
<1>7. TypeServer'
  <2>1. CASE main' = "dead" /\ UNCHANGED <<msg, out>>
    BY <2>1, <1>6, EndsTypes, <1>1 DEF TypeInv, TypeServer, Places
  <2>2. CASE Accepts(packet.data) /\ msg' = Parsed(packet.data) /\ main' = "execute" /\ UNCHANGED out
    <3>1. packet.data \in Seq(Decoded) BY DEF TypeInv, TypeServer
    <3>2. packet.data[3] \in 1 .. MaxId /\ packet.data[5] \in Payloads BY <2>2, <3>1, AcceptedIs
    <3>3. msg' \in [id : 1 .. MaxId, pay : Payloads] BY <2>2, <3>2 DEF Parsed
    <3> QED BY <2>2, <3>3, <1>6, EndsTypes, <1>1 DEF TypeInv, TypeServer, Places
  <2>3. CASE out' = Packet(<<msg.id, NotSupported>>) /\ main' = "send" /\ UNCHANGED msg
    <3>1. out' \in Seq(Int) \ {<<>>} BY <2>3, MsgInt, PacketSeq, Zenon
    <3> QED BY <2>3, <3>1, EndsTypes, <1>1 DEF TypeInv, TypeServer, Places
  <2> QED BY <1>5, <2>1, <2>2, <2>3
<1> QED BY <1>2, <1>3, <1>4, <1>7 DEF TypeInv

LEMMA TypesExecute ==
  ASSUME TypeInv, Execute
  PROVE  TypeInv'
<1>1. /\ out' = Packet(<<msg.id, NoError, msg.pay>>) /\ main' = "send"
      /\ UNCHANGED <<tool, toDevice, queues, packet, msg, faults>>
  BY DEF Execute
<1>2. out' \in Seq(Int) \ {<<>>}
  <2>1. \A p \in Int : Packet(<<msg.id, NoError, p>>) \in Seq(Int) \ {<<>>}
    BY MsgInt, PacketSeq
  <2> QED BY <2>1, <1>1, MsgInt
<1>3. TypeTool' BY <1>1 DEF TypeInv, TypeTool, tool
<1>4. TypeLines' BY <1>1 DEF TypeInv, TypeLines, queues
<1>5. TypeServer' BY <1>1, <1>2 DEF TypeInv, TypeServer, Places
<1>6. TypeFaults' BY <1>1 DEF TypeInv, TypeFaults, faults
<1> QED BY <1>3, <1>4, <1>5, <1>6 DEF TypeInv

LEMMA TypesPut ==
  ASSUME TypeInv, Put
  PROVE  TypeInv'
<1>1. /\ main = "send" /\ Len(tx) < TxSize /\ tx' = Append(tx, Head(out)) /\ out' = Tail(out)
      /\ main' = IF Len(out) = 1 THEN "poll" ELSE "send"
      /\ UNCHANGED <<tool, toDevice, rx, ovf, packet, msg, runs, faults>>
  BY DEF Put
<1>2. out \in Seq(Int) /\ out # <<>> /\ tx \in Seq(Int) BY <1>1 DEF TypeInv, TypeServer, TypeLines
<1>3. /\ Head(out) \in Int /\ Tail(out) \in Seq(Int) /\ Len(Tail(out)) = Len(out) - 1
      /\ Len(out) \in Nat \ {0} /\ Len(tx) \in Nat /\ TxSize \in Nat
  BY <1>2, HeadTailProperties, LenProperties, EmptySeq, Values
<1>4. tx' \in Seq(Int) /\ Len(tx') = Len(tx) + 1 BY <1>1, <1>2, <1>3, AppendProperties
<1>5. TypeLines'
  <2>1. Len(tx') <= TxSize BY <1>1, <1>3, <1>4
  <2> QED BY <1>1, <1>4, <2>1 DEF TypeInv, TypeLines
<1>6. Len(out) = 1 <=> out' = <<>>
  <2>1. Len(out') = Len(out) - 1 /\ out' \in Seq(Int) BY <1>1, <1>3
  <2>2. Len(out') = 0 <=> out' = <<>> BY <2>1, EmptySeq
  <2> QED BY <2>1, <2>2, <1>3
<1>7. TypeServer' BY <1>1, <1>3, <1>6 DEF TypeInv, TypeServer, Places
<1>8. TypeTool' BY <1>1 DEF TypeInv, TypeTool, tool
<1>9. TypeFaults' BY <1>1 DEF TypeInv, TypeFaults, faults
<1> QED BY <1>5, <1>7, <1>8, <1>9 DEF TypeInv

LEMMA TypesStep == TypeInv /\ [Next]_vars => TypeInv'
<1> SUFFICES ASSUME TypeInv, [Next]_vars PROVE TypeInv' OBVIOUS
<1>1. CASE UNCHANGED vars
  BY <1>1 DEF vars, tool, queues, server, faults, TypeInv, TypeTool, TypeLines, TypeServer, TypeFaults
<1>2. CASE WriteCmd BY <1>2, TypesWriteCmd
<1>3. CASE ReadResponse BY <1>3, TypesReadResponse
<1>4. CASE RestartTool BY <1>4, TypesRestartTool
<1>5. CASE DamageToDevice BY <1>5, TypesDamageToDevice
<1>6. CASE DamageToHost BY <1>6, TypesDamageToHost
<1>7. CASE RxInterrupt BY <1>7, TypesRxInterrupt
<1>8. CASE TxInterrupt BY <1>8, TypesTxInterrupt
<1>9. CASE DeviceGets BY <1>9, TypesDeviceGets
<1>10. CASE Echo BY <1>10, TypesEcho
<1>11. CASE Parse BY <1>11, TypesParse
<1>12. CASE Execute BY <1>12, TypesExecute
<1>13. CASE Put BY <1>13, TypesPut
<1> QED
  BY <1>1, <1>2, <1>3, <1>4, <1>5, <1>6, <1>7, <1>8, <1>9, <1>10, <1>11, <1>12, <1>13
  DEF Next, MainLoop

LEMMA TypesAlways == Spec => []TypeInv
  BY TypesInit, TypesStep, PTL DEF Spec

\* Whoever uses the tool, and whenever it is stopped, every variable stays in its
\* type and the queues within their size.
THEOREM LinkTypesHold == Spec => []LinkTypeOK
  BY TypesAlways, TypesChecked, PTL

-----------------------------------------------------------------------------
(***************************************************************************)
(* What the steps do to the stream and to the reply.                       *)
(***************************************************************************)
LEMMA StreamIs ==
  ASSUME TypeInv
  PROVE  /\ stream \in Seq(Wire) /\ Len(stream) = Len(rx) + Len(toDevice)
         /\ Len(stream) \in Nat /\ Len(rx) \in Nat /\ Len(toDevice) \in Nat
         /\ \A i \in 1 .. Len(stream) :
              stream[i] = IF i <= Len(rx) THEN rx[i] ELSE toDevice[i - Len(rx)]
         /\ reply \in Seq(Int) /\ Len(reply) \in Nat
         /\ stream = <<>> => rx = <<>> /\ toDevice = <<>>
         /\ reply = <<>> => tx = <<>> /\ out = <<>>
<1>1. rx \in Seq(Wire) /\ toDevice \in Seq(Wire) /\ tx \in Seq(Int) /\ out \in Seq(Int)
  BY DEF TypeInv, TypeLines, TypeServer
<1>2. /\ stream \in Seq(Wire) /\ Len(stream) = Len(rx) + Len(toDevice)
      /\ \A i \in 1 .. Len(rx) + Len(toDevice) :
            stream[i] = IF i <= Len(rx) THEN rx[i] ELSE toDevice[i - Len(rx)]
  BY <1>1, ConcatProperties DEF stream
<1>3. Len(stream) \in Nat /\ Len(rx) \in Nat /\ Len(toDevice) \in Nat BY <1>1, <1>2, LenProperties
<1>4. reply \in Seq(Int) /\ Len(reply) = Len(tx) + Len(out) BY <1>1, ConcatProperties DEF reply
<1>5. Len(reply) \in Nat /\ Len(tx) \in Nat /\ Len(out) \in Nat BY <1>1, <1>4, LenProperties
<1>6. stream = <<>> => rx = <<>> /\ toDevice = <<>>
  <2> SUFFICES ASSUME stream = <<>> PROVE rx = <<>> /\ toDevice = <<>> OBVIOUS
  <2>1. Len(stream) = 0 BY Empties
  <2>2. Len(rx) = 0 /\ Len(toDevice) = 0 BY <2>1, <1>2, <1>3
  <2> QED BY <2>2, <1>1, EmptySeq
<1>7. reply = <<>> => tx = <<>> /\ out = <<>>
  <2> SUFFICES ASSUME reply = <<>> PROVE tx = <<>> /\ out = <<>> OBVIOUS
  <2>1. Len(reply) = 0 BY Empties
  <2>2. Len(tx) = 0 /\ Len(out) = 0 BY <2>1, <1>4, <1>5
  <2> QED BY <2>2, <1>1, EmptySeq
<1>8. \A i \in 1 .. Len(stream) :
              stream[i] = IF i <= Len(rx) THEN rx[i] ELSE toDevice[i - Len(rx)]
  BY <1>2
<1> QED BY <1>2, <1>3, <1>4, <1>5, <1>6, <1>7, <1>8, Zenon

\* t is s without the d bytes that follow the first h.
Thinned(s, t, h, d) ==
    /\ s \in Seq(Wire) /\ t \in Seq(Wire) /\ h \in Nat /\ d \in Nat
    /\ Len(s) \in Nat /\ Len(t) \in Nat /\ Len(s) = Len(t) + d
    /\ \A i \in 1 .. Len(t) : t[i] = s[IF i <= h THEN i ELSE i + d]

\* t is s with another byte at p.
Altered(s, t, p) ==
    /\ s \in Seq(Wire) /\ t \in Seq(Wire)
    /\ Len(s) \in Nat /\ Len(t) = Len(s) /\ p \in 1 .. Len(s)
    /\ t[p] \in Specials \cup {Junk}
    /\ \A i \in 1 .. Len(s) : i # p => t[i] = s[i]

LEMMA ThinnedAt ==
  ASSUME NEW s, NEW t, NEW h, NEW d, Thinned(s, t, h, d), NEW i \in 1 .. Len(t)
  PROVE  \E j \in 1 .. Len(s) : /\ j = (IF i <= h THEN i ELSE i + d)
                                /\ t[i] = s[j]
<1>1. h \in Nat /\ d \in Nat /\ Len(s) \in Nat /\ Len(t) \in Nat /\ Len(s) = Len(t) + d
  BY DEF Thinned
<1>2. t[i] = s[IF i <= h THEN i ELSE i + d] BY DEF Thinned
<1>3. (IF i <= h THEN i ELSE i + d) \in 1 .. Len(s) BY <1>1
<1> QED BY <1>2, <1>3

LEMMA RxMoves ==
  ASSUME TypeInv, RxInterrupt, ~ovf, main # "dead"
  PROVE  stream' = stream
<1>1. rx' = Append(rx, Head(toDevice)) /\ toDevice' = Tail(toDevice) /\ toDevice # <<>>
  BY DEF RxInterrupt
<1>2. rx \in Seq(Wire) /\ toDevice \in Seq(Wire) BY DEF TypeInv, TypeLines
<1>3. Append(rx, Head(toDevice)) \o Tail(toDevice) = rx \o toDevice BY <1>1, <1>2, Moved
<1> QED BY <1>1, <1>3 DEF stream

LEMMA Shortened ==
  ASSUME TypeInv, TypeInv', UNCHANGED rx, NEW d \in 1 .. Len(toDevice),
         Len(toDevice') = Len(toDevice) - d,
         \A i \in 1 .. Len(toDevice') : toDevice'[i] = toDevice[i + d]
  PROVE  Thinned(stream, stream', Len(rx), d)
<1> DEFINE s == stream
           t == stream'
           h == Len(rx)
           n == Len(toDevice)
           v == toDevice'
<1>1. /\ s \in Seq(Wire) /\ Len(s) = h + n /\ Len(s) \in Nat /\ h \in Nat /\ n \in Nat
      /\ \A i \in 1 .. Len(s) : s[i] = IF i <= h THEN rx[i] ELSE toDevice[i - h]
  BY StreamIs
<1>2. v \in Seq(Wire) /\ rx \in Seq(Wire) BY DEF TypeInv, TypeLines
<1>3. t = rx \o v BY DEF stream
<1>4. Len(v) = n - d /\ \A i \in 1 .. Len(v) : v[i] = toDevice[i + d] OBVIOUS
<1>5. d \in 1 .. n OBVIOUS
<1> HIDE DEF s, t, v, n
<1>6. /\ t \in Seq(Wire) /\ Len(t) = Len(rx) + Len(v)
      /\ \A i \in 1 .. Len(rx) + Len(v) : t[i] = IF i <= Len(rx) THEN rx[i] ELSE v[i - Len(rx)]
  BY <1>2, <1>3, ConcatProperties
<1> HIDE DEF h
<1>10. /\ t \in Seq(Wire) /\ Len(t) = h + Len(v)
       /\ \A i \in 1 .. h + Len(v) : t[i] = IF i <= h THEN rx[i] ELSE v[i - h]
  BY <1>6 DEF h
<1>7. Len(t) \in Nat /\ Len(s) = Len(t) + d BY <1>1, <1>4, <1>5, <1>10
<1>8. ASSUME NEW i \in 1 .. Len(t) PROVE t[i] = s[IF i <= h THEN i ELSE i + d]
  <2>1. CASE i <= h
    <3>1. t[i] = rx[i] BY <2>1, <1>1, <1>4, <1>5, <1>10
    <3>2. s[i] = rx[i] BY <2>1, <1>1, <1>7, <1>5
    <3> QED BY <2>1, <3>1, <3>2
  <2>2. CASE ~(i <= h)
    <3>1. i - h \in 1 .. Len(v) /\ t[i] = v[i - h]
      <4>1. Len(v) \in Nat BY <1>1, <1>4, <1>5
      <4>2. i \in 1 .. h + Len(v) BY <1>10, Zenon
      <4>3. t[i] = v[i - h] BY <1>10, <2>2, <4>2, Zenon
      <4>4. \A y \in Nat : i \in 1 .. h + y => i - h \in 1 .. y BY <2>2, <1>1
      <4> QED BY <4>1, <4>2, <4>3, <4>4, Zenon
    <3>2. v[i - h] = toDevice[i - h + d] BY <3>1, <1>4
    <3>3. i + d \in 1 .. Len(s) /\ ~(i + d <= h) /\ i + d - h = i - h + d
      BY <2>2, <1>1, <1>5, <1>7
    <3>4. s[i + d] = toDevice[i + d - h] BY <3>3, <1>1, SMTT(30)
    <3>5. s[i + d] = t[i] BY <3>1, <3>2, <3>3, <3>4
    <3> QED BY <2>2, <3>5
  <2> QED BY <2>1, <2>2
<1>9. d \in Nat BY <1>5, <1>1
<1> QED BY <1>1, <1>7, <1>8, <1>9, <1>10, Zenon DEF Thinned, s, t, h

LEMMA RxLoses ==
  ASSUME TypeInv, TypeInv', RxInterrupt, ovf \/ main = "dead"
  PROVE  Thinned(stream, stream', Len(rx), 1)
<1>1. UNCHANGED rx /\ toDevice' = Tail(toDevice) /\ toDevice # <<>> BY DEF RxInterrupt
<1>2. toDevice \in Seq(Wire) BY DEF TypeInv, TypeLines
<1>3. /\ Len(toDevice') = Len(toDevice) - 1
      /\ \A i \in 1 .. Len(toDevice') : toDevice'[i] = toDevice[i + 1]
  BY <1>1, <1>2, HeadTailProperties
<1>4. 1 \in 1 .. Len(toDevice)
  <2>1. Len(toDevice) \in Nat \ {0} BY <1>1, <1>2, EmptySeq
  <2> QED BY <2>1
<1> QED BY <1>1, <1>3, <1>4, Shortened

LEMMA StreamTaken ==
  ASSUME TypeInv, TypeInv', Gets, rx' = Tail(rx), UNCHANGED toDevice
  PROVE  /\ stream # <<>> /\ stream[1] = Head(rx) /\ Head(stream) = Head(rx) /\ Head(rx) \in Wire
         /\ stream' = Tail(stream) /\ Len(stream) >= 1
         /\ Thinned(stream, stream', 0, 1)
<1>1. rx # <<>> BY DEF Gets
<1>2. rx \in Seq(Wire) /\ toDevice \in Seq(Wire) BY DEF TypeInv, TypeLines
<1> DEFINE s == stream
           t == stream'
<1>3. s \in Seq(Wire) /\ s # <<>> /\ Head(s) = Head(rx) /\ Tail(s) = Tail(rx) \o toDevice
  BY <1>1, <1>2, Taken DEF stream
<1>4. t = Tail(s) BY <1>3 DEF stream
<1> HIDE DEF s, t
<1>5. /\ Len(s) \in Nat \ {0} /\ Tail(s) \in Seq(Wire) /\ Len(Tail(s)) = Len(s) - 1
      /\ \A i \in 1 .. Len(Tail(s)) : Tail(s)[i] = s[i + 1]
  BY <1>3, EmptySeq, HeadTailProperties
<1>6. s[1] = Head(s)
  <2>1. s \in Seq(Wire) BY <1>3, Zenon
  <2>2. Len(s) \in Nat \ {0} BY <1>5, Zenon
  <2>3. Len(s) >= 1 BY <2>2
  <2> QED BY <2>1, <2>3
<1>7. Head(rx) \in Wire BY <1>1, <1>2, HeadTailProperties
<1>8. Thinned(s, t, 0, 1)
  <2>1. \A i \in 1 .. Len(t) : ~(i <= 0) OBVIOUS
  <2>2. \A i \in 1 .. Len(t) : t[i] = s[IF i <= 0 THEN i ELSE i + 1] BY <2>1, <1>4, <1>5
  <2>3. Len(t) \in Nat /\ Len(s) \in Nat /\ Len(s) = Len(t) + 1 /\ t \in Seq(Wire) BY <1>4, <1>5
  <2>4. 0 \in Nat /\ 1 \in Nat OBVIOUS
  <2> QED BY <2>2, <2>3, <2>4, <1>3, Zenon DEF Thinned
<1>9. Len(s) >= 1 BY <1>5
<1> QED BY <1>3, <1>4, <1>6, <1>7, <1>8, <1>9 DEF s, t

LEMMA StreamFlushed ==
  ASSUME TypeInv, TypeInv', Gets, rx' = <<>>, UNCHANGED toDevice
  PROVE  /\ stream # <<>> /\ stream[1] = Head(rx) /\ Head(stream) = Head(rx) /\ Len(stream) >= 1
         /\ Thinned(stream, stream', 0, Len(rx)) /\ Len(rx) >= 1
         /\ Tail(stream) = <<>> => stream' = <<>> /\ Len(rx) = 1
<1>1. rx # <<>> BY DEF Gets
<1>2. rx \in Seq(Wire) /\ toDevice \in Seq(Wire) BY DEF TypeInv, TypeLines
<1> DEFINE s == stream
           t == stream'
           h == Len(rx)
<1>3. s \in Seq(Wire) /\ s # <<>> /\ Head(s) = Head(rx) /\ Tail(s) = Tail(rx) \o toDevice
  BY <1>1, <1>2, Taken DEF stream
<1>4. t = toDevice BY <1>2 DEF stream
<1>5. /\ s \in Seq(Wire) /\ Len(s) = h + Len(toDevice) /\ Len(s) \in Nat /\ h \in Nat
      /\ Len(toDevice) \in Nat
      /\ \A i \in 1 .. Len(s) : s[i] = IF i <= h THEN rx[i] ELSE toDevice[i - h]
  BY StreamIs
<1>6. h >= 1
  <2>1. Len(rx) \in Nat \ {0} BY <1>1, <1>2, EmptySeq
  <2> QED BY <2>1
<1> HIDE DEF s, t, h
<1>7. Len(s) >= 1 /\ s[1] = Head(s)
  <2>1. Len(s) >= 1 BY <1>5, <1>6
  <2> QED BY <2>1, <1>3
<1>8. Thinned(s, t, 0, h)
  <2>1. ASSUME NEW i \in 1 .. Len(t) PROVE t[i] = s[IF i <= 0 THEN i ELSE i + h]
    <3>1. ~(i <= 0) OBVIOUS
    <3>2. i + h \in 1 .. Len(s) /\ ~(i + h <= h) /\ i + h - h = i BY <1>4, <1>5, <1>6
    <3>3. s[i + h] = toDevice[i] BY <3>2, <1>5
    <3> QED BY <3>1, <3>3, <1>4
  <2>2. Len(t) \in Nat /\ Len(s) = Len(t) + h /\ t \in Seq(Wire) BY <1>2, <1>4, <1>5
  <2>3. 0 \in Nat OBVIOUS
  <2> QED BY <2>1, <2>2, <2>3, <1>5, Zenon DEF Thinned
<1>9. Tail(s) = <<>> => t = <<>> /\ h = 1
  <2> SUFFICES ASSUME Tail(s) = <<>> PROVE t = <<>> /\ h = 1 OBVIOUS
  <2>1. Len(Tail(s)) = Len(s) - 1 BY <1>3, HeadTailProperties
  <2>2. Len(Tail(s)) = 0 BY Empties, Zenon
  <2>3. Len(toDevice) = 0 /\ h = 1 BY <2>1, <2>2, <1>5, <1>6
  <2>4. toDevice = <<>> BY <2>3, <1>2, EmptySeq
  <2> QED BY <2>3, <2>4, <1>4
<1> QED BY <1>3, <1>6, <1>7, <1>8, <1>9 DEF s, t, h

LEMMA DamageIs ==
  ASSUME TypeInv, TypeInv', DamageToDevice
  PROVE  \/ \E d \in 1 .. Len(toDevice) : Thinned(stream, stream', Len(rx), d)
         \/ Altered(stream, stream', Len(rx) + 1)
<1>1. /\ toDevice # <<>> /\ UNCHANGED rx
  BY DEF DamageToDevice, queues
<1>2. toDevice \in Seq(Wire) /\ toDevice' \in Seq(Wire) /\ rx \in Seq(Wire) BY DEF TypeInv, TypeLines
<1> DEFINE n == Len(toDevice)
<1>3. n \in Nat \ {0} BY <1>1, <1>2, EmptySeq
<1>4. CASE \E k \in 1 .. Len(toDevice) : toDevice' = SubSeq(toDevice, k + 1, Len(toDevice))
  <2>1. PICK k \in 1 .. n : toDevice' = SubSeq(toDevice, k + 1, n) BY <1>4
  <2>2. \A i \in 1 .. n : toDevice[i] \in Wire BY <1>2, ElementOfSeq
  <2>7. Thinned(stream, stream', Len(rx), k)
    <3> DEFINE t == toDevice'
    <3>3. \A i \in k + 1 .. n : toDevice[i] \in Wire
      <4> HIDE DEF n
      <4> QED BY <1>3, <2>2
    <3> HIDE DEF n, t
    <3>4. k + 1 \in Int /\ n \in Int BY <1>3
    <3>5. /\ Len(SubSeq(toDevice, k + 1, n)) = IF k + 1 <= n THEN n - (k + 1) + 1 ELSE 0
          /\ \A i \in 1 .. n - (k + 1) + 1 : SubSeq(toDevice, k + 1, n)[i] = toDevice[(k + 1) + i - 1]
      BY <3>3, <3>4, SubSeqProperties
    <3>6. t = SubSeq(toDevice, k + 1, n) BY <2>1 DEF t
    <3>7. Len(t) = n - k
      <4>1. Len(t) = IF k + 1 <= n THEN n - (k + 1) + 1 ELSE 0 BY <3>5, <3>6
      <4> QED BY <4>1, <1>3
    <3>8. ASSUME NEW i \in 1 .. Len(t) PROVE t[i] = toDevice[i + k]
      <4>1. i \in 1 .. n - (k + 1) + 1 /\ (k + 1) + i - 1 = i + k BY <3>7, <1>3
      <4> QED BY <4>1, <3>5, <3>6
    <3> QED BY <3>7, <3>8, <1>1, Shortened DEF n, t
  <2> QED BY <2>7
<1>5. CASE \E b \in Changed(Head(toDevice)) : toDevice' = <<b>> \o Tail(toDevice)
  <2>1. PICK b \in Changed(Head(toDevice)) : toDevice' = <<b>> \o Tail(toDevice) BY <1>5
  <2>2. b \in Specials \cup {Junk} BY DEF Changed
  <2>3. b \in Wire BY <2>2, WireIs DEF Specials
  <2>4. /\ Tail(toDevice) \in Seq(Wire) /\ Len(Tail(toDevice)) = n - 1
        /\ \A i \in 1 .. n - 1 : Tail(toDevice)[i] = toDevice[i + 1]
    BY <1>1, <1>2, HeadTailProperties
  <2> DEFINE v == toDevice'
             s == stream
             t == stream'
             h == Len(rx)
             u == Tail(toDevice)
  <2>5. /\ v \in Seq(Wire) /\ Len(v) = Len(u) + 1
        /\ \A i \in 1 .. Len(u) + 1 : v[i] = IF i = 1 THEN b ELSE u[i - 1]
    BY <2>1, <2>3, <2>4, ConsIs
  <2>6. /\ s \in Seq(Wire) /\ Len(s) = h + n /\ Len(s) \in Nat /\ h \in Nat
        /\ \A i \in 1 .. Len(s) : s[i] = IF i <= h THEN rx[i] ELSE toDevice[i - h]
    BY StreamIs
  <2>7. t = rx \o v BY <1>1 DEF stream
  <2> HIDE DEF v, s, t, u, n
  <2>8. /\ t \in Seq(Wire) /\ Len(t) = h + Len(v)
        /\ \A i \in 1 .. h + Len(v) : t[i] = IF i <= h THEN rx[i] ELSE v[i - h]
    BY <1>2, <2>5, <2>7, ConcatProperties
  <2> HIDE DEF h
  <2>9. Len(u) = n - 1 /\ \A i \in 1 .. n - 1 : u[i] = toDevice[i + 1] BY <2>4 DEF u, n
  <2>10. Len(v) = n /\ Len(t) = Len(s) BY <1>3, <2>5, <2>6, <2>8, <2>9
  <2>11. h + 1 \in 1 .. Len(s) BY <1>3, <2>6
  <2>12. t[h + 1] = b
    <3>1. h + 1 \in 1 .. h + Len(v) /\ ~(h + 1 <= h) /\ h + 1 - h = 1 BY <1>3, <2>6, <2>10
    <3>2. t[h + 1] = v[1] BY <3>1, <2>6, <2>8
    <3>3. 1 \in 1 .. Len(u) + 1 BY <1>3, <2>9
    <3> QED BY <3>2, <3>3, <2>5
  <2>13. ASSUME NEW i \in 1 .. Len(s), i # h + 1 PROVE t[i] = s[i]
    <3>1. CASE i <= h BY <3>1, <2>6, <2>8, <2>10, <1>3
    <3>2. CASE i > h + 1
      <4>1. i - h \in 1 .. n /\ i - h # 1 /\ ~(i <= h) /\ i - h - 1 \in 1 .. n - 1
            /\ i - h - 1 + 1 = i - h
        BY <3>2, <1>3, <2>6
      <4>2. t[i] = v[i - h] BY <4>1, <2>6, <2>8, <2>10
      <4>3. v[i - h] = u[i - h - 1] BY <4>1, <2>5, <2>9, <2>10
      <4>4. u[i - h - 1] = toDevice[i - h] BY <4>1, <2>9
      <4>5. s[i] = toDevice[i - h] BY <4>1, <2>6
      <4> QED BY <4>2, <4>3, <4>4, <4>5
    <3> QED BY <3>1, <3>2, <2>13, <2>6
  <2>14. Altered(s, t, h + 1) BY <2>2, <2>6, <2>8, <2>10, <2>11, <2>12, <2>13, Zenon DEF Altered
  <2> QED BY <2>14 DEF s, t, h
<1> QED BY <1>4, <1>5 DEF DamageToDevice

LEMMA ReplyTaken ==
  ASSUME TypeInv, tx # <<>>, tx' = Tail(tx), UNCHANGED out
  PROVE  /\ reply # <<>> /\ Head(reply) = Head(tx) /\ reply' = Tail(reply)
         /\ Len(reply) >= 1 /\ Len(reply') = Len(reply) - 1
         /\ \A i \in 1 .. Len(reply') : reply'[i] = reply[i + 1]
<1>1. tx \in Seq(Int) /\ out \in Seq(Int) BY DEF TypeInv, TypeLines, TypeServer
<1> DEFINE s == reply
           t == reply'
<1>2. s \in Seq(Int) /\ s # <<>> /\ Head(s) = Head(tx) /\ Tail(s) = Tail(tx) \o out
  BY <1>1, Taken DEF reply
<1>3. t = Tail(s) BY <1>2 DEF reply
<1> HIDE DEF s, t
<1>4. /\ Len(s) \in Nat \ {0} /\ Len(Tail(s)) = Len(s) - 1
      /\ \A i \in 1 .. Len(Tail(s)) : Tail(s)[i] = s[i + 1]
  BY <1>2, EmptySeq, HeadTailProperties
<1>5. Len(s) >= 1 BY <1>4
<1> QED BY <1>2, <1>3, <1>4, <1>5 DEF s, t

LEMMA ReplyMoves ==
  ASSUME TypeInv, Put
  PROVE  reply' = reply
<1>1. main = "send" /\ tx' = Append(tx, Head(out)) /\ out' = Tail(out) BY DEF Put
<1>2. tx \in Seq(Int) /\ out \in Seq(Int) /\ out # <<>>
  BY <1>1 DEF TypeInv, TypeLines, TypeServer
<1>3. Append(tx, Head(out)) \o Tail(out) = tx \o out BY <1>2, Moved
<1> QED BY <1>1, <1>3 DEF reply

LEMMA StreamWritten ==
  ASSUME TypeInv, TypeInv', WriteCmd
  PROVE  \E P \in Seq(Wire) :
           /\ call = NoCall /\ call' # NoCall
           /\ call'.id \in 1 .. MaxId /\ call'.pay \in Payloads
           /\ P = Packet(<<call'.id, Work, call'.pay>>)
           /\ Framed(P) /\ Len(P) >= 3 /\ Len(P) \in Nat
           /\ \A i \in 1 .. Len(P) : P[i] \in Crc2s => P[i] = CrcHigh(Work, 1 + call'.pay)
           /\ stream' = stream \o P
           /\ Len(stream') = Len(stream) + Len(P)
           /\ \A i \in 1 .. Len(stream') :
                stream'[i] = IF i <= Len(stream) THEN stream[i] ELSE P[i - Len(stream)]
<1>1. PICK p \in Payloads : /\ call' = [id |-> NextId, pay |-> p]
                            /\ toDevice' = toDevice \o Packet(<<NextId, Work, p>>)
  BY DEF WriteCmd
<1>2. call = NoCall /\ UNCHANGED rx BY DEF WriteCmd, Ready, queues
<1>3. NextId \in 1 .. MaxId /\ NextId # 0 BY NextIdIs
<1> DEFINE m == NextId
           P == Packet(<<m, Work, p>>)
<1>4. call'.id = m /\ call'.pay = p /\ call' # NoCall BY <1>1, <1>3 DEF NoCall
<1>5. P \in Seq(Wire) /\ \A i \in 1 .. Len(P) : P[i] \in Crc2s => P[i] = CrcHigh(Work, 1 + p)
  BY <1>3, RequestLine
<1>6. Framed(P) /\ Len(P) >= 3
  <2>1. m \in Int /\ Work \in Int /\ p \in Int
    <3>1. MaxId \in Nat /\ p \in Nat BY Values
    <3> QED BY <3>1, <1>3 DEF Work
  <2>2. \A k \in Int : Whole(<<m, Work, k>>, 5)
    <3> HIDE DEF m
    <3> QED BY <2>1, LongPacket, Zenon
  <2>3. Whole(<<m, Work, p>>, 5) BY <2>1, <2>2
  <2> QED BY <2>3 DEF Whole
<1>7. P = Packet(<<call'.id, Work, call'.pay>>) BY <1>4, Zenon
<1>8. toDevice' = toDevice \o P BY <1>1
<1>9. call'.id \in 1 .. MaxId /\ call'.pay \in Payloads BY <1>3, <1>4
<1>10. \A i \in 1 .. Len(P) : P[i] \in Crc2s => P[i] = CrcHigh(Work, 1 + call'.pay)
  BY <1>4, <1>5, Zenon
<1> HIDE DEF P, m
<1>11. rx \in Seq(Wire) /\ toDevice \in Seq(Wire) BY DEF TypeInv, TypeLines
<1> DEFINE S == Wire
<1>12. (rx \o toDevice) \o P = rx \o (toDevice \o P)
  <2>1. rx \in Seq(S) /\ toDevice \in Seq(S) /\ P \in Seq(S) BY <1>5, <1>11
  <2> HIDE DEF S
  <2> QED BY <2>1, ConcatAssociative
<1>13. stream' = stream \o P BY <1>2, <1>8, <1>12 DEF stream
<1>14. stream \in Seq(Wire) BY StreamIs
<1>15. /\ Len(stream \o P) = Len(stream) + Len(P)
       /\ \A i \in 1 .. Len(stream) + Len(P) :
            (stream \o P)[i] = IF i <= Len(stream) THEN stream[i] ELSE P[i - Len(stream)]
  BY <1>5, <1>14, ConcatProperties
<1>16. Len(P) \in Nat BY <1>5, LenProperties
<1>17. /\ Len(stream') = Len(stream) + Len(P)
       /\ \A i \in 1 .. Len(stream') :
            stream'[i] = IF i <= Len(stream) THEN stream[i] ELSE P[i - Len(stream)]
  BY <1>13, <1>15, Zenon
<1> QED BY <1>2, <1>4, <1>5, <1>6, <1>7, <1>9, <1>10, <1>13, <1>16, <1>17

\* What a byte that does not end a packet does to the receiver.
LEMMA Collected ==
  ASSUME TypeInv, DeviceGets
  PROVE  LET b == Head(rx)
         IN  /\ ~(packet.state = "progress" /\ ~packet.neg /\ b = ETX)
             /\ packet.state = "begin" /\ b = STX => packet' = Started(packet)
             /\ packet.state = "begin" /\ b # STX => packet' = packet
             /\ packet.state = "progress" /\ ~packet.neg /\ b = STX => packet' = Restarted(packet)
             /\ packet.state = "progress" /\ ~packet.neg /\ b = DLE
                    => packet' = [packet EXCEPT !.neg = TRUE]
             /\ packet.state = "progress" /\ (packet.neg \/ b \notin {STX, DLE})
                    => packet' = Stored(packet, b)
             /\ packet.state \in {"begin", "progress"}
<1> DEFINE k == packet
           b == Head(rx)
           c1 == k.state = "begin" /\ b = STX
           c2 == k.state = "begin" /\ b # STX
           c3 == k.state = "progress" /\ ~k.neg /\ b = STX
           c4 == k.state = "progress" /\ ~k.neg /\ b = DLE
           c5 == k.state = "progress" /\ (k.neg \/ b \notin {STX, DLE})
<1>1. packet' = CASE c1 -> Started(k) [] c2 -> k [] c3 -> Restarted(k)
                  [] c4 -> [k EXCEPT !.neg = TRUE] [] OTHER -> Stored(k, b)
  BY DEF DeviceGets
<1>2. ~(k.state = "progress" /\ ~k.neg /\ b = ETX) BY DEF DeviceGets
<1>3. STX # DLE BY DEF STX, DLE
<1>4. k.state \in {"begin", "progress"} BY DEF TypeInv, TypeServer
<1>5. /\ c1 => ~c2 /\ ~c3 /\ ~c4
      /\ c2 => ~c1 /\ ~c3 /\ ~c4
      /\ c3 => ~c1 /\ ~c2 /\ ~c4
      /\ c4 => ~c1 /\ ~c2 /\ ~c3
      /\ c5 => ~c1 /\ ~c2 /\ ~c3 /\ ~c4
  BY <1>3
<1>6. /\ c1 => packet' = Started(k)
      /\ c2 => packet' = k
      /\ c3 => packet' = Restarted(k)
      /\ c4 => packet' = [k EXCEPT !.neg = TRUE]
      /\ c5 => packet' = Stored(k, b)
  <2> HIDE DEF c1, c2, c3, c4, c5, b, k
  <2> QED BY <1>1, <1>5
<1> QED BY <1>2, <1>4, <1>6

\* After an undamaged packet the receiver is where it was before the first.
LEMMA EndingTaken ==
  ASSUME TypeInv, TypeInv', DeviceGets, Ending
  PROVE  Ending'
<1> DEFINE s == stream
           t == stream'
           n == Len(s)
<1>1. Gets /\ rx' = Tail(rx) /\ UNCHANGED toDevice /\ UNCHANGED damage
  BY DEF DeviceGets, faults
<1>2. s[1] = Head(rx) /\ n >= 1 /\ Thinned(s, t, 0, 1) BY <1>1, StreamTaken
<1>3. n \in Nat /\ Len(t) = n - 1 /\ \A i \in 1 .. Len(t) : t[i] = s[i + 1]
  BY <1>2 DEF Thinned
<1>4. packet.state = "begin" => ~packet.neg BY DEF TypeInv, TypeServer
<1>5. SUFFICES ASSUME damage <= 1
               PROVE  /\ Len(t) = 0 => packet'.state = "begin"
                      /\ Len(t) = 1 => ~packet'.neg
                      /\ Len(t) >= 1 => t[Len(t)] = ETX
                      /\ Len(t) >= 2 => t[Len(t) - 1] \notin Specials
  BY <1>1 DEF Ending
<1>6. /\ n = 1 => ~packet.neg
      /\ s[n] = ETX
      /\ n >= 2 => s[n - 1] \notin Specials
  BY <1>2, <1>5 DEF Ending
<1> HIDE DEF s, t, n
<1>7. ASSUME Len(t) = 0 PROVE packet'.state = "begin"
  <2>1. n = 1 BY <1>3, <1>7
  <2>2. ~packet.neg /\ Head(rx) = ETX BY <1>2, <1>6, <2>1
  <2>3. packet.state = "begin" BY <2>2, Collected
  <2>4. ETX # STX BY DEF ETX, STX
  <2> QED BY <2>2, <2>3, <2>4, Collected
<1>8. ASSUME Len(t) = 1 PROVE ~packet'.neg
  <2>1. n = 2 /\ n - 1 = 1
    <3>1. \A m \in Nat : m - 1 = 1 => m = 2 OBVIOUS
    <3>2. n \in Nat /\ n - 1 = 1 BY <1>3, <1>8, Zenon
    <3> QED BY <3>1, <3>2
  <2>2. Head(rx) \notin Specials BY <1>2, <1>6, <2>1
  <2>3. Head(rx) # STX /\ Head(rx) # DLE BY <2>2 DEF Specials
  <2>4. packet \in [state : {"begin", "progress"}, data : Seq(Decoded), neg : BOOLEAN]
    BY DEF TypeInv, TypeServer
  <2>5. CASE packet.state = "begin" BY <2>3, <2>5, <1>4, Collected
  <2>6. CASE packet.state = "progress"
    <3>1. packet' = Stored(packet, Head(rx)) BY <2>3, <2>6, Collected
    <3> QED BY <2>4, <3>1 DEF Stored
  <2> QED BY <2>4, <2>5, <2>6
<1>9. ASSUME Len(t) >= 1 PROVE t[Len(t)] = ETX
  <2>1. Len(t) \in 1 .. Len(t) /\ Len(t) + 1 = n BY <1>3, <1>9
  <2> QED BY <2>1, <1>3, <1>6
<1>10. ASSUME Len(t) >= 2 PROVE t[Len(t) - 1] \notin Specials
  <2>1. Len(t) - 1 \in 1 .. Len(t) /\ Len(t) - 1 + 1 = n - 1 /\ n >= 2 BY <1>3, <1>10
  <2>2. t[Len(t) - 1] = s[n - 1] BY <2>1, <1>3
  <2> QED BY <2>1, <2>2, <1>6
<1> QED BY <1>7, <1>8, <1>9, <1>10

LEMMA EndingEnds ==
  ASSUME TypeInv, TypeInv', Echo \/ Parse, Ending
  PROVE  Ending'
<1> DEFINE s == stream
           t == stream'
           n == Len(s)
<1>1. Ends /\ Gets /\ UNCHANGED toDevice /\ UNCHANGED damage /\ (rx' = Tail(rx) \/ rx' = <<>>)
  BY DEF Echo, Parse, Ends, faults
<1>2. packet'.state = "begin" /\ ~packet'.neg BY <1>1, EndsTypes
<1>3. PICK d \in Nat : Thinned(s, t, 0, d)
  <2>1. 1 \in Nat /\ Len(rx) \in Nat BY StreamIs
  <2>2. CASE rx' = Tail(rx) BY <1>1, <2>1, <2>2, StreamTaken
  <2>3. CASE rx' = <<>> BY <1>1, <2>1, <2>3, StreamFlushed
  <2> QED BY <1>1, <2>2, <2>3
<1>4. n \in Nat /\ Len(t) \in Nat /\ Len(t) + d = n /\ \A i \in 1 .. Len(t) : t[i] = s[i + d]
  BY <1>3 DEF Thinned
<1>5. SUFFICES ASSUME damage <= 1
               PROVE  /\ Len(t) >= 1 => t[Len(t)] = ETX
                      /\ Len(t) >= 2 => t[Len(t) - 1] \notin Specials
  BY <1>1, <1>2 DEF Ending
<1>6. /\ n >= 1 => s[n] = ETX
      /\ n >= 2 => s[n - 1] \notin Specials
  BY <1>5 DEF Ending
<1> HIDE DEF s, t, n
<1>9. ASSUME Len(t) >= 1 PROVE t[Len(t)] = ETX
  <2>1. Len(t) \in 1 .. Len(t) /\ Len(t) + d = n /\ n >= 1 BY <1>4, <1>9
  <2> QED BY <2>1, <1>4, <1>6
<1>10. ASSUME Len(t) >= 2 PROVE t[Len(t) - 1] \notin Specials
  <2>1. Len(t) - 1 \in 1 .. Len(t) /\ Len(t) - 1 + d = n - 1 /\ n >= 2 BY <1>4, <1>10
  <2>2. t[Len(t) - 1] = s[n - 1] BY <2>1, <1>4
  <2> QED BY <2>1, <2>2, <1>6
<1> QED BY <1>9, <1>10

LEMMA EndingWritten ==
  ASSUME TypeInv, TypeInv', WriteCmd
  PROVE  Ending'
<1> DEFINE s == stream
           t == stream'
           n == Len(s)
<1>1. PICK P \in Seq(Wire) :
        /\ Framed(P) /\ Len(P) >= 3 /\ Len(P) \in Nat
        /\ Len(t) = n + Len(P)
        /\ \A i \in 1 .. Len(t) : t[i] = IF i <= n THEN s[i] ELSE P[i - n]
  BY StreamWritten
<1>2. n \in Nat BY StreamIs
<1>3. P[Len(P)] = ETX /\ P[Len(P) - 1] \notin Specials BY <1>1 DEF Framed
<1> HIDE DEF s, t, n
<1>4. t[Len(t)] = ETX
  <2>1. Len(t) \in 1 .. Len(t) /\ ~(Len(t) <= n) /\ Len(t) - n = Len(P) BY <1>1, <1>2
  <2> QED BY <2>1, <1>1, <1>3
<1>5. t[Len(t) - 1] \notin Specials
  <2>1. Len(t) - 1 \in 1 .. Len(t) /\ ~(Len(t) - 1 <= n) /\ Len(t) - 1 - n = Len(P) - 1 BY <1>1, <1>2
  <2>2. t[Len(t) - 1] = P[Len(P) - 1] BY <2>1, <1>1
  <2> QED BY <2>2, <1>3
<1>6. Len(t) # 0 /\ Len(t) # 1 BY <1>1, <1>2
<1> QED BY <1>4, <1>5, <1>6 DEF Ending, t

LEMMA EndingStep ==
  ASSUME TypeInv, TypeInv', [Next]_vars, Ending
  PROVE  Ending'
<1>1. ASSUME stream' = stream, UNCHANGED packet, UNCHANGED damage PROVE Ending'
  BY <1>1 DEF Ending
<1>2. ASSUME damage' = 2 PROVE Ending' BY <1>2 DEF Ending
<1>3. CASE UNCHANGED vars BY <1>1, <1>3 DEF vars, queues, server, faults, stream
<1>4. CASE WriteCmd BY <1>4, EndingWritten
<1>5. CASE ReadResponse BY <1>1, <1>5 DEF ReadResponse, queues, server, faults, stream
<1>6. CASE RestartTool
  <2>1. CASE main = "dead"
    <3>1. toDevice' = <<>> /\ rx' = <<>> /\ packet' = Empty BY <1>6, <2>1 DEF RestartTool
    <3>2. stream' = <<>> BY <3>1 DEF stream
    <3>3. Len(stream') = 0 BY <3>2, Empties, Zenon
    <3>4. packet'.state = "begin" BY <3>1, Empties
    <3> QED BY <3>3, <3>4 DEF Ending
  <2>2. CASE main # "dead"
    <3>1. UNCHANGED <<toDevice, queues, server>> /\ UNCHANGED damage BY <1>6, <2>2 DEF RestartTool
    <3> QED BY <1>1, <3>1 DEF queues, server, stream
  <2> QED BY <2>1, <2>2
<1>7. CASE DamageToDevice BY <1>2, <1>7 DEF DamageToDevice, Spoils
<1>8. CASE DamageToHost BY <1>2, <1>8 DEF DamageToHost, Spoils
<1>9. CASE RxInterrupt
  <2>1. CASE ovf \/ main = "dead" BY <1>2, <1>9, <2>1 DEF RxInterrupt
  <2>2. CASE ~ovf /\ main # "dead"
    <3>1. UNCHANGED packet /\ UNCHANGED damage BY <1>9, <2>2 DEF RxInterrupt, server, faults
    <3> QED BY <1>1, <1>9, <2>2, <3>1, RxMoves
  <2> QED BY <2>1, <2>2
<1>10. CASE TxInterrupt BY <1>1, <1>10 DEF TxInterrupt, server, faults, stream
<1>11. CASE DeviceGets BY <1>11, EndingTaken
<1>12. CASE Echo BY <1>12, EndingEnds
<1>13. CASE Parse BY <1>13, EndingEnds
<1>14. CASE Execute BY <1>1, <1>14 DEF Execute, queues, faults, stream
<1>15. CASE Put BY <1>1, <1>15 DEF Put, faults, stream
<1> QED
  BY <1>3, <1>4, <1>5, <1>6, <1>7, <1>8, <1>9, <1>10, <1>11, <1>12, <1>13, <1>14, <1>15
  DEF Next, MainLoop

-----------------------------------------------------------------------------
(***************************************************************************)
(* An undamaged session: Unspoilt.                                         *)
(***************************************************************************)
LEMMA HearsIs ==
  ASSUME TypeInv, NEW v \in Int, Hears(v), reader.alive
  PROVE  /\ ~reader.neg /\ v = ETX => Takes(reader.data)
         /\ ~reader.neg /\ v = STX => UNCHANGED <<reader, answers>>
         /\ ~reader.neg /\ v = DLE => reader' = [reader EXCEPT !.neg = TRUE] /\ UNCHANGED answers
         /\ reader.neg \/ v \notin Specials
              => /\ reader' = [reader EXCEPT !.data = Append(@, Next2(reader.neg, v)), !.neg = FALSE]
                 /\ UNCHANGED answers
<1>1. STX # ETX /\ STX # DLE /\ DLE # ETX BY DEF STX, ETX, DLE
<1>2. reader \in [data : Seq(Int), neg : BOOLEAN, alive : BOOLEAN] BY DEF TypeInv, TypeTool
<1>3. ~reader.neg /\ v = ETX => Takes(reader.data) BY DEF Hears
<1>4. ~(~reader.neg /\ v = ETX) => reader' = Heard(reader, v) /\ UNCHANGED answers BY DEF Hears
<1>5. ~reader.neg /\ v = STX => reader' = reader /\ UNCHANGED answers BY <1>1, <1>4 DEF Heard
<1>6. ~reader.neg /\ v = DLE => reader' = [reader EXCEPT !.neg = TRUE] /\ UNCHANGED answers
  BY <1>1, <1>4 DEF Heard
<1>7. ASSUME reader.neg \/ v \notin Specials
      PROVE  /\ reader' = [reader EXCEPT !.data = Append(@, Next2(reader.neg, v)), !.neg = FALSE]
             /\ UNCHANGED answers
  <2>1. ~(~reader.neg /\ v = ETX) /\ ~(~reader.neg /\ v = STX) /\ ~(~reader.neg /\ v = DLE)
    BY <1>7 DEF Specials
  <2> QED BY <2>1, <1>4 DEF Heard, Next2
<1> QED BY <1>3, <1>5, <1>6, <1>7

\* The answers the device sends.
LEMMA AnswerIs ==
  ASSUME NEW a \in Answers
  PROVE  Small5(a) /\ Len(a) \in {4, 5}
<1>1. CASE \E m \in Numbers, p \in Small : a = Bytes(<<m, NoError, p>>)
  <2>1. PICK m \in Numbers, p \in Small : a = Bytes(<<m, NoError, p>>) BY <1>1
  <2>2. m \in Int /\ p \in Int /\ NoError \in Int BY Values DEF NoError
  <2>3. \A q \in Int : Whole(<<m, NoError, q>>, 5) BY <2>2, LongPacket
  <2>4. Whole(<<m, NoError, p>>, 5) BY <2>2, <2>3
  <2> QED BY <2>1, <2>4 DEF Whole
<1>2. CASE \E m \in Numbers : a = Bytes(<<m, NotSupported>>)
  <2>1. PICK m \in Numbers : a = Bytes(<<m, NotSupported>>) BY <1>2
  <2>2. m \in Int /\ NotSupported \in Int BY Values DEF NotSupported
  <2>3. Whole(<<m, NotSupported>>, 4) BY <2>2, ShortPacket
  <2> QED BY <2>1, <2>3 DEF Whole
<1> QED BY <1>1, <1>2 DEF Answers

\* What the invariant says of an undamaged session, of states with these values.
LEMMA Framing ==
  ASSUME Unspoilt, stream' = stream, reply' = reply,
         UNCHANGED <<call, answers, reader, packet, main, msg, runs, damage, spoilt>>
  PROVE  Unspoilt'
<1>0. Request' = Request BY DEF Request
<1>1. AtEase => AtEase' BY DEF AtEase, Silent
<1>2. Waiting => Waiting' BY DEF Waiting
<1>3. Gathering => Gathering' BY <1>0 DEF Gathering
<1>4. Asking => Asking' BY <1>2, <1>3 DEF Asking
<1>5. Synced => Synced' BY DEF Synced
<1>6. Executing => Executing' BY <1>2, <1>5 DEF Executing, Silent
<1>7. Answers' = Answers BY DEF Answers
<1>8. Answering => Answering' BY <1>2, <1>5, <1>7 DEF Answering, Done
<1>9. Answered => Answered' BY <1>2, <1>5 DEF Answered, Done, Silent
<1> QED BY <1>1, <1>4, <1>6, <1>8, <1>9 DEF Unspoilt

LEMMA UnspoiltRxInterrupt ==
  ASSUME TypeInv, RxInterrupt, Unspoilt
  PROVE  Unspoilt'
<1>1. CASE ovf \/ main = "dead" BY <1>1 DEF RxInterrupt, Unspoilt
<1>2. CASE ~ovf /\ main # "dead"
  <2>1. stream' = stream BY <1>2, RxMoves
  <2>2. /\ reply' = reply
        /\ UNCHANGED <<call, answers, reader, packet, main, msg, runs, damage, spoilt>>
    BY <1>2 DEF RxInterrupt, reply, tool, server, faults
  <2> QED BY <2>1, <2>2, Framing
<1> QED BY <1>1, <1>2

LEMMA UnspoiltPut ==
  ASSUME TypeInv, Put, Unspoilt
  PROVE  Unspoilt'
<1>1. reply' = reply BY ReplyMoves
<1>2. /\ stream' = stream /\ main = "send" /\ main' \in {"send", "poll"}
      /\ UNCHANGED <<call, answers, reader, packet, msg, runs, damage, spoilt>>
  BY DEF Put, stream, tool, faults
<1>3. SUFFICES ASSUME ~spoilt PROVE Answering'
  BY <1>2 DEF Unspoilt
<1>4. Answering BY <1>2, <1>3 DEF Unspoilt, AtEase, Asking, Executing, Answered
<1>5. Answers' = Answers BY DEF Answers
<1>6. Synced' /\ Waiting' /\ Done' BY <1>2, <1>4 DEF Answering, Synced, Waiting, Done
<1> QED BY <1>1, <1>2, <1>4, <1>5, <1>6 DEF Answering

LEMMA UnspoiltWriteCmd ==
  ASSUME TypeInv, TypeInv', WriteCmd, Unspoilt
  PROVE  Unspoilt'
<1>1. /\ call = NoCall /\ runs' = <<>> /\ damage' = Aged /\ answers' \in {answers, <<>>}
      /\ UNCHANGED <<reader, tx, out, packet, main, spoilt>>
  BY DEF WriteCmd, Ready, queues, server
<1>2. SUFFICES ASSUME ~spoilt PROVE Asking'
  BY <1>1 DEF Unspoilt
<1>3. AtEase BY <1>1, <1>2 DEF Unspoilt, Asking, Executing, Answering, Answered, Waiting
<1>4. PICK P \in Seq(Wire) : /\ call' # NoCall
                             /\ P = Packet(<<call'.id, Work, call'.pay>>)
                             /\ stream' = stream \o P
  BY StreamWritten
<1>5. stream' = P
  <2>1. stream = <<>> BY <1>3 DEF AtEase, Silent
  <2> QED BY <2>1, <1>4
<1>6. damage \in 0 .. 2 BY DEF TypeInv, TypeFaults
<1>7. damage' <= 1 BY <1>1, <1>6 DEF Aged
<1>8. damage' = 0 => packet'.state = "begin"
  <2>1. damage' = 0 => damage <= 1 BY <1>1, <1>6 DEF Aged
  <2> QED BY <2>1, <1>1, <1>3 DEF AtEase
<1>9. Gathering' BY <1>4, <1>5, <1>8 DEF Gathering
<1>10. /\ answers' = <<>> /\ runs' = <<>> /\ main' = "poll" /\ reply' = <<>>
       /\ reader' = Listen
  BY <1>1, <1>3 DEF AtEase, Silent, reply
<1>11. Waiting' BY <1>4, <1>7 DEF Waiting
<1> QED BY <1>9, <1>10, <1>11 DEF Asking

LEMMA OnlyAnswer ==
  ASSUME NEW a, answers = <<a>>, Fitting # {}
  PROVE  Chosen = 1 /\ RemoveAt(answers, Chosen) = <<>>
<1>1. DOMAIN answers = {1} BY DEF Fitting
<1>2. Fitting = {1} BY <1>1 DEF Fitting
<1>3. Chosen = 1 BY <1>2 DEF Chosen
<1>4. Len(<<a>>) = 1 /\ SubSeq(<<a>>, 1, 0) = <<>> /\ SubSeq(<<a>>, 2, 1) = <<>> OBVIOUS
<1>5. RemoveAt(<<a>>, 1) = SubSeq(<<a>>, 1, 1 - 1) \o SubSeq(<<a>>, 1 + 1, Len(<<a>>))
  BY DEF RemoveAt
<1>6. RemoveAt(<<a>>, 1) = <<>> BY <1>4, <1>5
<1> QED BY <1>3, <1>6

LEMMA UnspoiltReadResponse ==
  ASSUME TypeInv, ReadResponse, Unspoilt
  PROVE  Unspoilt'
<1>1. /\ call # NoCall /\ Fitting # {} /\ answers' = RemoveAt(answers, Chosen) /\ call' = NoCall
      /\ UNCHANGED <<reader, toDevice, rx, tx, ovf, packet, main, msg, out, runs, damage, spoilt>>
  BY DEF ReadResponse, queues, server, faults
<1>2. SUFFICES ASSUME ~spoilt PROVE AtEase'
  BY <1>1 DEF Unspoilt
<1>3. answers # <<>> BY <1>1 DEF Fitting
<1>4. Answered BY <1>1, <1>2, <1>3 DEF Unspoilt, AtEase, Asking, Executing, Answering
<1>5. answers = <<answers[1]>> BY <1>4 DEF Answered
<1>6. answers' = <<>> BY <1>1, <1>5, OnlyAnswer
<1>7. Silent' BY <1>1, <1>4 DEF Answered, Silent, stream, reply
<1>8. main' = "poll" /\ packet'.state = "begin" BY <1>1, <1>4 DEF Answered, Synced
<1> QED BY <1>1, <1>6, <1>7, <1>8 DEF AtEase

LEMMA UnspoiltRestartTool ==
  ASSUME Patient, TypeInv, TypeInv', RestartTool, Ending
  PROVE  Unspoilt'
<1>1. /\ AtRest \/ main = "dead"
      /\ call' = NoCall /\ answers' = <<>> /\ reader' = Listen
  BY DEF RestartTool, Patient
<1>2. CASE main = "dead"
  <2>1. /\ toDevice' = <<>> /\ rx' = <<>> /\ tx' = <<>> /\ out' = <<>>
        /\ packet' = Empty /\ main' = "poll"
    BY <1>2 DEF RestartTool
  <2>2. stream' = <<>> /\ reply' = <<>> BY <2>1 DEF stream, reply
  <2>3. packet'.state = "begin" BY <2>1 DEF Empty
  <2> QED BY <1>1, <2>1, <2>2, <2>3 DEF Unspoilt, AtEase, Silent
<1>3. CASE main # "dead"
  <2>1. /\ toDevice = <<>> /\ rx = <<>> /\ tx = <<>> /\ main = "poll"
        /\ UNCHANGED <<toDevice, rx, tx, packet, main, out, damage>>
    BY <1>1, <1>3 DEF RestartTool, AtRest, queues, server
  <2>2. out = <<>> BY <2>1 DEF TypeInv, TypeServer
  <2>3. stream = <<>> /\ stream' = <<>> /\ reply' = <<>> BY <2>1, <2>2 DEF stream, reply
  <2>4. damage <= 1 => packet.state = "begin" BY <2>3, Empties DEF Ending
  <2> QED BY <1>1, <2>1, <2>3, <2>4 DEF Unspoilt, AtEase, Silent
<1> QED BY <1>2, <1>3

\* What the reader makes of the bytes before an ETX.
LEMMA TakesIs ==
  ASSUME NEW data \in Seq(Int), Takes(data)
  PROVE  /\ data = <<>> => reader' = Listen /\ UNCHANGED answers
         /\ Len(data) \in 1 .. 3
              => reader' = [Listen EXCEPT !.alive = FALSE] /\ UNCHANGED answers
         /\ Len(data) \notin 0 .. 3
              => /\ answers' = Append(answers, [id |-> data[3], cmd |-> data[4],
                                                pay |-> SubSeq(data, 5, Len(data))])
                 /\ reader' = Listen
<1> DEFINE n == Len(data)
           c1 == data = <<>>
           c2 == n \in 1 .. 3
           c3 == n \notin 0 .. 3
           r1 == reader' = Listen /\ UNCHANGED answers
           r2 == reader' = [Listen EXCEPT !.alive = FALSE] /\ UNCHANGED answers
           r3 == /\ answers' = Append(answers, [id |-> data[3], cmd |-> data[4],
                                                pay |-> SubSeq(data, 5, Len(data))])
                 /\ reader' = Listen
<1>1. (CASE c1 -> r1 [] c2 -> r2 [] OTHER -> r3) BY DEF Takes
<1>2. c1 => n = 0 BY Empties
<1>3. c1 => ~c2 /\ ~c3
  <2>1. n = 0 => n \notin 1 .. 3 /\ n \in 0 .. 3 OBVIOUS
  <2> QED BY <2>1, <1>2
<1>4. c2 => ~c3 OBVIOUS
<1> HIDE DEF c1, c2, c3, r1, r2, r3
<1>5. (c1 => r1) /\ (c2 => r2) /\ (c3 => r3) BY <1>1, <1>3, <1>4
<1> QED BY <1>5 DEF c1, c2, c3, r1, r2, r3

\* The answer the tool keeps.
LEMMA AnswerTaken ==
  ASSUME answers = <<>>, NEW a \in Answers, Takes(a)
  PROVE  /\ reader' = Listen
         /\ answers' = <<[id |-> a[3], cmd |-> a[4], pay |-> SubSeq(a, 5, Len(a))]>>
         /\ answers' = <<answers'[1]>> /\ answers' # <<>>
<1>1. Small5(a) /\ Len(a) \in {4, 5} BY AnswerIs
<1>2. a \in Seq(Int) BY <1>1 DEF Small5
<1>3. Len(a) \notin 0 .. 3
  <2>1. \A n \in {4, 5} : n \notin 0 .. 3 OBVIOUS
  <2> QED BY <2>1, <1>1
<1> DEFINE r == [id |-> a[3], cmd |-> a[4], pay |-> SubSeq(a, 5, Len(a))]
<1>4. answers' = Append(answers, r) /\ reader' = Listen BY <1>2, <1>3, TakesIs
<1> HIDE DEF r
<1>5. answers' = <<r>> BY <1>4
<1>6. answers' = <<answers'[1]>> /\ answers' # <<>> BY <1>5
<1> QED BY <1>4, <1>5, <1>6 DEF r

LEMMA LoneIs ==
  ASSUME NEW s \in Seq(Int), Len(s) = 1
  PROVE  s = <<s[1]>>
  OBVIOUS

LEMMA OwnAnswerIs ==
  ASSUME NEW m \in Int, NEW p \in Int
  PROVE  \A a : a = Bytes(<<m, NoError, p>>)
           => a[3] = m /\ a[4] = NoError /\ SubSeq(a, 5, Len(a)) = <<p>>
<1> SUFFICES ASSUME NEW a, a = Bytes(<<m, NoError, p>>)
             PROVE  a[3] = m /\ a[4] = NoError /\ SubSeq(a, 5, Len(a)) = <<p>>
  OBVIOUS
<1>1. NoError \in Int BY DEF NoError
<1> DEFINE x == CrcLow(m)
           y == CrcHigh(NoError, 1 + p)
<1>2. \A q \in Int : Bytes(<<m, NoError, q>>) = <<CrcLow(m), CrcHigh(NoError, 1 + q), m, NoError, q>>
  BY <1>1, BytesAre
<1>3. a = <<x, y, m, NoError, p>> BY <1>2
<1> HIDE DEF x, y
<1>4. Len(a) = 5 /\ a[3] = m /\ a[4] = NoError /\ a[5] = p BY <1>3
<1>5. a \in Seq(Int)
  <2>1. \A q \in Int : Whole(<<m, NoError, q>>, 5) BY <1>1, LongPacket
  <2>2. Whole(<<m, NoError, p>>, 5) BY <2>1
  <2> QED BY <2>2 DEF Whole, Small5
<1>6. SubSeq(a, 5, 5) = <<p>>
  <2>1. a[5] = p /\ 5 \in 1 .. Len(a) BY <1>4
  <2>2. SubSeq(a, 5, 5) = <<a[5]>>
    <3>1. SubSeq(a, 5, 5) \in Seq(Int) /\ Len(SubSeq(a, 5, 5)) = 1 /\ SubSeq(a, 5, 5)[1] = a[5]
      BY <1>5, <2>1
    <3> QED BY <3>1, LoneIs, Zenon
  <2> QED BY <2>1, <2>2
<1> QED BY <1>4, <1>6

LEMMA UnspoiltTxInterrupt ==
  ASSUME TypeInv, TypeInv', TxInterrupt, Unspoilt
  PROVE  Unspoilt'
<1>1. /\ tx # <<>> /\ Hears(Head(tx)) /\ tx' = Tail(tx)
      /\ UNCHANGED <<call, packet, main, msg, out, runs, damage, spoilt>>
      /\ stream' = stream
  BY DEF TxInterrupt, server, faults, stream
<1>2. SUFFICES ASSUME ~spoilt PROVE Answering' \/ Answered'
  BY <1>1 DEF Unspoilt
<1>3. reply # <<>> /\ Head(reply) = Head(tx) /\ reply' = Tail(reply)
  BY <1>1, ReplyTaken
<1>4. Answering
  BY <1>2, <1>3 DEF Unspoilt, AtEase, Asking, Executing, Answered, Silent
<1>5. PICK a \in Answers :
        /\ damage = 0 => a = Bytes(<<call.id, NoError, call.pay>>)
        /\ \/ reader = Listen /\ reply = <<STX>> \o Rest(a, 1)
           \/ Follows(a, reply, reader.data, reader.neg)
  BY <1>4 DEF Answering
<1>6. Small5(a) /\ Len(a) \in {4, 5} BY AnswerIs
<1>7. Answers' = Answers BY DEF Answers
<1>8. Synced' /\ Waiting' /\ Done' BY <1>1, <1>4 DEF Answering, Synced, Waiting, Done
<1>9. main' \in {"send", "poll"} BY <1>1, <1>4 DEF Answering
<1>10. reader \in [data : Seq(Int), neg : BOOLEAN, alive : BOOLEAN] /\ reader.alive
  BY <1>4 DEF Answering, TypeInv, TypeTool
<1>11. answers = <<>> BY <1>4 DEF Answering
<1>12. ASSUME answers' = answers, reader'.alive, Follows(a, reply', reader'.data, reader'.neg)
       PROVE  Answering'
  BY <1>1, <1>5, <1>7, <1>8, <1>9, <1>11, <1>12 DEF Answering
<1>13. CASE reader = Listen /\ reply = <<STX>> \o Rest(a, 1)
  <2>1. Rest(a, 1) \in Seq(Int)
    <3>1. 1 \in 1 .. Len(a) + 1 BY <1>6
    <3> QED BY <3>1, <1>6, RestUnfolds
  <2>2. STX \in Int BY DEF STX
  <2>3. Head(reply) = STX /\ reply' = Rest(a, 1)
    BY <1>3, <1>13, <2>1, <2>2, ConsIs
  <2>4. ~reader.neg /\ reader.data = <<>> BY <1>13 DEF Listen
  <2>5. UNCHANGED <<reader, answers>> BY <1>1, <1>3, <1>10, <2>2, <2>3, <2>4, HearsIs
  <2>6. Follows(a, Rest(a, 1), <<>>, FALSE) BY <1>6, FollowsFirst
  <2>7. Follows(a, reply', reader'.data, reader'.neg)
    <3>1. reader'.data = <<>> /\ reader'.neg = FALSE BY <2>5, <1>13 DEF Listen
    <3> QED BY <3>1, <2>3, <2>6, Zenon
  <2>8. reader'.alive BY <2>5, <1>10
  <2> QED BY <1>12, <2>5, <2>7, <2>8
<1>14. CASE Follows(a, reply, reader.data, reader.neg)
  <2> DEFINE h == Head(reply)
             d == reader.data
             g == reader.neg
  <2>0. g \in BOOLEAN BY <1>10
  <2>1. /\ h \in Int /\ (~g => h # STX)
        /\ ~g /\ h = ETX => d = a /\ Tail(reply) = <<>>
        /\ ~g /\ h = DLE => Follows(a, Tail(reply), d, TRUE)
        /\ g \/ h \notin Specials => Follows(a, Tail(reply), Append(d, Next2(g, h)), FALSE)
    <3>1. Stepped(a, reply, reader.data, reader.neg)
      BY <1>6, <1>14, <2>0, FollowsStep, Zenon
    <3> QED BY <3>1 DEF Stepped
  <2>2. Hears(h) BY <1>1, <1>3, Zenon
  <2>3. CASE ~g /\ h = ETX
    <3>1. d = a /\ reply' = <<>> BY <1>3, <2>1, <2>3
    <3>2. Takes(a) BY <1>10, <2>1, <2>2, <2>3, <3>1, HearsIs
    <3>3. /\ reader' = Listen
          /\ answers' = <<[id |-> a[3], cmd |-> a[4], pay |-> SubSeq(a, 5, Len(a))]>>
          /\ answers' = <<answers'[1]>> /\ answers' # <<>>
      BY <1>11, <3>2, AnswerTaken
    <3>4. main' = "poll"
      <4>1. tx' \o out' = <<>> BY <3>1 DEF reply
      <4>2. out' = <<>>
        <5>1. tx' \in Seq(Int) /\ out' \in Seq(Int) BY DEF TypeInv, TypeLines, TypeServer
        <5> QED BY <4>1, <5>1
      <4> QED BY <4>2, <1>9 DEF TypeInv, TypeServer
    <3>5. ASSUME damage' = 0
          PROVE  answers' = <<[id |-> call'.id, cmd |-> NoError, pay |-> <<call'.pay>>]>>
      <4>1. a = Bytes(<<call.id, NoError, call.pay>>) BY <1>1, <1>5, <3>5
      <4>2. call \in [id : 1 .. MaxId, pay : Payloads]
        BY <1>4 DEF TypeInv, TypeTool, Answering, Waiting
      <4>3. call.id \in Int /\ call.pay \in Int BY <4>2, Values
      <4>4. a[3] = call.id /\ a[4] = NoError /\ SubSeq(a, 5, Len(a)) = <<call.pay>>
        BY <4>1, <4>3, OwnAnswerIs
      <4> QED BY <4>4, <3>3, <1>1
    <3>6. Silent'
      <4>1. stream = <<>> BY <1>4 DEF Answering, Synced
      <4> QED BY <4>1, <1>1, <3>1, <3>3 DEF Silent
    <3> QED BY <1>8, <3>3, <3>4, <3>5, <3>6 DEF Answered
  <2>4. CASE ~g /\ h = DLE
    <3>1. reader' = [reader EXCEPT !.neg = TRUE] /\ UNCHANGED answers
      BY <1>10, <2>1, <2>2, <2>4, HearsIs
    <3>2. reader'.data = d /\ reader'.neg = TRUE /\ reader'.alive BY <1>10, <3>1
    <3>3. Follows(a, reply', reader'.data, reader'.neg) BY <1>3, <2>1, <2>4, <3>2, Zenon
    <3> QED BY <1>12, <3>1, <3>2, <3>3
  <2>5. CASE g \/ h \notin Specials
    <3>1. /\ reader' = [reader EXCEPT !.data = Append(@, Next2(g, h)), !.neg = FALSE]
          /\ UNCHANGED answers
      BY <1>10, <2>1, <2>2, <2>5, HearsIs
    <3>2. reader'.data = Append(d, Next2(g, h)) /\ reader'.neg = FALSE /\ reader'.alive
      BY <1>10, <3>1
    <3>3. Follows(a, reply', reader'.data, reader'.neg) BY <1>3, <2>1, <2>5, <3>2, Zenon
    <3> QED BY <1>12, <3>1, <3>2, <3>3
  <2>6. (~g /\ h = ETX) \/ (~g /\ h = DLE) \/ (g \/ h \notin Specials)
    BY <2>1 DEF Specials
  <2> QED BY <2>3, <2>4, <2>5, <2>6
<1> QED BY <1>5, <1>13, <1>14

\* The request, as Request names it.
LEMMA RequestHas ==
  ASSUME TypeInv, call # NoCall
  PROVE  /\ call.id \in 1 .. MaxId /\ call.pay \in Payloads
         /\ Small5(Request) /\ Len(Request) = 5
         /\ Packet(<<call.id, Work, call.pay>>) = <<STX>> \o Rest(Request, 1)
         /\ Rest(Request, 1) \in Seq(Int)
         /\ Request[3] = call.id /\ Request[5] = call.pay
<1>1. call \in [id : 1 .. MaxId, pay : Payloads] BY DEF TypeInv, TypeTool
<1>2. call.id \in 1 .. MaxId /\ call.pay \in Payloads BY <1>1
<1>3. /\ Small5(Request) /\ Len(Request) = 5
      /\ Request[3] = call.id /\ Request[5] = call.pay
      /\ Packet(<<call.id, Work, call.pay>>) = <<STX>> \o Rest(Request, 1)
  BY <1>2, RequestIs, SMTT(30) DEF Request
<1>4. 1 \in 1 .. Len(Request) + 1 BY <1>3
<1>5. Rest(Request, 1) \in Seq(Int) BY <1>3, <1>4, RestUnfolds
<1> QED BY <1>2, <1>3, <1>5

\* One more byte behind those that are not of the request.
LEMMA Gathered ==
  ASSUME NEW d \in Seq(Decoded), NEW n \in 0 .. Len(d), NEW v \in Decoded
  PROVE  /\ Append(d, v) \in Seq(Decoded) /\ Len(Append(d, v)) = Len(d) + 1
         /\ n \in 0 .. Len(Append(d, v))
         /\ SubSeq(Append(d, v), n + 1, Len(Append(d, v))) = Append(SubSeq(d, n + 1, Len(d)), v)
         /\ SubSeq(d, n + 1, Len(d)) \in Seq(Decoded)
         /\ Len(SubSeq(d, n + 1, Len(d))) = Len(d) - n
<1> DEFINE D == Decoded
<1>0. d \in Seq(D) /\ v \in D OBVIOUS
<1> HIDE DEF D
<1> DEFINE L == Len(d)
           e == Append(d, v)
           f == SubSeq(d, n + 1, L)
           g == SubSeq(e, n + 1, L + 1)
           h == Append(f, v)
<1>1. L \in Nat /\ e \in Seq(D) /\ Len(e) = L + 1 /\ e[L + 1] = v
      /\ \A i \in 1 .. L : e[i] = d[i]
  BY <1>0
<1>2. n \in Nat /\ n <= L BY <1>1
<1> HIDE DEF L, e
<1>3. n + 1 \in 1 .. L + 1 /\ n \in 0 .. L + 1 /\ n + 1 <= L + 1 /\ L + 1 \in Nat BY <1>1, <1>2
<1>4. f \in Seq(D) /\ Len(f) = L - n /\ \A i \in 1 .. L - n : f[i] = d[n + i]
  <2>1. \A i \in n + 1 .. L : d[i] \in D BY <1>0, <1>2, ElementOfSeq DEF L
  <2>2. /\ f \in Seq(D) /\ Len(f) = IF n + 1 <= L THEN (L - (n + 1)) + 1 ELSE 0
        /\ \A i \in 1 .. (L - (n + 1)) + 1 : f[i] = d[((n + 1) + i) - 1]
    <3>1. n + 1 \in Int /\ L \in Int BY <1>1, <1>2
    <3> QED BY <2>1, <3>1, SubSeqProperties, <1>0, <1>2 DEF L
  <2>3. (L - (n + 1)) + 1 = L - n BY <1>1, <1>2
  <2>4. (IF n + 1 <= L THEN (L - (n + 1)) + 1 ELSE 0) = L - n BY <1>1, <1>2
  <2>5. \A i \in 1 .. L - n : ((n + 1) + i) - 1 = n + i BY <1>1, <1>2
  <2> HIDE DEF f
  <2>6. \A i \in 1 .. L - n : f[i] = d[n + i] BY <2>2, <2>3, <2>5
  <2> QED BY <2>2, <2>4, <2>6
<1>5. g \in Seq(D) /\ Len(g) = (L - n) + 1 /\ \A i \in 1 .. (L - n) + 1 : g[i] = e[n + i]
  <2>1. \A i \in n + 1 .. L + 1 : e[i] \in D
    <3>1. \A i \in n + 1 .. L + 1 : i \in 1 .. Len(e) BY <1>1, <1>2
    <3> QED BY <3>1, <1>1, ElementOfSeq
  <2>2. /\ g \in Seq(D) /\ Len(g) = IF n + 1 <= L + 1 THEN ((L + 1) - (n + 1)) + 1 ELSE 0
        /\ \A i \in 1 .. ((L + 1) - (n + 1)) + 1 : g[i] = e[((n + 1) + i) - 1]
    <3>1. n + 1 \in Int /\ L + 1 \in Int BY <1>1, <1>2
    <3> QED BY <2>1, <3>1, SubSeqProperties, <1>1, <1>2
  <2>3. ((L + 1) - (n + 1)) + 1 = (L - n) + 1 BY <1>1, <1>2
  <2>4. (IF n + 1 <= L + 1 THEN ((L + 1) - (n + 1)) + 1 ELSE 0) = (L - n) + 1 BY <1>1, <1>2
  <2>5. \A i \in 1 .. (L - n) + 1 : ((n + 1) + i) - 1 = n + i BY <1>1, <1>2
  <2> HIDE DEF g
  <2>6. \A i \in 1 .. (L - n) + 1 : g[i] = e[n + i] BY <2>2, <2>3, <2>5
  <2> QED BY <2>2, <2>4, <2>6
<1> HIDE DEF f, g
<1>6. h \in Seq(D) /\ Len(h) = (L - n) + 1 /\ h[(L - n) + 1] = v
      /\ \A i \in 1 .. L - n : h[i] = f[i]
  <2> DEFINE m == L - n
  <2>1. Len(f) = m /\ m \in Nat /\ f \in Seq(D) BY <1>1, <1>2, <1>4
  <2> HIDE DEF m
  <2>2. h \in Seq(D) /\ Len(h) = m + 1 /\ h[m + 1] = v /\ \A i \in 1 .. m : h[i] = f[i]
    BY <2>1, <1>0
  <2> QED BY <2>2 DEF m
<1> HIDE DEF h
<1>7. g = h
  <2>1. \A i \in 1 .. (L - n) + 1 : g[i] = h[i]
    <3> TAKE i \in 1 .. (L - n) + 1
    <3>1. CASE i = (L - n) + 1
      <4>1. n + i = L + 1 BY <3>1, <1>1, <1>2
      <4> QED BY <4>1, <3>1, <1>1, <1>5, <1>6
    <3>2. CASE i # (L - n) + 1
      <4>1. i \in 1 .. L - n /\ n + i \in 1 .. L BY <3>2, <1>1, <1>2
      <4>2. g[i] = d[n + i] BY <4>1, <1>1, <1>5
      <4>3. h[i] = d[n + i] BY <4>1, <1>4, <1>6
      <4> QED BY <4>2, <4>3
    <3> QED BY <3>1, <3>2
  <2>2. Len(g) = Len(h) BY <1>5, <1>6
  <2>3. \A i \in 1 .. Len(g) : g[i] = h[i] BY <2>1, <1>5
  <2> QED BY <2>2, <2>3, <1>5, <1>6, SeqEqual
<1>8. SubSeq(e, n + 1, Len(e)) = Append(f, v) BY <1>1, <1>7 DEF g, h
<1> QED BY <1>1, <1>3, <1>4, <1>8 DEF e, f, L, D

\* The device takes a byte of an undamaged request, or the bytes before it.
LEMMA GatheringOn ==
  ASSUME TypeInv, call # NoCall, damage <= 1,
         stream # <<>>, Gathering, Head(stream) = Head(rx), DeviceGets,
         stream' = Tail(stream), UNCHANGED <<call, damage>>
  PROVE  Gathering'
<1> DEFINE R == Request
           h == Head(rx)
           d == packet.data
           L == Len(d)
<1>1. /\ Small5(R) /\ Len(R) = 5 /\ Rest(R, 1) \in Seq(Int)
      /\ Packet(<<call.id, Work, call.pay>>) = <<STX>> \o Rest(R, 1)
  BY RequestHas
<1>2. R' = R BY DEF Request
<1>3. STX # ETX /\ STX # DLE /\ ETX # DLE /\ STX \in Int BY DEF STX, ETX, DLE
<1>4. packet \in [state : {"begin", "progress"}, data : Seq(Decoded), neg : BOOLEAN]
      /\ (packet.state = "begin" => ~packet.neg)
  BY DEF TypeInv, TypeServer
<1>5. h \in Wire
  <2>1. rx \in Seq(Wire) /\ rx # <<>> BY DEF TypeInv, TypeLines, DeviceGets, Gets
  <2> QED BY <2>1, HeadTailProperties
<1>6. h \in Decoded /\ Negated(h) \in Decoded BY <1>5, DecodedIs
<1>7. CASE /\ stream = Packet(<<call.id, Work, call.pay>>)
           /\ damage = 0 => packet.state = "begin"
  <2>1. h = STX /\ stream' = Rest(R, 1)
    <3>1. stream = <<STX>> \o Rest(R, 1) BY <1>1, <1>7
    <3> QED BY <3>1, <1>1, <1>3, ConsIs
  <2>2. Follows(R, stream', <<>>, FALSE) BY <2>1, <1>1, FollowsFirst, Zenon
  <2>3. ASSUME packet'.state = "progress", packet'.neg = FALSE, packet'.data \in Seq(Decoded),
               NEW n \in 0 .. Len(packet'.data), damage = 0 => n = 0,
               SubSeq(packet'.data, n + 1, Len(packet'.data)) = <<>>
        PROVE  Gathering'
    <3>1. Follows(R', stream', SubSeq(packet'.data, n + 1, Len(packet'.data)), packet'.neg)
      BY <1>2, <2>2, <2>3
    <3> QED BY <3>1, <2>3 DEF Gathering
  <2>4. CASE packet' = Started(packet) \/ (packet' = Restarted(packet) /\ packet.state = "progress" /\ ~packet.neg)
    <3>1. packet'.state = "progress" /\ packet'.neg = FALSE /\ packet'.data = <<>>
      BY <2>4, <1>4 DEF Started, Restarted
    <3>2. 0 \in 0 .. Len(packet'.data) /\ SubSeq(packet'.data, 0 + 1, Len(packet'.data)) = <<>>
      BY <3>1
    <3>3. packet'.data \in Seq(Decoded) BY <3>1, Empties
    <3> QED BY <2>3, <3>1, <3>2, <3>3
  <2>5. CASE packet.state = "progress" /\ packet.neg
    <3>1. packet' = Stored(packet, h) BY <2>5, Collected
    <3>2. packet' = [packet EXCEPT !.data = Append(@, Negated(h)), !.neg = FALSE]
      BY <2>5, <3>1 DEF Stored
    <3>3. /\ packet'.state = "progress" /\ packet'.neg = FALSE
          /\ packet'.data = Append(d, Negated(h))
      BY <2>5, <3>2, <1>4
    <3>4. d \in Seq(Decoded) BY <1>4
    <3>5. packet'.data \in Seq(Decoded)
      BY <3>3, <3>4, <1>6, AppendProperties
    <3> DEFINE e == packet'.data
               n == Len(e)
    <3>6. n \in Nat BY <3>5
    <3>7. n \in 0 .. Len(e) /\ n + 1 \in Int /\ n \in Int /\ n < n + 1 BY <3>6
    <3>8. SubSeq(e, n + 1, n) = <<>> BY <3>7, SubSeqEmpty
    <3> QED BY <2>3, <2>5, <1>7, <3>3, <3>5, <3>7, <3>8
  <2>6. \/ packet.state = "begin" /\ packet' = Started(packet)
        \/ packet.state = "progress" /\ ~packet.neg /\ packet' = Restarted(packet)
        \/ packet.state = "progress" /\ packet.neg
    BY <1>4, <2>1, Collected
  <2> QED BY <2>4, <2>5, <2>6
<1>8. CASE /\ packet.state = "progress"
           /\ \E n \in 0 .. L :
                /\ damage = 0 => n = 0
                /\ Follows(R, stream, SubSeq(d, n + 1, L), packet.neg)
  <2>1. PICK n \in 0 .. L : /\ damage = 0 => n = 0
                            /\ Follows(R, stream, SubSeq(d, n + 1, L), packet.neg)
    BY <1>8
  <2>2. Stepped(R, stream, SubSeq(d, n + 1, L), packet.neg)
    BY <1>1, <1>4, <2>1, FollowsStep
  <2> DEFINE f == SubSeq(d, n + 1, L)
             g == packet.neg
             v == Next2(g, h)
  <2>3. /\ ~g => h # STX
        /\ ~g /\ h = DLE => Follows(R, stream', f, TRUE)
        /\ g \/ h \notin Specials => Follows(R, stream', Append(f, v), FALSE)
    BY <2>2 DEF Stepped
  <2>4. CASE ~g /\ h = DLE
    <3>1. packet' = [packet EXCEPT !.neg = TRUE] BY <1>8, <2>4, Collected
    <3>2. packet'.state = "progress" /\ packet'.data = d /\ packet'.neg = TRUE
      BY <1>4, <1>8, <3>1
    <3>3. Follows(R', stream', SubSeq(packet'.data, n + 1, Len(packet'.data)), packet'.neg)
      BY <1>2, <2>3, <2>4, <3>2, Zenon
    <3> QED BY <2>1, <3>2, <3>3 DEF Gathering
  <2>5. CASE g \/ h \notin {STX, DLE}
    <3>1. packet' = Stored(packet, h) BY <1>8, <2>5, Collected
    <3>2. packet' = [packet EXCEPT !.data = Append(@, v), !.neg = FALSE]
      BY <3>1 DEF Stored, Next2
    <3>3. packet'.state = "progress" /\ packet'.data = Append(d, v) /\ packet'.neg = FALSE
      BY <1>4, <1>8, <3>2
    <3>4. v \in Decoded BY <1>6 DEF Next2
    <3>5. d \in Seq(Decoded) BY <1>4
    <3> HIDE DEF v
    <3>6. /\ n \in 0 .. Len(Append(d, v))
          /\ SubSeq(Append(d, v), n + 1, Len(Append(d, v))) = Append(f, v)
      BY <2>1, <3>4, <3>5, Gathered
    <3>7. g \/ h \notin Specials
      <4>1. g \/ h # ETX BY <1>8, Collected
      <4> QED BY <4>1, <2>5 DEF Specials
    <3>8. Follows(R, stream', Append(f, v), FALSE) BY <2>3, <3>7
    <3>9. Follows(R', stream', SubSeq(packet'.data, n + 1, Len(packet'.data)), packet'.neg)
      BY <1>2, <3>3, <3>6, <3>8, Zenon
    <3>10. n \in 0 .. Len(packet'.data) BY <3>3, <3>6, Zenon
    <3> QED BY <2>1, <3>3, <3>9, <3>10 DEF Gathering
  <2>6. (~g /\ h = DLE) \/ (g \/ h \notin {STX, DLE}) BY <2>3
  <2> QED BY <2>4, <2>5, <2>6
<1> QED BY <1>7, <1>8 DEF Gathering

LEMMA UnspoiltDeviceGets ==
  ASSUME TypeInv, TypeInv', DeviceGets, Unspoilt
  PROVE  Unspoilt'
<1>1. /\ main = "poll" /\ Gets /\ rx' = Tail(rx)
      /\ UNCHANGED <<call, answers, reader, toDevice, tx, out, main, msg, runs, damage, spoilt>>
  BY DEF DeviceGets, tool, faults
<1>2. SUFFICES ASSUME ~spoilt PROVE Asking' BY <1>1 DEF Unspoilt
<1>3. stream # <<>> /\ Head(stream) = Head(rx) /\ stream' = Tail(stream)
  BY <1>1, StreamTaken
<1>4. Asking
  BY <1>1, <1>2, <1>3 DEF Unspoilt, AtEase, Executing, Answering, Answered, Silent, Synced
<1>5. Waiting /\ Gathering BY <1>4 DEF Asking
<1>6. Gathering' BY <1>1, <1>3, <1>5, GatheringOn DEF Waiting
<1>7. Waiting' BY <1>1, <1>5 DEF Waiting
<1>8. reply' = reply BY <1>1 DEF reply
<1> QED BY <1>1, <1>4, <1>6, <1>7, <1>8 DEF Asking

\* The end of an undamaged request.
LEMMA EndsAsking ==
  ASSUME TypeInv, Ends, Unspoilt, ~spoilt
  PROVE  /\ Asking /\ rx # <<>> /\ Len(packet.data) >= 5
         /\ Tail(stream) = <<>>
         /\ damage = 0 \/ Len(packet.data) = 5 => packet.data = Request
<1>1. main = "poll" /\ packet.state = "progress" /\ ~packet.neg /\ Head(rx) = ETX /\ rx # <<>>
  BY DEF Ends, Gets
<1>2. stream # <<>> /\ Head(stream) = Head(rx)
  BY <1>1, Taken DEF stream, TypeInv, TypeLines
<1>3. Asking
  BY <1>1, <1>2 DEF Unspoilt, AtEase, Executing, Answering, Answered, Silent, Synced
<1>4. Waiting /\ Gathering /\ call # NoCall BY <1>3 DEF Asking, Waiting
<1>5. /\ Small5(Request) /\ Len(Request) = 5 /\ Rest(Request, 1) \in Seq(Int)
      /\ Packet(<<call.id, Work, call.pay>>) = <<STX>> \o Rest(Request, 1)
  BY <1>4, RequestHas
<1>6. Head(stream) = ETX BY <1>1, <1>2
<1>7. stream # Packet(<<call.id, Work, call.pay>>)
  <2>1. STX \in Int /\ STX # ETX BY DEF STX, ETX
  <2>2. Head(<<STX>> \o Rest(Request, 1)) = STX BY <2>1, <1>5, ConsIs
  <2> QED BY <2>1, <2>2, <1>5, <1>6
<1> DEFINE d == packet.data
           L == Len(d)
<1>8. PICK n \in 0 .. L : /\ damage = 0 => n = 0
                          /\ Follows(Request, stream, SubSeq(d, n + 1, L), packet.neg)
  BY <1>4, <1>7 DEF Gathering
<1>9. packet.neg \in BOOLEAN /\ d \in Seq(Decoded) BY DEF TypeInv, TypeServer
<1>10. Stepped(Request, stream, SubSeq(d, n + 1, L), packet.neg)
  BY <1>5, <1>8, <1>9, FollowsStep
<1>11. SubSeq(d, n + 1, L) = Request /\ Tail(stream) = <<>>
  BY <1>1, <1>6, <1>10 DEF Stepped
<1>12. L \in Nat /\ Len(SubSeq(d, n + 1, L)) = L - n
  <2>1. L \in Nat BY <1>9, LenProperties
  <2>2. Empty \in [state : {"begin", "progress"}, data : Seq(Decoded), neg : BOOLEAN] BY Empties
  <2>3. PICK v \in Decoded : TRUE BY DecodedIs, WireIs
  <2>4. Len(SubSeq(d, n + 1, Len(d))) = Len(d) - n BY <1>8, <1>9, <2>3, Gathered
  <2> QED BY <2>1, <2>4
<1>13. L >= 5
  <2>1. 5 = L - n BY <1>5, <1>11, <1>12, Zenon
  <2> HIDE DEF L
  <2> QED BY <2>1, <1>8, <1>12
<1>14. damage = 0 \/ L = 5 => d = Request
  <2> SUFFICES ASSUME damage = 0 \/ L = 5 PROVE d = Request OBVIOUS
  <2>1. n = 0
    <3>1. 5 = L - n BY <1>5, <1>11, <1>12, Zenon
    <3>2. L = 5 => n = 0
      <4> HIDE DEF L
      <4>1. n \in 0 .. L /\ L \in Nat BY <1>8, <1>12
      <4> QED BY <3>1, <4>1
    <3> QED BY <3>2, <1>8
  <2>2. 0 + 1 = 1 OBVIOUS
  <2>3. SubSeq(d, 1, L) = Request BY <1>11, <2>1, <2>2, Zenon
  <2>4. SubSeq(d, 1, Len(d)) = d BY <1>9, SubSeqFull
  <2> QED BY <2>3, <2>4
<1> QED BY <1>1, <1>3, <1>11, <1>13, <1>14

LEMMA UnspoiltEcho ==
  ASSUME TypeInv, Echo, Unspoilt
  PROVE  Unspoilt'
<1>1. Ends /\ packet.data = <<>> /\ UNCHANGED spoilt BY DEF Echo, faults
<1>2. SUFFICES ASSUME ~spoilt PROVE FALSE BY <1>1 DEF Unspoilt
<1>3. Len(packet.data) >= 5 BY <1>1, <1>2, EndsAsking
<1> QED BY <1>1, <1>3, Empties

LEMMA ParseIs ==
  ASSUME TypeInv, Parse
  PROVE  LET d == packet.data
         IN  /\ Len(d) = 1 => main' = "dead" /\ UNCHANGED <<msg, out>>
             /\ Len(d) # 1 /\ Accepts(d) => msg' = Parsed(d) /\ main' = "execute" /\ UNCHANGED out
             /\ Len(d) # 1 /\ ~Accepts(d)
                  => /\ out' = Packet(<<msg.id, NotSupported>>) /\ main' = "send"
                     /\ UNCHANGED msg
<1> DEFINE d == packet.data
           c1 == Len(d) = 1
           c2 == Accepts(d)
           r1 == main' = "dead" /\ UNCHANGED <<msg, out>>
           r2 == msg' = Parsed(d) /\ main' = "execute" /\ UNCHANGED out
           r3 == out' = Packet(<<msg.id, NotSupported>>) /\ main' = "send" /\ UNCHANGED msg
<1>1. (CASE c1 -> r1 [] c2 -> r2 [] OTHER -> r3) BY DEF Parse
<1>2. c2 => ~c1
  <2> SUFFICES ASSUME c2 PROVE ~c1 OBVIOUS
  <2>1. d \in Seq(Decoded) BY DEF TypeInv, TypeServer
  <2>2. Len(d) = 5 BY <2>1, AcceptedIs
  <2> QED BY <2>2
<1> HIDE DEF c1, c2, r1, r2, r3
<1>3. (c1 => r1) /\ (~c1 /\ c2 => r2) /\ (~c1 /\ ~c2 => r3) BY <1>1, <1>2
<1> QED BY <1>3 DEF c1, c2, r1, r2, r3

LEMMA UnspoiltParse ==
  ASSUME TypeInv, TypeInv', Parse, Unspoilt
  PROVE  Unspoilt'
<1>1. /\ Ends /\ packet' = [packet EXCEPT !.state = "begin"] /\ rx' = <<>> /\ tx' = <<>> /\ Gets
      /\ UNCHANGED <<call, answers, reader, toDevice, runs, damage, spoilt>>
  BY DEF Parse, Ends, tool, faults
<1>2. SUFFICES ASSUME ~spoilt PROVE Executing' \/ Answering'
  BY <1>1 DEF Unspoilt
<1>3. /\ Asking /\ Len(packet.data) >= 5 /\ Tail(stream) = <<>>
      /\ damage = 0 => packet.data = Request
  BY <1>1, <1>2, EndsAsking
<1>4. stream' = <<>> BY <1>1, <1>3, StreamFlushed
<1>5. packet'.state = "begin" BY <1>1, EndsTypes
<1>6. Waiting' /\ Synced' BY <1>1, <1>3, <1>4, <1>5 DEF Asking, Waiting, Synced
<1>7. /\ answers' = <<>> /\ runs' = <<>> /\ reader' = Listen /\ reply = <<>> /\ call # NoCall
  BY <1>1, <1>3 DEF Asking, Waiting
<1>8. out = <<>> BY <1>7, StreamIs
<1>9. Len(packet.data) # 1
  <2>1. \A n : n >= 5 => n # 1 OBVIOUS
  <2> QED BY <2>1, <1>3
<1>10. CASE Accepts(packet.data)
  <2>1. msg' = Parsed(packet.data) /\ main' = "execute" /\ UNCHANGED out
    BY <1>9, <1>10, ParseIs
  <2>2. reply' = <<>> BY <1>1, <1>8, <2>1 DEF reply
  <2>3. damage' = 0 => msg' = [id |-> call'.id, pay |-> call'.pay]
    <3> SUFFICES ASSUME damage' = 0 PROVE msg' = [id |-> call'.id, pay |-> call'.pay] OBVIOUS
    <3>1. packet.data = Request BY <1>1, <1>3
    <3>2. Request[3] = call.id /\ Request[5] = call.pay BY <1>7, RequestHas
    <3> QED BY <1>1, <2>1, <3>1, <3>2 DEF Parsed
  <2> QED BY <1>4, <1>6, <1>7, <2>1, <2>2, <2>3 DEF Executing, Silent
<1>11. CASE ~Accepts(packet.data)
  <2>1. out' = Packet(<<msg.id, NotSupported>>) /\ main' = "send" BY <1>9, <1>11, ParseIs
  <2>2. damage # 0
    <3> SUFFICES ASSUME damage = 0 PROVE FALSE OBVIOUS
    <3>1. packet.data = Request BY <1>3
    <3>2. call.id \in 1 .. MaxId /\ call.pay \in Payloads BY <1>7, RequestHas
    <3>3. Accepts(Request) BY <3>2, SoundIs DEF Request
    <3> QED BY <1>11, <3>1, <3>3
  <2> DEFINE a == Bytes(<<msg.id, NotSupported>>)
  <2>3. msg.id \in Numbers
    <3>1. msg.id \in 1 .. MaxId \/ msg.id = 0 BY DEF TypeInv, TypeServer, NoMsg
    <3> QED BY <3>1, Values
  <2>4. a \in Answers BY <2>3 DEF Answers
  <2>5. Whole(<<msg.id, NotSupported>>, 4) BY MsgInt, ShortPacket
  <2>6. out' = <<STX>> \o Rest(a, 1) BY <2>1, <2>5 DEF Whole
  <2> HIDE DEF a
  <2>7. reply' = <<STX>> \o Rest(a, 1)
    <3>1. out' \in Seq(Int) BY DEF TypeInv, TypeServer
    <3>2. <<>> \o out' = out' BY <3>1
    <3> QED BY <1>1, <2>6, <3>2 DEF reply
  <2>8. a \in Answers' BY <2>4 DEF Answers
  <2>9. damage' # 0 BY <1>1, <2>2
  <2>10. reader'.alive BY <1>7 DEF Listen
  <2> QED BY <1>6, <1>7, <2>1, <2>7, <2>8, <2>9, <2>10 DEF Answering, Done
<1> QED BY <1>10, <1>11

LEMMA UnspoiltExecute ==
  ASSUME TypeInv, TypeInv', Execute, Unspoilt
  PROVE  Unspoilt'
<1>1. /\ main = "execute" /\ runs' = Append(runs, msg.pay)
      /\ out' = Packet(<<msg.id, NoError, msg.pay>>) /\ main' = "send"
      /\ UNCHANGED <<call, answers, reader, tx, packet, msg, damage, spoilt>> /\ stream' = stream
  BY DEF Execute, tool, queues, faults, stream
<1>2. SUFFICES ASSUME ~spoilt PROVE Answering' BY <1>1 DEF Unspoilt
<1>3. Executing BY <1>1, <1>2 DEF Unspoilt, AtEase, Asking, Answering, Answered
<1>4. /\ Waiting /\ answers = <<>> /\ runs = <<>> /\ Synced /\ tx = <<>> /\ reader = Listen
      /\ damage = 0 => msg = [id |-> call.id, pay |-> call.pay]
  <2>1. reply = <<>> BY <1>3 DEF Executing, Silent
  <2> QED BY <2>1, <1>3, StreamIs DEF Executing, Silent
<1>5. Waiting' /\ Synced' BY <1>1, <1>4 DEF Waiting, Synced
<1>6. Done' BY <1>1, <1>4 DEF Done
<1> DEFINE m == msg.id
           p == msg.pay
           a == Bytes(<<m, NoError, p>>)
<1>7. m \in Numbers /\ p \in Small
  <2>1. (m \in 1 .. MaxId /\ p \in Payloads) \/ (m = 0 /\ p = 0) BY DEF TypeInv, TypeServer, NoMsg
  <2> QED BY <2>1, Values
<1>8. a \in Answers' BY <1>7 DEF Answers
<1>9. Whole(<<m, NoError, p>>, 5)
  <2>1. \A q \in Int : Whole(<<m, NoError, q>>, 5) BY MsgInt, LongPacket
  <2> QED BY <2>1, MsgInt
<1>10. out' = <<STX>> \o Rest(a, 1) BY <1>1, <1>9 DEF Whole
<1>11. damage = 0 => a = Bytes(<<call.id, NoError, call.pay>>) BY <1>4
<1> HIDE DEF a
<1>12. reply' = <<STX>> \o Rest(a, 1)
  <2>1. out' \in Seq(Int) BY DEF TypeInv, TypeServer
  <2>2. <<>> \o out' = out' BY <2>1
  <2> QED BY <1>1, <1>4, <1>10, <2>2 DEF reply
<1>13. reader' = Listen /\ reader'.alive /\ answers' = <<>> BY <1>1, <1>4 DEF Listen
<1>14. damage' = 0 => a = Bytes(<<call'.id, NoError, call'.pay>>) BY <1>1, <1>11
<1> QED BY <1>1, <1>5, <1>6, <1>8, <1>12, <1>13, <1>14 DEF Answering

\* An undamaged session goes its way, step by step.
LEMMA UnspoiltStep ==
  ASSUME Patient, TypeInv, TypeInv', [Next]_vars, Unspoilt, Ending
  PROVE  Unspoilt'
<1>1. CASE WriteCmd BY <1>1, UnspoiltWriteCmd
<1>2. CASE ReadResponse BY <1>2, UnspoiltReadResponse
<1>3. CASE RestartTool BY <1>3, UnspoiltRestartTool
<1>4. CASE DamageToDevice BY <1>4 DEF DamageToDevice, Spoils, Unspoilt
<1>5. CASE DamageToHost BY <1>5 DEF DamageToHost, Spoils, Unspoilt
<1>6. CASE RxInterrupt BY <1>6, UnspoiltRxInterrupt
<1>7. CASE TxInterrupt BY <1>7, UnspoiltTxInterrupt
<1>8. CASE DeviceGets BY <1>8, UnspoiltDeviceGets
<1>9. CASE Echo BY <1>9, UnspoiltEcho
<1>10. CASE Parse BY <1>10, UnspoiltParse
<1>11. CASE Execute BY <1>11, UnspoiltExecute
<1>12. CASE Put BY <1>12, UnspoiltPut
<1>13. CASE UNCHANGED vars
  <2>1. /\ stream' = stream /\ reply' = reply
        /\ UNCHANGED <<call, answers, reader, packet, main, msg, runs, damage, spoilt>>
    BY <1>13 DEF vars, tool, queues, server, faults, stream, reply
  <2> QED BY <2>1, Framing
<1> QED
  BY <1>1, <1>2, <1>3, <1>4, <1>5, <1>6, <1>7, <1>8, <1>9, <1>10, <1>11, <1>12, <1>13
  DEF Next, MainLoop

LEMMA EasyInit == Init => Unspoilt /\ Ending
<1> SUFFICES ASSUME Init PROVE Unspoilt /\ Ending OBVIOUS
<1>1. /\ call = NoCall /\ answers = <<>> /\ reader = Listen /\ main = "poll"
      /\ rx = <<>> /\ toDevice = <<>> /\ tx = <<>> /\ out = <<>> /\ packet = Empty
  BY DEF Init
<1>2. packet.state = "begin" BY <1>1 DEF Empty
<1>3. stream = <<>> /\ reply = <<>> BY <1>1 DEF stream, reply
<1>4. Unspoilt BY <1>1, <1>2, <1>3 DEF Unspoilt, AtEase, Silent
<1>5. Ending
  <2>1. Len(stream) = 0 BY <1>3, Empties
  <2> QED BY <1>2, <2>1 DEF Ending
<1> QED BY <1>4, <1>5

LEMMA UndamagedAlways ==
  ASSUME Patient
  PROVE  Spec => [](TypeInv /\ Unspoilt /\ Ending)
<1> DEFINE I == TypeInv /\ Unspoilt /\ Ending
<1>1. Init => I BY TypesInit, EasyInit
<1>2. I /\ [Next]_vars => I'
  <2> SUFFICES ASSUME I, [Next]_vars PROVE I' OBVIOUS
  <2>1. TypeInv' BY TypesStep
  <2>2. Unspoilt' BY <2>1, UnspoiltStep
  <2>3. Ending' BY <2>1, EndingStep
  <2> QED BY <2>1, <2>2, <2>3
<1> QED BY <1>1, <1>2, PTL DEF Spec

\* The answer read_response returns to a tool that is only stopped when the
\* device is at rest, and whose lines are not damaged, is the one to its command,
\* by number and payload, though the code would take any that has the status 0.
THEOREM AnswerIsOwnHolds ==
  ASSUME Patient
  PROVE  Spec => []AnswerIsOwn
<1>1. TypeInv /\ Unspoilt /\ Ending => AnswerIsOwn
  <2> SUFFICES ASSUME TypeInv, Unspoilt, call # NoCall, Fitting # {}, Trusted
               PROVE  answers[Chosen] = [id |-> call.id, cmd |-> NoError, pay |-> <<call.pay>>]
    BY DEF AnswerIsOwn
  <2>1. damage = 0 /\ ~spoilt BY DEF Trusted
  <2>2. answers # <<>> BY DEF Fitting
  <2>3. Answered BY <2>1, <2>2 DEF Unspoilt, AtEase, Asking, Executing, Answering
  <2> DEFINE a == [id |-> call.id, cmd |-> NoError, pay |-> <<call.pay>>]
  <2>4. answers = <<a>> BY <2>1, <2>3 DEF Answered
  <2> HIDE DEF a
  <2>5. Chosen = 1 BY <2>4, OnlyAnswer
  <2>6. answers[1] = a BY <2>4
  <2> QED BY <2>5, <2>6 DEF a
<1> QED BY <1>1, UndamagedAlways, PTL

Undropped ==
    Trusted =>
        /\ main = "poll" /\ main' \in {"execute", "send", "dead"} => Len(rx) = 1 /\ tx = <<>>
        /\ main # "poll" /\ toDevice # <<>> => ~ovf

LEMMA DropsNothing ==
  ASSUME TypeInv, TypeInv', Unspoilt, Next
  PROVE  Undropped
<1> SUFFICES ASSUME damage = 0, ~spoilt
             PROVE  /\ main = "poll" /\ main' \in {"execute", "send", "dead"}
                         => Len(rx) = 1 /\ tx = <<>>
                    /\ main # "poll" /\ toDevice # <<>> => ~ovf
  BY DEF Undropped, Trusted
<1>1. ASSUME main = "poll", main' \in {"execute", "send", "dead"} PROVE Len(rx) = 1 /\ tx = <<>>
  <2>1. Echo \/ Parse
    <3>1. CASE RestartTool BY <1>1, <3>1 DEF RestartTool, server
    <3>2. CASE WriteCmd \/ ReadResponse \/ DamageToDevice \/ DamageToHost \/ RxInterrupt \/ TxInterrupt
      BY <1>1, <3>2
      DEF WriteCmd, ReadResponse, DamageToDevice, DamageToHost, RxInterrupt, TxInterrupt, server
    <3>3. CASE DeviceGets \/ Execute \/ Put BY <1>1, <3>3 DEF DeviceGets, Execute, Put
    <3> QED BY <3>1, <3>2, <3>3 DEF Next, MainLoop
  <2>2. Parse
    <3>1. ~Echo
      <4> SUFFICES ASSUME Echo PROVE FALSE OBVIOUS
      <4>1. Ends /\ packet.data = <<>> BY DEF Echo
      <4>2. Len(packet.data) >= 5 BY <4>1, EndsAsking
      <4> QED BY <4>1, <4>2, Empties
    <3> QED BY <2>1, <3>1
  <2>3. Ends /\ Gets /\ rx' = <<>> /\ UNCHANGED toDevice BY <2>2 DEF Parse, Ends
  <2>4. Asking /\ Tail(stream) = <<>> BY <2>3, EndsAsking
  <2>5. Len(rx) = 1 BY <2>3, <2>4, StreamFlushed
  <2>6. reply = <<>> BY <2>4 DEF Asking
  <2> QED BY <2>5, <2>6, StreamIs
<1>2. ASSUME main # "poll", toDevice # <<>> PROVE FALSE
  <2>1. Executing \/ Answering BY <1>2 DEF Unspoilt, AtEase, Asking, Answered
  <2>2. stream = <<>> BY <2>1 DEF Executing, Answering, Synced
  <2> QED BY <1>2, <2>2, StreamIs
<1> QED BY <1>1, <1>2

\* Under the same conditions app_uart_flush, which empties both queues at the end
\* of a packet, throws no byte away, nor does a receive queue that is full.
THEOREM NothingDroppedHolds ==
  ASSUME Patient
  PROVE  Spec => NothingDropped
<1>1. (TypeInv /\ Unspoilt /\ Ending) /\ (TypeInv /\ Unspoilt /\ Ending)' /\ [Next]_vars
        => [Undropped]_vars
  BY DropsNothing
<1>2. NothingDropped <=> [][Undropped]_vars BY PTL DEF NothingDropped, Undropped
<1> QED BY <1>1, <1>2, UndamagedAlways, PTL DEF Spec

-----------------------------------------------------------------------------
(***************************************************************************)
(* Damaged sessions: what is on the line while a call waits.               *)
(***************************************************************************)
LEMMA CrcsApart ==
  /\ \A v \in Crc2s : v > 1000000
  /\ \A v \in Specials \cup {Junk, 251, 252, 253} : v \notin Crc2s
<1>1. \A q \in Payloads : q \in Nat /\ q <= 255 BY Values
<1>2. \A w \in Crc2s : w > 1000000 BY <1>1, SMT DEF Crc2s, CrcHigh, Work
<1> DEFINE C == Specials \cup {Junk, 251, 252, 253}
<1>3. \A v \in C : v <= 70000 /\ v \in Int BY SMT DEF STX, ETX, DLE, Specials, Junk
<1> HIDE DEF C
<1>4. \A v \in C : v \notin Crc2s BY <1>2, <1>3, SMT
<1> QED BY <1>2, <1>4 DEF C

\* A line on which an STX is the first byte and an ETX the last, and that carries
\* no CRC but c.
Line(s, c) ==
    \A i \in 1 .. Len(s) :
        /\ s[i] = STX => i = 1
        /\ s[i] = ETX => i = Len(s)
        /\ s[i] \in Crc2s => s[i] = c

LEMMA AskingLine ==
  ASSUME TypeInv, Asking
  PROVE  /\ Line(stream, OwnCrc)
         /\ Armed
         /\ damage = 0 /\ Begun => Own(packet.data)
<1> DEFINE R == Request
           c == OwnCrc
           s == stream
           d == packet.data
           L == Len(d)
<1>1. call # NoCall /\ Gathering BY DEF Asking, Waiting
<1>2. /\ Small5(R) /\ Len(R) = 5 /\ call.id \in 1 .. MaxId /\ call.pay \in Payloads
      /\ Packet(<<call.id, Work, call.pay>>) = <<STX>> \o Rest(R, 1)
  BY <1>1, RequestHas
<1>3. \A i \in 1 .. 5 : R[i] \in Crc2s => R[i] = c BY <1>2, RequestIs, SMTT(30) DEF Request, OwnCrc
<1>4. CASE s = Packet(<<call.id, Work, call.pay>>) /\ (damage = 0 => packet.state = "begin")
  <2>1. \A i \in 1 .. Len(s) : s[i] \in Crc2s => s[i] = c BY <1>2, <1>4, RequestLine DEF OwnCrc
  <2>2. Framed(s) BY <1>2, <1>4, RestFramed, Zenon
  <2>3. Len(s) \in Nat BY StreamIs
  <2> HIDE DEF s, c
  <2>4. ASSUME NEW i \in 1 .. Len(s)
        PROVE  (s[i] = STX => i = 1) /\ (s[i] = ETX => i = Len(s))
    <3>1. STX # ETX BY DEF STX, ETX
    <3>2. s[1] = STX /\ \A k \in 2 .. Len(s) : s[k] # STX /\ (s[k] = ETX => k = Len(s))
      BY <2>2 DEF Framed
    <3>3. i = 1 \/ i \in 2 .. Len(s) BY <2>3
    <3> QED BY <3>1, <3>2, <3>3
  <2>5. Line(s, c) BY <2>1, <2>4 DEF Line
  <2>6. s[1] = STX /\ 1 \in 1 .. Len(s)
    <3>1. Len(s) >= 2 /\ s[1] = STX BY <2>2 DEF Framed
    <3> QED BY <3>1, <2>3
  <2>7. Started1 BY <2>6 DEF Started1, s
  <2>8. Begun => packet.state # "begin" BY DEF Begun
  <2> QED BY <1>4, <2>5, <2>7, <2>8 DEF Armed, s, c
<1>5. CASE /\ packet.state = "progress"
           /\ \E n \in 0 .. L :
                /\ damage = 0 => n = 0
                /\ Follows(R, s, SubSeq(d, n + 1, L), packet.neg)
  <2>1. PICK n \in 0 .. L : /\ damage = 0 => n = 0
                            /\ Follows(R, s, SubSeq(d, n + 1, L), packet.neg)
    BY <1>5
  <2>2. packet.neg \in BOOLEAN /\ d \in Seq(Decoded) BY DEF TypeInv, TypeServer
  <2>3. Tidy(s, R) BY <1>2, <2>1, <2>2, FollowsTidy
  <2>4. Armed BY <1>5 DEF Armed, Begun
  <2>5. Line(s, c)
    <3> SUFFICES ASSUME NEW i \in 1 .. Len(s)
                 PROVE  (s[i] = STX => i = 1) /\ (s[i] = ETX => i = Len(s))
                        /\ (s[i] \in Crc2s => s[i] = c)
      BY DEF Line
    <3>1. /\ s[i] # STX /\ (s[i] = ETX => i = Len(s))
          /\ s[i] \in {ETX, DLE, 251, 252, 253} \/ \E j \in 1 .. Len(R) : s[i] = R[j]
      BY <2>3 DEF Tidy
    <3>2. s[i] \in {ETX, DLE, 251, 252, 253} => s[i] \notin Crc2s
      BY CrcsApart DEF Specials
    <3> HIDE DEF s, R, c
    <3> QED BY <1>2, <1>3, <3>1, <3>2
  <2>6. ASSUME damage = 0 PROVE Own(d)
    <3>1. n = 0 BY <2>1, <2>6
    <3>2. 0 + 1 = 1 OBVIOUS
    <3>3. SubSeq(d, n + 1, L) = SubSeq(d, 1, L) BY <3>1, <3>2, Zenon
    <3>4. SubSeq(d, 1, L) = d BY <2>2, SubSeqFull
    <3>5. Follows(R, s, d, packet.neg) BY <2>1, <3>3, <3>4, Zenon
    <3>6. PICK k \in 1 .. Len(R) + 1 : d = SubSeq(R, 1, k - 1) BY <3>5 DEF Follows
    <3>7. k \in 1 .. 6 /\ R \in Seq(Int) BY <3>6, <1>2 DEF Small5
    <3>8. \A i \in 1 .. Len(d) : i \in 1 .. 5 /\ d[i] = R[i]
      <4>1. k - 1 \in 0 .. Len(R) /\ k - 1 \in Int /\ 1 \in Int BY <3>7, <1>2
      <4>2. \A i \in 1 .. k - 1 : i \in 1 .. Len(R) /\ i \in 1 .. 5 BY <3>7, <1>2
      <4>3. \A i \in 1 .. k - 1 : R[i] \in Int BY <4>2, <3>7, ElementOfSeq
      <4>4. /\ Len(SubSeq(R, 1, k - 1)) = IF 1 <= k - 1 THEN (k - 1) - 1 + 1 ELSE 0
            /\ \A i \in 1 .. (k - 1) - 1 + 1 : SubSeq(R, 1, k - 1)[i] = R[1 + i - 1]
        BY <4>1, <4>3, SubSeqProperties
      <4>5. Len(d) = k - 1
        <5>1. Len(d) = IF 1 <= k - 1 THEN (k - 1) - 1 + 1 ELSE 0 BY <3>6, <4>4, Zenon
        <5> HIDE DEF d
        <5> QED BY <5>1, <3>7
      <4> HIDE DEF d
      <4>6. ASSUME NEW i \in 1 .. k - 1 PROVE d[i] = R[i]
        <5>1. i \in 1 .. (k - 1) - 1 + 1 /\ 1 + i - 1 = i BY <3>7
        <5> QED BY <5>1, <3>6, <4>4
      <4> QED BY <4>2, <4>5, <4>6
    <3> HIDE DEF d, R, c
    <3>9. \A i \in 1 .. Len(d) : d[i] \in Crc2s => d[i] = c BY <1>3, <3>8
    <3> QED BY <3>9 DEF Own, c
  <2> QED BY <2>4, <2>5, <2>6
<1> QED BY <1>1, <1>4, <1>5 DEF Gathering

-----------------------------------------------------------------------------
(***************************************************************************)
(* Once: behind the end of a packet under way no other begins.             *)
(***************************************************************************)
LEMMA OnceThinned ==
  ASSUME NEW s, NEW t, NEW h, NEW d, Thinned(s, t, h, d), NEW g \in BOOLEAN, NEW e \in BOOLEAN,
         Once(s, g), e => g
  PROVE  Once(t, e)
<1> DEFINE f(i) == IF i <= h THEN i ELSE i + d
<1>1. h \in Nat /\ d \in Nat /\ Len(s) \in Nat /\ Len(t) \in Nat /\ Len(s) = Len(t) + d
  BY DEF Thinned
<1>2. \A i \in 1 .. Len(t) : f(i) \in 1 .. Len(s) /\ t[i] = s[f(i)]
  BY <1>1 DEF Thinned
<1>3. \A i, j \in 1 .. Len(t) : i < j => f(i) < f(j) BY <1>1
<1>4. \A i, j \in 1 .. Len(t) : i <= j => f(i) <= f(j) BY <1>1
<1> HIDE DEF f
<1>5. SUFFICES ASSUME NEW j \in 1 .. Len(t), NEW k \in 1 .. Len(t),
                      t[j] = ETX, t[k] = STX, j < k
               PROVE  ~e /\ \A i \in 1 .. j : t[i] # STX
  BY DEF Once
<1>6. /\ f(j) \in 1 .. Len(s) /\ f(k) \in 1 .. Len(s) /\ s[f(j)] = ETX /\ s[f(k)] = STX
      /\ f(j) < f(k)
  BY <1>2, <1>3, <1>5
<1>7. ~g /\ \A i \in 1 .. f(j) : s[i] # STX BY <1>6 DEF Once
<1>8. ASSUME NEW i \in 1 .. j PROVE t[i] # STX
  <2>1. i \in 1 .. Len(t) /\ i <= j BY <1>1
  <2>2. f(i) \in 1 .. Len(s) /\ f(i) <= f(j) /\ t[i] = s[f(i)] BY <2>1, <1>2, <1>4
  <2>3. f(i) \in 1 .. f(j) BY <2>2, <1>1, <1>6
  <2> QED BY <2>2, <2>3, <1>7
<1> QED BY <1>7, <1>8

\* A packet begins with the byte taken.
LEMMA OnceBegun ==
  ASSUME NEW s, NEW t, Thinned(s, t, 0, 1), s[1] = STX, Once(s, FALSE)
  PROVE  Once(t, TRUE)
<1>1. Len(s) \in Nat /\ Len(t) \in Nat /\ Len(s) = Len(t) + 1 BY DEF Thinned
<1>2. \A i \in 1 .. Len(t) : i + 1 \in 1 .. Len(s) /\ t[i] = s[i + 1]
  <2>1. \A i \in 1 .. Len(t) : ~(i <= 0) OBVIOUS
  <2> QED BY <2>1, <1>1 DEF Thinned
<1>3. SUFFICES ASSUME NEW j \in 1 .. Len(t), NEW k \in 1 .. Len(t),
                      t[j] = ETX, t[k] = STX, j < k
               PROVE  FALSE
  BY DEF Once
<1>4. /\ j + 1 \in 1 .. Len(s) /\ k + 1 \in 1 .. Len(s) /\ j + 1 < k + 1
      /\ s[j + 1] = ETX /\ s[k + 1] = STX
  BY <1>1, <1>2, <1>3
<1>5. \A i \in 1 .. j + 1 : s[i] # STX BY <1>4 DEF Once
<1>6. 1 \in 1 .. j + 1 BY <1>1
<1> QED BY <1>5, <1>6

\* Where no packet has begun one may be written, and on an empty line.
LEMMA OnceWritten ==
  ASSUME NEW s, NEW P, NEW t, Framed(P), Len(s) \in Nat, Len(P) \in Nat,
         Len(t) = Len(s) + Len(P),
         \A i \in 1 .. Len(t) : t[i] = IF i <= Len(s) THEN s[i] ELSE P[i - Len(s)],
         \A i \in 1 .. Len(s) : s[i] # STX, NEW g \in BOOLEAN, g => Len(s) = 0
  PROVE  Once(t, g)
<1> DEFINE n == Len(s)
           m == Len(P)
           l == Len(t)
<1>1. n \in Nat /\ m \in Nat /\ l = n + m /\ (g => n = 0)
      /\ (\A i \in 1 .. l : t[i] = IF i <= n THEN s[i] ELSE P[i - n])
      /\ (\A i \in 1 .. n : s[i] # STX)
  BY Zenon
<1>2. P[1] = STX /\ \A i \in 2 .. m : P[i] # STX /\ (P[i] = ETX => i = m) BY DEF Framed
<1>3. SUFFICES ASSUME NEW j \in 1 .. l, NEW k \in 1 .. l,
                      t[j] = ETX, t[k] = STX, j < k
               PROVE  ~g /\ \A i \in 1 .. j : t[i] # STX
  BY DEF Once
<1> HIDE DEF n, m, l
<1>4. \A i \in 1 .. l : t[i] = STX => i = n + 1
  <2> SUFFICES ASSUME NEW i \in 1 .. l, t[i] = STX PROVE i = n + 1 OBVIOUS
  <2>1. CASE i <= n
    <3>1. i \in 1 .. n BY <2>1, <1>1
    <3>2. t[i] = s[i] BY <2>1, <1>1
    <3> QED BY <3>1, <3>2, <1>1
  <2>2. CASE ~(i <= n)
    <3>1. i - n \in 1 .. m BY <2>2, <1>1
    <3>2. t[i] = P[i - n] BY <2>2, <1>1
    <3>3. i - n \notin 2 .. m BY <3>2, <1>2
    <3> QED BY <3>1, <3>3, <1>1
  <2> QED BY <2>1, <2>2
<1>5. k = n + 1 BY <1>3, <1>4
<1>6. j \in 1 .. n BY <1>1, <1>3, <1>5
<1>7. ~g BY <1>1, <1>6
<1>8. ASSUME NEW i \in 1 .. j PROVE t[i] # STX
  <2>1. i \in 1 .. n /\ i \in 1 .. l /\ i <= n BY <1>1, <1>6
  <2>2. t[i] = s[i] BY <2>1, <1>1
  <2> QED BY <2>1, <2>2, <1>1
<1> QED BY <1>7, <1>8

\* One byte of a line with one packet, or its rest, changes.
LEMMA OnceAltered ==
  ASSUME NEW s, NEW t, NEW p, NEW c, Altered(s, t, p), Line(s, c), NEW g \in BOOLEAN
  PROVE  Once(t, g)
<1>1. Len(s) \in Nat /\ Len(t) = Len(s) /\ p \in 1 .. Len(s)
      /\ \A i \in 1 .. Len(s) : i # p => t[i] = s[i]
  BY DEF Altered
<1>2. \A i \in 1 .. Len(s) : (s[i] = STX => i = 1) /\ (s[i] = ETX => i = Len(s))
  BY DEF Line
<1>3. STX # ETX BY DEF STX, ETX
<1>4. SUFFICES ASSUME NEW j \in 1 .. Len(t), NEW k \in 1 .. Len(t),
                      t[j] = ETX, t[k] = STX, j < k
               PROVE  FALSE
  BY DEF Once
<1>5. j \in 1 .. Len(s) /\ k \in 1 .. Len(s) BY <1>1
<1>6. k = p
  <2> SUFFICES ASSUME k # p PROVE FALSE OBVIOUS
  <2>1. s[k] = STX BY <1>1, <1>4, <1>5
  <2>2. k = 1 BY <2>1, <1>2, <1>5
  <2> QED BY <2>2, <1>4, <1>1
<1>7. j # p BY <1>3, <1>4, <1>6
<1>8. s[j] = ETX BY <1>1, <1>4, <1>5, <1>7
<1>9. j = Len(s) BY <1>2, <1>5, <1>8
<1> QED BY <1>1, <1>4, <1>9

LEMMA OnceStep ==
  ASSUME Patient, TypeInv, TypeInv', [Next]_vars, Unspoilt, Turns, Once(stream, Begun)
  PROVE  Once(stream', Begun')
<1>1. Begun \in BOOLEAN /\ Begun' \in BOOLEAN BY DEF Begun
<1>2. ASSUME stream' = stream, UNCHANGED packet PROVE Once(stream', Begun')
  BY <1>2 DEF Begun
<1>3. ASSUME NEW h, NEW d, Thinned(stream, stream', h, d), Begun' => Begun
      PROVE  Once(stream', Begun')
  BY <1>1, <1>3, OnceThinned
<1>4. CASE WriteCmd
  <2>1. PICK P \in Seq(Wire) :
           /\ call = NoCall /\ Framed(P) /\ Len(P) \in Nat
           /\ Len(stream') = Len(stream) + Len(P)
           /\ \A i \in 1 .. Len(stream') :
                stream'[i] = IF i <= Len(stream) THEN stream[i] ELSE P[i - Len(stream)]
    BY <1>4, StreamWritten
  <2>2. UNCHANGED packet BY <1>4 DEF WriteCmd, server
  <2>3. Len(stream) \in Nat BY StreamIs
  <2>4. (\A i \in 1 .. Len(stream) : stream[i] # STX) /\ (Begun' => Len(stream) = 0)
    <3>1. CASE spoilt
      <4>1. ~Armed BY <2>1, <3>1 DEF Turns
      <4> QED BY <4>1, <2>2 DEF Armed, Started1, Begun
    <3>2. CASE ~spoilt
      <4>1. AtEase BY <2>1, <3>2 DEF Unspoilt, Asking, Executing, Answering, Answered, Waiting
      <4>2. stream = <<>> BY <4>1 DEF AtEase, Silent
      <4>3. Len(stream) = 0 BY <4>2, Empties, Zenon
      <4>4. \A i \in 1 .. 0 : FALSE OBVIOUS
      <4> QED BY <4>3, <4>4, Zenon
    <3> QED BY <3>1, <3>2
  <2> HIDE DEF stream, Begun
  <2> QED BY <1>1, <2>1, <2>3, <2>4, OnceWritten
<1>5. CASE ReadResponse BY <1>2, <1>5 DEF ReadResponse, queues, server, stream
<1>6. CASE RestartTool
  <2>1. CASE main = "dead"
    <3>1. toDevice' = <<>> /\ rx' = <<>> BY <1>6, <2>1 DEF RestartTool
    <3>2. stream' = <<>> BY <3>1 DEF stream
    <3>3. \A i \in 1 .. Len(stream') : FALSE BY <3>2
    <3> QED BY <3>3 DEF Once
  <2>2. CASE main # "dead"
    <3>1. UNCHANGED <<toDevice, queues, server>> BY <1>6, <2>2 DEF RestartTool
    <3> QED BY <1>2, <3>1 DEF queues, server, stream
  <2> QED BY <2>1, <2>2
<1>7. CASE DamageToDevice
  <2>1. UNCHANGED packet /\ ~spoilt /\ call # NoCall /\ toDevice # <<>>
    BY <1>7 DEF DamageToDevice, server, Spoils, Trusted
  <2>2. Begun' = Begun BY <2>1 DEF Begun
  <2>3. CASE \E d \in 1 .. Len(toDevice) : Thinned(stream, stream', Len(rx), d)
    BY <1>3, <2>2, <2>3
  <2>4. CASE Altered(stream, stream', Len(rx) + 1)
    <3>1. Asking
      <4>1. stream # <<>> BY <2>1, StreamIs
      <4> QED BY <2>1, <4>1 DEF Unspoilt, AtEase, Executing, Answering, Answered, Silent, Synced
    <3>2. Line(stream, OwnCrc) BY <3>1, AskingLine
    <3> QED BY <1>1, <2>4, <3>2, OnceAltered
  <2> QED BY <1>7, <2>3, <2>4, DamageIs
<1>8. CASE DamageToHost BY <1>2, <1>8 DEF DamageToHost, server, stream
<1>9. CASE RxInterrupt
  <2>1. UNCHANGED packet BY <1>9 DEF RxInterrupt, server
  <2>2. CASE ovf \/ main = "dead"
    <3>1. Thinned(stream, stream', Len(rx), 1) BY <1>9, <2>2, RxLoses
    <3> QED BY <1>3, <2>1, <3>1 DEF Begun
  <2>3. CASE ~ovf /\ main # "dead" BY <1>2, <1>9, <2>1, <2>3, RxMoves
  <2> QED BY <2>2, <2>3
<1>10. CASE TxInterrupt BY <1>2, <1>10 DEF TxInterrupt, server, stream
<1>11. CASE DeviceGets
  <2>1. Gets /\ rx' = Tail(rx) /\ UNCHANGED toDevice BY <1>11 DEF DeviceGets
  <2>2. stream[1] = Head(rx) /\ Thinned(stream, stream', 0, 1) BY <2>1, StreamTaken
  <2>3. CASE Begun' => Begun BY <1>3, <2>2, <2>3
  <2>4. CASE Begun' /\ ~Begun
    <3>1. packet.state = "begin" BY <2>4 DEF Begun, TypeInv, TypeServer
    <3>2. Head(rx) = STX
      <4> SUFFICES ASSUME Head(rx) # STX PROVE FALSE OBVIOUS
      <4>1. packet' = packet BY <1>11, <3>1, Collected
      <4> QED BY <4>1, <2>4 DEF Begun
    <3>3. Begun = FALSE /\ Begun' = TRUE BY <1>1, <2>4
    <3> HIDE DEF Begun
    <3>4. Once(stream, FALSE) BY <3>3, Zenon
    <3>5. Once(stream', TRUE) BY <2>2, <3>2, <3>4, OnceBegun
    <3> QED BY <3>3, <3>5, Zenon
  <2> QED BY <2>3, <2>4
<1>12. CASE Echo \/ Parse
  <2>1. Ends /\ Gets /\ UNCHANGED toDevice /\ (rx' = Tail(rx) \/ rx' = <<>>)
    BY <1>12 DEF Echo, Parse, Ends
  <2>2. ~Begun' BY <2>1, EndsTypes DEF Begun
  <2>3. CASE rx' = Tail(rx)
    <3>1. Thinned(stream, stream', 0, 1) BY <2>1, <2>3, StreamTaken
    <3> QED BY <1>3, <2>2, <3>1
  <2>4. CASE rx' = <<>>
    <3>1. Thinned(stream, stream', 0, Len(rx)) BY <2>1, <2>4, StreamFlushed
    <3> QED BY <1>3, <2>2, <3>1
  <2> QED BY <2>1, <2>3, <2>4
<1>13. CASE Execute BY <1>2, <1>13 DEF Execute, queues, stream
<1>14. CASE Put BY <1>2, <1>14 DEF Put, stream
<1>15. CASE UNCHANGED vars BY <1>2, <1>15 DEF vars, queues, server, stream
<1> QED
  BY <1>4, <1>5, <1>6, <1>7, <1>8, <1>9, <1>10, <1>11, <1>12, <1>13, <1>14, <1>15
  DEF Next, MainLoop

-----------------------------------------------------------------------------
(***************************************************************************)
(* OwnCrcs: no CRC but that of the call is in, or behind the start of, a   *)
(* packet while a damaged session waits.                                   *)
(***************************************************************************)
LEMMA OwnThinned ==
  ASSUME NEW s, NEW t, NEW h, NEW d, Thinned(s, t, h, d), NEW g \in BOOLEAN, NEW e \in BOOLEAN,
         NEW c, OwnLine(s, g, c), e => g \/ (s[1] = STX /\ Len(s) >= 1)
  PROVE  OwnLine(t, e, c)
<1> DEFINE f(i) == IF i <= h THEN i ELSE i + d
<1>1. h \in Nat /\ d \in Nat /\ Len(s) \in Nat /\ Len(t) \in Nat /\ Len(s) = Len(t) + d
  BY DEF Thinned
<1>2. \A i \in 1 .. Len(t) : f(i) \in 1 .. Len(s) /\ t[i] = s[f(i)]
  BY <1>1 DEF Thinned
<1>4. \A i, j \in 1 .. Len(t) : i <= j => f(i) <= f(j) BY <1>1
<1> HIDE DEF f
<1>5. SUFFICES ASSUME NEW i \in 1 .. Len(t), NEW j \in 1 .. Len(t),
                      e \/ t[i] = STX, i <= j, t[j] \in Crc2s
               PROVE  t[j] = c
  BY DEF OwnLine
<1>6. f(i) \in 1 .. Len(s) /\ f(j) \in 1 .. Len(s) /\ f(i) <= f(j) /\ t[i] = s[f(i)] /\ t[j] = s[f(j)]
  BY <1>2, <1>4, <1>5
<1>7. CASE g \/ t[i] = STX BY <1>5, <1>6, <1>7 DEF OwnLine
<1>8. CASE ~g /\ t[i] # STX
  <2>1. s[1] = STX /\ Len(s) >= 1 BY <1>5, <1>8
  <2>2. 1 \in 1 .. Len(s) /\ 1 <= f(j) BY <2>1, <1>1, <1>6
  <2> QED BY <2>1, <2>2, <1>5, <1>6 DEF OwnLine
<1> QED BY <1>7, <1>8

\* On a line with one packet, or its rest.
LEMMA OwnKept ==
  ASSUME NEW s, NEW t, NEW c, Line(s, c),
         \/ \E h, d : Thinned(s, t, h, d)
         \/ \E p : Altered(s, t, p),
         NEW e \in BOOLEAN
  PROVE  OwnLine(t, e, c)
<1>1. ASSUME NEW j \in 1 .. Len(t), t[j] \in Crc2s
      PROVE  \E i \in 1 .. Len(s) : t[j] = s[i]
  <2>1. CASE \E h, d : Thinned(s, t, h, d)
    <3>1. PICK h, d : Thinned(s, t, h, d) BY <2>1
    <3> QED BY <3>1, ThinnedAt
  <2>2. CASE \E p : Altered(s, t, p)
    <3>1. PICK p : Altered(s, t, p) BY <2>2
    <3>2. /\ Len(t) = Len(s) /\ t[p] \in Specials \cup {Junk}
          /\ \A i \in 1 .. Len(s) : i # p => t[i] = s[i]
      BY <3>1 DEF Altered
    <3>3. j # p BY <1>1, <3>2, CrcsApart
    <3>4. j \in 1 .. Len(s) BY <3>2
    <3> QED BY <3>2, <3>3, <3>4
  <2> QED BY <2>1, <2>2
<1>2. \A i \in 1 .. Len(s) : s[i] \in Crc2s => s[i] = c BY DEF Line
<1>3. \A j \in 1 .. Len(t) : t[j] \in Crc2s => t[j] = c BY <1>1, <1>2
<1> QED BY <1>3 DEF OwnLine

\* The receiver takes a byte of the call's packet.
LEMMA OwnStored ==
  ASSUME TypeInv, DeviceGets, spoilt, call # NoCall, Begun',
         Begun => Own(packet.data), OwnLine(stream, Begun, OwnCrc),
         stream[1] = Head(rx), Len(stream) >= 1, Len(stream) \in Nat, Head(rx) \in Wire
  PROVE  Own(packet.data)'
<1> DEFINE b == Head(rx)
           d == packet.data
           e == packet'.data
<1>0. UNCHANGED call BY DEF DeviceGets, tool
<1>1. OwnCrc' = OwnCrc BY <1>0 DEF OwnCrc
<1>2. packet \in [state : {"begin", "progress"}, data : Seq(Decoded), neg : BOOLEAN]
  BY DEF TypeInv, TypeServer
<1>3. Crc2s' = Crc2s BY DEF Crc2s
<1>4. SUFFICES \A j \in 1 .. Len(e) : e[j] \in Crc2s => e[j] = OwnCrc
  BY <1>1, <1>3 DEF Own
<1>5. ASSUME e = <<>> PROVE \A j \in 1 .. Len(e) : e[j] \in Crc2s => e[j] = OwnCrc
  <2>1. \A j \in 1 .. Len(e) : FALSE BY <1>5
  <2> QED BY <2>1
<1>6. CASE ~Begun
  <2>1. packet.state = "begin" BY <1>2, <1>6 DEF Begun
  <2>2. b = STX
    <3> SUFFICES ASSUME b # STX PROVE FALSE OBVIOUS
    <3>1. packet' = packet BY <2>1, Collected
    <3> QED BY <3>1, <1>6 DEF Begun
  <2>3. packet' = Started(packet) BY <2>1, <2>2, Collected
  <2>4. e = <<>> BY <2>3 DEF Started
  <2> QED BY <2>4, <1>5
<1>7. CASE Begun
  <2>0. packet.state = "progress" BY <1>7 DEF Begun
  <2>1. \A j \in 1 .. Len(d) : d[j] \in Crc2s => d[j] = OwnCrc BY <1>7 DEF Own
  <2>2. CASE ~packet.neg /\ b = STX
    <3>1. packet' = Restarted(packet) BY <2>0, <2>2, Collected
    <3>2. e = <<>> BY <3>1, <1>2 DEF Restarted
    <3> QED BY <3>2, <1>5
  <2>3. CASE ~packet.neg /\ b = DLE
    <3>1. packet' = [packet EXCEPT !.neg = TRUE] BY <2>0, <2>3, Collected
    <3>2. e = d BY <3>1, <1>2
    <3> QED BY <3>2, <2>1
  <2>4. CASE packet.neg \/ b \notin {STX, DLE}
    <3> DEFINE v == Next2(packet.neg, b)
    <3>1. packet' = Stored(packet, b) BY <2>0, <2>4, Collected
    <3>2. packet' = [packet EXCEPT !.data = Append(@, v), !.neg = FALSE]
      BY <3>1 DEF Stored, Next2
    <3>3. e = Append(d, v) /\ d \in Seq(Decoded) BY <1>2, <3>2
    <3>4. v \in Crc2s => v = OwnCrc
      <4>1. Negated(b) \notin Crc2s BY DecodedIs
      <4>2. b \in Crc2s => b = OwnCrc
        <5>1. 1 \in 1 .. Len(stream) /\ 1 <= 1 OBVIOUS
        <5> QED BY <5>1, <1>7 DEF OwnLine
      <4> QED BY <4>1, <4>2 DEF Next2
    <3>5. v \in Decoded BY DecodedIs DEF Next2
    <3> DEFINE D == Decoded
               n == Len(d)
    <3>6. d \in Seq(D) /\ v \in D BY <3>3, <3>5
    <3>8. \A j \in 1 .. n : d[j] \in Crc2s => d[j] = OwnCrc BY <2>1
    <3> HIDE DEF D, v
    <3>7. n \in Nat /\ Len(Append(d, v)) = n + 1 /\ Append(d, v)[n + 1] = v
          /\ \A j \in 1 .. n : Append(d, v)[j] = d[j]
      BY <3>6, AppendProperties
    <3> HIDE DEF d, e, n
    <3>9. ASSUME NEW j \in 1 .. n + 1, e[j] \in Crc2s PROVE e[j] = OwnCrc
      <4>1. CASE j = n + 1 BY <4>1, <3>9, <3>3, <3>4, <3>7
      <4>2. CASE j # n + 1
        <5>1. j \in 1 .. n BY <4>2, <3>7
        <5> QED BY <5>1, <3>9, <3>3, <3>7, <3>8
      <4> QED BY <4>1, <4>2
    <3>10. Len(e) = n + 1 BY <3>3, <3>7
    <3>11. \A j \in 1 .. Len(e) : e[j] \in Crc2s => e[j] = OwnCrc BY <3>9, <3>10, Zenon
    <3> QED BY <3>11
  <2>5. (~packet.neg /\ b = STX) \/ (~packet.neg /\ b = DLE) \/ (packet.neg \/ b \notin {STX, DLE})
    OBVIOUS
  <2> QED BY <2>2, <2>3, <2>4, <2>5
<1> QED BY <1>6, <1>7

\* A byte is only lost in a session that is damaged.
LEMMA LosesSpoilt ==
  ASSUME TypeInv, Unspoilt, Turns, RxInterrupt, ovf \/ main = "dead"
  PROVE  spoilt
<1>1. toDevice # <<>> /\ (main = "poll" => ~ovf) BY DEF RxInterrupt, KeepsUp
<1>2. SUFFICES ASSUME ~spoilt PROVE FALSE OBVIOUS
<1>3. stream # <<>> BY <1>1, StreamIs
<1>4. Asking
  BY <1>2, <1>3 DEF Unspoilt, AtEase, Executing, Answering, Answered, Silent, Synced
<1>5. main = "poll" BY <1>4 DEF Asking
<1> QED BY <1>1, <1>5

\* Behind the end of a packet no other has begun.
LEMMA EndsDisarmed ==
  ASSUME TypeInv, TypeInv', Echo \/ Parse, Once(stream, Begun)
  PROVE  ~Armed'
<1>1. Ends /\ Gets /\ UNCHANGED toDevice /\ (rx' = Tail(rx) \/ rx' = <<>>)
  BY DEF Echo, Parse, Ends
<1>2. ~Begun' BY <1>1, EndsTypes DEF Begun
<1>3. Begun /\ Head(rx) = ETX BY <1>1 DEF Ends, Begun
<1>4. PICK d \in Nat : d >= 1 /\ stream[1] = ETX /\ Thinned(stream, stream', 0, d)
  <2>1. 1 \in Nat /\ Len(rx) \in Nat /\ 1 >= 1 BY StreamIs
  <2>2. CASE rx' = Tail(rx) BY <1>1, <1>3, <2>1, <2>2, StreamTaken
  <2>3. CASE rx' = <<>> BY <1>1, <1>3, <2>1, <2>3, StreamFlushed
  <2> QED BY <1>1, <2>2, <2>3
<1>5. SUFFICES ASSUME NEW i \in 1 .. Len(stream'), stream'[i] = STX PROVE FALSE
  BY <1>2 DEF Armed, Started1
<1> DEFINE n == Len(stream)
           m == Len(stream')
<1>6. n \in Nat /\ m \in Nat /\ n = m + d /\ \A j \in 1 .. m : stream'[j] = stream[j + d]
  <2>1. \A j \in 1 .. m : ~(j <= 0) OBVIOUS
  <2> QED BY <2>1, <1>4 DEF Thinned
<1>7. i \in 1 .. m OBVIOUS
<1> HIDE DEF n, m
<1>8. i + d \in 1 .. n /\ 1 \in 1 .. n /\ 1 < i + d BY <1>4, <1>6, <1>7
<1>9. stream[i + d] = STX BY <1>5, <1>6, <1>7
<1>10. ~Begun BY <1>4, <1>8, <1>9 DEF Once, n
<1> QED BY <1>3, <1>10

LEMMA OwnCrcsStep ==
  ASSUME Patient, TypeInv, TypeInv', [Next]_vars, Unspoilt, Turns,
         Once(stream, Begun), Once(stream', Begun'), OwnCrcs
  PROVE  OwnCrcs'
<1>1. Begun \in BOOLEAN /\ Begun' \in BOOLEAN BY DEF Begun
<1>2. Crc2s' = Crc2s BY DEF Crc2s
<1>3. ASSUME UNCHANGED call PROVE OwnCrc' = OwnCrc BY <1>3 DEF OwnCrc
<1>4. ASSUME call' # NoCall => OwnLine(stream', Begun', OwnCrc'),
             spoilt' /\ Begun' => Own(packet.data)'
      PROVE  OwnCrcs'
  BY <1>2, <1>4 DEF OwnCrcs, OwnLine
<1>5. ASSUME UNCHANGED call, UNCHANGED packet, UNCHANGED spoilt, stream' = stream PROVE OwnCrcs'
  <2>1. OwnCrc' = OwnCrc /\ Begun' = Begun BY <1>3, <1>5 DEF Begun
  <2>2. Own(packet.data) => Own(packet.data)' BY <1>2, <1>5, <2>1 DEF Own
  <2> QED BY <1>4, <1>5, <2>1, <2>2 DEF OwnCrcs
<1>6. CASE WriteCmd
  <2>1. PICK P \in Seq(Wire) :
           /\ call = NoCall /\ Len(P) \in Nat
           /\ \A i \in 1 .. Len(P) : P[i] \in Crc2s => P[i] = CrcHigh(Work, 1 + call'.pay)
           /\ Len(stream') = Len(stream) + Len(P)
           /\ \A i \in 1 .. Len(stream') :
                stream'[i] = IF i <= Len(stream) THEN stream[i] ELSE P[i - Len(stream)]
    BY <1>6, StreamWritten
  <2>2. UNCHANGED packet /\ UNCHANGED spoilt BY <1>6 DEF WriteCmd, server
  <2>3. Len(stream) \in Nat BY StreamIs
  <2>4. Begun' = Begun BY <2>2 DEF Begun
  <2>5. spoilt => ~Armed BY <2>1 DEF Turns
  <2>6. ~spoilt => Len(stream) = 0
    <3> SUFFICES ASSUME ~spoilt PROVE Len(stream) = 0 OBVIOUS
    <3>1. AtEase BY <2>1 DEF Unspoilt, Asking, Executing, Answering, Answered, Waiting
    <3>2. stream = <<>> BY <3>1 DEF AtEase, Silent
    <3> QED BY <3>2, Empties, Zenon
  <2>7. OwnLine(stream', Begun', OwnCrc')
    <3> DEFINE s == stream
               t == stream'
               c == OwnCrc'
               n == Len(s)
               l == Len(t)
               m == Len(P)
    <3>1. /\ n \in Nat /\ m \in Nat /\ l = n + m
          /\ \A i \in 1 .. l : t[i] = IF i <= n THEN s[i] ELSE P[i - n]
          /\ \A i \in 1 .. m : P[i] \in Crc2s => P[i] = c
      BY <2>1, <2>3 DEF OwnCrc
    <3>2. Begun' => n = 0 BY <2>4, <2>5, <2>6 DEF Armed
    <3>3. \A i \in 1 .. n : s[i] # STX
      <4>1. CASE spoilt BY <2>5, <4>1 DEF Armed, Started1
      <4>2. CASE ~spoilt
        <5>1. n = 0 BY <2>6, <4>2
        <5> HIDE DEF n
        <5> QED BY <5>1
      <4> QED BY <4>1, <4>2
    <3> SUFFICES ASSUME NEW i \in 1 .. l, NEW j \in 1 .. l,
                        Begun' \/ t[i] = STX, i <= j, t[j] \in Crc2s
                 PROVE  t[j] = c
      BY DEF OwnLine
    <3> HIDE DEF s, t, c, n, l, m
    <3>4. ~(j <= n)
      <4> SUFFICES ASSUME j <= n PROVE FALSE OBVIOUS
      <4>1. i \in 1 .. n BY <3>1
      <4>2. t[i] = s[i] BY <4>1, <3>1
      <4>3. ~Begun' BY <4>1, <3>1, <3>2
      <4> QED BY <4>1, <4>2, <4>3, <3>3
    <3>5. j - n \in 1 .. m /\ t[j] = P[j - n] BY <3>1, <3>4
    <3> QED BY <3>1, <3>5
  <2>8. ~(spoilt' /\ Begun') BY <2>2, <2>4, <2>5 DEF Armed
  <2> QED BY <1>4, <2>7, <2>8
<1>7. CASE ReadResponse
  <2>1. call' = NoCall /\ UNCHANGED packet /\ Fitting # {} BY <1>7 DEF ReadResponse, server
  <2>2. answers # <<>> BY <2>1 DEF Fitting
  <2>3. ~Begun BY <2>2 DEF Turns, Armed
  <2>4. ~Begun' BY <2>1, <2>3 DEF Begun
  <2> QED BY <1>4, <2>1, <2>4
<1>8. CASE RestartTool BY <1>4, <1>8 DEF RestartTool
<1>9. CASE DamageToDevice
  <2>1. /\ UNCHANGED packet /\ UNCHANGED call /\ ~spoilt /\ damage = 0 /\ call # NoCall /\ toDevice # <<>>
    BY <1>9 DEF DamageToDevice, server, tool, Spoils, Trusted
  <2>2. Begun' = Begun /\ OwnCrc' = OwnCrc BY <1>3, <2>1 DEF Begun
  <2>3. Asking
    <3>1. stream # <<>> BY <2>1, StreamIs
    <3> QED BY <2>1, <3>1 DEF Unspoilt, AtEase, Executing, Answering, Answered, Silent, Synced
  <2>4. Line(stream, OwnCrc) /\ (Begun => Own(packet.data)) BY <2>1, <2>3, AskingLine
  <2>5. OwnLine(stream', Begun', OwnCrc)
    <3>1. \/ \E h, d : Thinned(stream, stream', h, d)
          \/ \E p : Altered(stream, stream', p)
      BY <1>9, DamageIs
    <3> QED BY <1>1, <2>4, <3>1, OwnKept
  <2>6. Own(packet.data) => Own(packet.data)' BY <1>2, <2>1, <2>2 DEF Own
  <2> QED BY <1>4, <2>2, <2>4, <2>5, <2>6
<1>10. CASE DamageToHost
  <2>1. /\ UNCHANGED packet /\ UNCHANGED call /\ ~spoilt /\ tx # <<>> /\ stream' = stream
    BY <1>10 DEF DamageToHost, server, Spoils, Trusted, stream
  <2>2. Begun' = Begun /\ OwnCrc' = OwnCrc BY <1>3, <2>1 DEF Begun
  <2>3. Answering
    <3>1. reply # <<>> BY <2>1, StreamIs
    <3> QED BY <2>1, <3>1 DEF Unspoilt, AtEase, Asking, Executing, Answered, Silent
  <2>4. ~Begun BY <2>3 DEF Answering, Synced, Begun
  <2> QED BY <1>4, <2>1, <2>2, <2>4 DEF OwnCrcs
<1>11. CASE RxInterrupt
  <2>1. UNCHANGED packet /\ UNCHANGED call BY <1>11 DEF RxInterrupt, server, tool
  <2>2. Begun' = Begun /\ OwnCrc' = OwnCrc BY <1>3, <2>1 DEF Begun
  <2>3. CASE ovf \/ main = "dead"
    <3>1. Thinned(stream, stream', Len(rx), 1) BY <1>11, <2>3, RxLoses
    <3>2. call # NoCall => OwnLine(stream', Begun', OwnCrc)
      BY <1>1, <2>2, <3>1, OwnThinned DEF OwnCrcs
    <3>3. spoilt BY <1>11, <2>3, LosesSpoilt
    <3>4. Own(packet.data) => Own(packet.data)' BY <1>2, <2>1, <2>2 DEF Own
    <3> QED BY <1>4, <2>1, <2>2, <3>2, <3>3, <3>4 DEF OwnCrcs
  <2>4. CASE ~ovf /\ main # "dead"
    <3>1. UNCHANGED spoilt BY <1>11, <2>4 DEF RxInterrupt, faults
    <3> QED BY <1>5, <1>11, <2>1, <2>4, <3>1, RxMoves
  <2> QED BY <2>3, <2>4
<1>12. CASE TxInterrupt BY <1>5, <1>12 DEF TxInterrupt, server, faults, stream
<1>13. CASE DeviceGets
  <2>1. Gets /\ rx' = Tail(rx) /\ UNCHANGED <<toDevice, call, spoilt>>
    BY <1>13 DEF DeviceGets, tool, faults
  <2>2. /\ stream[1] = Head(rx) /\ Thinned(stream, stream', 0, 1) /\ Len(stream) >= 1
        /\ Head(rx) \in Wire
    BY <2>1, StreamTaken
  <2>3. OwnCrc' = OwnCrc BY <1>3, <2>1
  <2>4. Len(stream) \in Nat BY StreamIs
  <2>5. Begun' => Begun \/ Head(rx) = STX
    <3> SUFFICES ASSUME ~Begun, Head(rx) # STX PROVE ~Begun' OBVIOUS
    <3>1. packet.state = "begin" BY DEF Begun, TypeInv, TypeServer
    <3>2. packet' = packet BY <1>13, <3>1, Collected
    <3> QED BY <3>2 DEF Begun
  <2>6. call # NoCall => OwnLine(stream', Begun', OwnCrc)
    <3> SUFFICES ASSUME call # NoCall PROVE OwnLine(stream', Begun', OwnCrc) OBVIOUS
    <3>1. OwnLine(stream, Begun, OwnCrc) BY DEF OwnCrcs
    <3>2. Begun' => Begun \/ (stream[1] = STX /\ Len(stream) >= 1) BY <2>2, <2>5
    <3> HIDE DEF stream
    <3> QED BY <1>1, <2>2, <3>1, <3>2, OwnThinned
  <2>7. ASSUME spoilt', Begun' PROVE Own(packet.data)'
    <3>1. spoilt BY <2>1, <2>7
    <3>2. Armed
      <4>1. CASE Begun BY <4>1 DEF Armed
      <4>2. CASE Head(rx) = STX
        <5>1. 1 \in 1 .. Len(stream) BY <2>2, <2>4
        <5> QED BY <5>1, <4>2, <2>2 DEF Armed, Started1
      <4> QED BY <4>1, <4>2, <2>5, <2>7
    <3>3. call # NoCall BY <3>1, <3>2 DEF Turns
    <3>4. OwnLine(stream, Begun, OwnCrc) /\ (Begun => Own(packet.data)) BY <3>1, <3>3 DEF OwnCrcs
    <3> QED BY <1>13, <2>2, <2>4, <2>7, <3>1, <3>3, <3>4, OwnStored
  <2> QED BY <1>4, <2>1, <2>3, <2>6, <2>7
<1>14. CASE Echo \/ Parse
  <2>1. ~Armed' BY <1>14, EndsDisarmed
  <2>2. ~Begun' /\ \A i \in 1 .. Len(stream') : stream'[i] # STX
    BY <2>1 DEF Armed, Started1
  <2>3. OwnLine(stream', Begun', OwnCrc') BY <2>2 DEF OwnLine
  <2> QED BY <1>4, <2>2, <2>3
<1>15. CASE Execute BY <1>5, <1>15 DEF Execute, tool, queues, faults, stream
<1>16. CASE Put BY <1>5, <1>16 DEF Put, tool, faults, stream
<1>17. CASE UNCHANGED vars BY <1>5, <1>17 DEF vars, tool, queues, server, faults, stream
<1> QED
  BY <1>6, <1>7, <1>8, <1>9, <1>10, <1>11, <1>12, <1>13, <1>14, <1>15, <1>16, <1>17
  DEF Next, MainLoop

-----------------------------------------------------------------------------
(***************************************************************************)
(* Turns: while a packet is on its way to the device nothing worth an      *)
(* answer is on its way to the tool, and the other way round.              *)
(***************************************************************************)
LEMMA LeftIs ==
  ASSUME TypeInv
  PROVE  /\ Len(reader.data) \in Nat /\ Len(reply) \in Nat
         /\ Left = Len(reader.data) + Len(reply) /\ Left \in Nat
         /\ reader.data \in Seq(Int)
<1>1. reader \in [data : Seq(Int), neg : BOOLEAN, alive : BOOLEAN] BY DEF TypeInv, TypeTool
<1>2. reader.data \in Seq(Int) BY <1>1
<1>3. Len(reader.data) \in Nat /\ Len(reply) \in Nat BY <1>2, LenProperties, StreamIs
<1> QED BY <1>2, <1>3 DEF Left

LEMMA LeftNext ==
  ASSUME TypeInv'
  PROVE  /\ Len(reader'.data) \in Nat /\ Len(reply') \in Nat
         /\ Left' = Len(reader'.data) + Len(reply') /\ Left' \in Nat
<1>1. reader' \in [data : Seq(Int), neg : BOOLEAN, alive : BOOLEAN] BY DEF TypeInv, TypeTool
<1>2. reader'.data \in Seq(Int) BY <1>1
<1>3. tx' \in Seq(Int) /\ out' \in Seq(Int) BY DEF TypeInv, TypeLines, TypeServer
<1>4. reply' \in Seq(Int) BY <1>3, ConcatProperties DEF reply
<1>5. Len(reader'.data) \in Nat /\ Len(reply') \in Nat BY <1>2, <1>4, LenProperties
<1> QED BY <1>5 DEF Left

\* A byte heard.  The tool has an answer only at the end of a long enough one.
LEMMA HearsLeft ==
  ASSUME TypeInv, TypeInv', NEW v \in Int, Hears(v), tx # <<>>, tx' = Tail(tx), UNCHANGED out
  PROVE  /\ Left' <= Left /\ Len(reply') = Len(reply) - 1 /\ Len(reply) >= 1
         /\ \/ answers' = answers
            \/ /\ reader.alive /\ ~reader.neg /\ v = ETX /\ Len(reader.data) >= 4
               /\ Len(reader'.data) = 0
               /\ \E r : answers' = Append(answers, r)
<1>1. Len(reply') = Len(reply) - 1 /\ Len(reply) >= 1 BY ReplyTaken
<1>2. /\ Len(reader.data) \in Nat /\ Len(reply) \in Nat
      /\ Left = Len(reader.data) + Len(reply) /\ reader.data \in Seq(Int)
  BY LeftIs
<1>3. Left' = Len(reader'.data) + Len(reply') BY DEF Left
<1>4. ASSUME Len(reader'.data) <= Len(reader.data) + 1, Len(reader'.data) \in Nat
      PROVE  Left' <= Left
  <2>1. \A a, b, c, e \in Int : a <= b + 1 /\ e = c - 1 => a + e <= b + c OBVIOUS
  <2>2. Len(reply') \in Int BY <1>1, <1>2
  <2>3. /\ Len(reader'.data) \in Int /\ Len(reader.data) \in Int /\ Len(reply) \in Int
    BY <1>2, <1>4
  <2>4. Len(reader'.data) + Len(reply') <= Len(reader.data) + Len(reply)
    BY <1>1, <1>4, <2>1, <2>2, <2>3, Zenon
  <2> QED BY <1>2, <1>3, <2>4, Zenon
<1>5. reader \in [data : Seq(Int), neg : BOOLEAN, alive : BOOLEAN] BY DEF TypeInv, TypeTool
<1>6. ASSUME reader'.data = reader.data, answers' = answers
      PROVE  Left' <= Left /\ answers' = answers
  <2>1. Len(reader'.data) = Len(reader.data) BY <1>6
  <2> QED BY <2>1, <1>2, <1>4, <1>6
<1>7. CASE ~reader.alive
  <2>1. reader' = reader /\ answers' = answers BY <1>7 DEF Hears
  <2> QED BY <2>1, <1>1, <1>6
<1>8. CASE reader.alive /\ ~reader.neg /\ v = STX
  <2>1. reader' = reader /\ answers' = answers BY <1>8, HearsIs
  <2> QED BY <2>1, <1>1, <1>6
<1>9. CASE reader.alive /\ ~reader.neg /\ v = DLE
  <2>1. reader' = [reader EXCEPT !.neg = TRUE] /\ answers' = answers BY <1>9, HearsIs
  <2>2. reader'.data = reader.data BY <2>1, <1>5
  <2> QED BY <2>1, <2>2, <1>1, <1>6
<1>10. CASE reader.alive /\ (reader.neg \/ v \notin Specials)
  <2> DEFINE w == Next2(reader.neg, v)
  <2>1. reader' = [reader EXCEPT !.data = Append(@, w), !.neg = FALSE] /\ answers' = answers
    BY <1>10, HearsIs
  <2>2. w \in Int BY DEF Next2, Negated
  <2>3. reader'.data = Append(reader.data, w) BY <2>1, <1>5
  <2> HIDE DEF w
  <2>4. Len(Append(reader.data, w)) = Len(reader.data) + 1 BY <2>2, <1>2, AppendProperties
  <2>5. Len(reader'.data) = Len(reader.data) + 1 BY <2>3, <2>4, Zenon
  <2>6. Len(reader'.data) <= Len(reader.data) + 1 /\ Len(reader'.data) \in Nat
    BY <2>5, <1>2
  <2> QED BY <2>1, <2>6, <1>1, <1>4
<1>11. CASE reader.alive /\ ~reader.neg /\ v = ETX
  <2>1. Takes(reader.data) BY <1>11, HearsIs
  <2>2. Listen.data = <<>> /\ [Listen EXCEPT !.alive = FALSE].data = <<>> BY DEF Listen
  <2>3. ASSUME reader' = Listen \/ reader' = [Listen EXCEPT !.alive = FALSE]
        PROVE  Len(reader'.data) = 0 /\ Left' <= Left
    <3>1. reader'.data = <<>> BY <2>2, <2>3
    <3>2. Len(reader'.data) = 0 BY <3>1, Empties, Zenon
    <3>3. Len(reader'.data) <= Len(reader.data) + 1 /\ Len(reader'.data) \in Nat
      BY <3>2, <1>2
    <3> QED BY <3>2, <3>3, <1>4
  <2>4. CASE reader.data = <<>>
    <3>1. reader' = Listen /\ answers' = answers BY <1>2, <2>1, <2>4, TakesIs
    <3> QED BY <3>1, <2>3, <1>1
  <2>5. CASE Len(reader.data) \in 1 .. 3
    <3>1. reader' = [Listen EXCEPT !.alive = FALSE] /\ answers' = answers
      BY <1>2, <2>1, <2>5, TakesIs
    <3> QED BY <3>1, <2>3, <1>1
  <2>6. CASE Len(reader.data) \notin 0 .. 3
    <3>1. reader' = Listen /\ \E r : answers' = Append(answers, r)
      BY <1>2, <2>1, <2>6, TakesIs
    <3>2. Len(reader.data) >= 4
      <4>1. \A n \in Nat : n \notin 0 .. 3 => n >= 4 OBVIOUS
      <4> QED BY <4>1, <1>2, <2>6
    <3> QED BY <3>1, <3>2, <2>3, <1>1, <1>11
  <2>7. Len(reader.data) = 0 => reader.data = <<>> BY <1>2, EmptySeq
  <2>8. Len(reader.data) \in 0 .. 3 => Len(reader.data) = 0 \/ Len(reader.data) \in 1 .. 3
    BY <1>2
  <2> QED BY <2>4, <2>5, <2>6, <2>7, <2>8
<1>12. \/ ~reader.alive
       \/ reader.alive /\ ~reader.neg /\ v = STX
       \/ reader.alive /\ ~reader.neg /\ v = DLE
       \/ reader.alive /\ ~reader.neg /\ v = ETX
       \/ reader.alive /\ (reader.neg \/ v \notin Specials)
  BY DEF Specials
<1> QED BY <1>7, <1>8, <1>9, <1>10, <1>11, <1>12

\* Nothing is taken that was not on the lines, and nothing said.
LEMMA TurnsQuiet ==
  ASSUME TypeInv, TypeInv', Turns, Armed' => Armed, Left' <= Left,
         main' = "execute" => main = "execute", main' = "dead" => main = "dead",
         Replying' => OneEnd', reply = <<>> => reply' = <<>>,
         UNCHANGED <<call, answers, runs, msg>>, spoilt => spoilt',
         Armed' /\ spoilt' /\ ~spoilt => call # NoCall
  PROVE  Turns'
<1>1. Left \in Nat /\ Left' \in Nat BY LeftIs, LeftNext
<1>2. Replying' => Replying BY <1>1 DEF Replying
<1>3. Left <= 2 => Left' <= 2 BY <1>1
<1> QED BY <1>2, <1>3 DEF Turns

LEMMA TurnsSame ==
  ASSUME TypeInv, TypeInv', Turns, stream' = stream, reply' = reply,
         main' = main \/ main' \notin {"execute", "dead"},
         UNCHANGED <<call, answers, reader, packet, runs, msg, spoilt>>
  PROVE  Turns'
<1>1. Armed' = Armed BY DEF Armed, Begun, Started1
<1>2. Left' = Left /\ Left \in Nat BY LeftIs DEF Left
<1>3. OneEnd' = OneEnd BY DEF OneEnd
<1>4. Replying' => Replying BY <1>2 DEF Replying
<1>5. Replying' => OneEnd' BY <1>3, <1>4 DEF Turns
<1>6. Left' <= Left BY <1>2
<1> QED BY <1>1, <1>5, <1>6, TurnsQuiet

LEMMA ArmedThinned ==
  ASSUME NEW h, NEW d, Thinned(stream, stream', h, d), Begun' => Armed
  PROVE  Armed' => Armed
<1>1. SUFFICES ASSUME NEW i \in 1 .. Len(stream'), stream'[i] = STX PROVE Started1
  BY DEF Armed, Started1
<1>2. \E j \in 1 .. Len(stream) : stream'[i] = stream[j] BY ThinnedAt
<1> QED BY <1>1, <1>2 DEF Started1

LEMMA OneEndTail ==
  ASSUME Len(reply) \in Nat, Len(reply') = Len(reply) - 1, Len(reply) >= 1, OneEnd,
         \A i \in 1 .. Len(reply') : reply'[i] = reply[i + 1]
  PROVE  OneEnd'
<1> DEFINE n == Len(reply)
           m == Len(reply')
<1>1. n \in Nat /\ m = n - 1 /\ n >= 1 /\ (\A i \in 1 .. m : reply'[i] = reply[i + 1])
  BY Zenon
<1>2. \A i \in 1 .. n : reply[i] = ETX => i = n BY DEF OneEnd
<1> HIDE DEF n, m
<1>3. ASSUME NEW i \in 1 .. m, reply'[i] = ETX PROVE i = m
  <2>1. i + 1 \in 1 .. n BY <1>1
  <2>2. i + 1 = n BY <2>1, <1>1, <1>2, <1>3
  <2> QED BY <2>2, <1>1
<1> QED BY <1>3 DEF OneEnd, m

LEMMA TurnsWriteCmd ==
  ASSUME TypeInv, TypeInv', WriteCmd, Turns
  PROVE  Turns'
<1>1. /\ call = NoCall /\ runs' = <<>> /\ answers' \in {answers, <<>>}
      /\ UNCHANGED <<reader, tx, out, main, msg, spoilt>>
  BY DEF WriteCmd, Ready, queues, server
<1>2. call' # NoCall BY StreamWritten
<1>3. Left' = Left /\ Left \in Nat BY <1>1, LeftIs DEF Left, reply
<1>4. answers = <<>> /\ answers' = <<>> /\ Left <= 2 /\ ~Replying BY <1>1 DEF Turns
<1>5. ~Replying' BY <1>1, <1>3, <1>4 DEF Replying
<1>6. main' # "execute" BY <1>5 DEF Replying
<1>7. main' = "dead" => spoilt' BY <1>1 DEF Turns
<1> QED BY <1>1, <1>2, <1>3, <1>4, <1>5, <1>6, <1>7 DEF Turns

LEMMA TurnsReadResponse ==
  ASSUME TypeInv, ReadResponse, Turns
  PROVE  Turns'
<1>1. /\ Fitting # {} /\ answers' = RemoveAt(answers, Chosen) /\ call' = NoCall
      /\ UNCHANGED <<reader, toDevice, rx, tx, packet, main, msg, out, runs, spoilt>>
  BY DEF ReadResponse, queues, server, faults
<1>2. answers # <<>> BY <1>1 DEF Fitting
<1>3. answers = <<answers[1]>> BY <1>2 DEF Turns
<1>4. answers' = <<>> BY <1>1, <1>3, OnlyAnswer
<1>5. ~Armed /\ ~Replying /\ Left <= 2 BY <1>2 DEF Turns
<1>6. Armed' = Armed /\ Left' = Left BY <1>1 DEF Armed, Begun, Started1, stream, Left, reply
<1>7. ~Replying' BY <1>1, <1>5, <1>6 DEF Replying
<1>8. main' # "execute" BY <1>7 DEF Replying
<1>9. main' = "dead" => spoilt' BY <1>1 DEF Turns
<1> QED BY <1>1, <1>4, <1>5, <1>6, <1>7, <1>8, <1>9 DEF Turns

LEMMA TurnsRestartTool ==
  ASSUME Patient, TypeInv, TypeInv', RestartTool, Turns
  PROVE  Turns'
<1>1. /\ AtRest \/ main = "dead"
      /\ call' = NoCall /\ answers' = <<>> /\ reader' = Listen /\ spoilt' = FALSE
  BY DEF RestartTool, Patient
<1>2. main' = "poll" /\ reply' = <<>>
  <2>1. CASE main = "dead"
    <3>1. tx' = <<>> /\ out' = <<>> /\ main' = "poll" BY <2>1 DEF RestartTool
    <3> QED BY <3>1 DEF reply
  <2>2. CASE main # "dead"
    <3>1. tx = <<>> /\ main = "poll" /\ UNCHANGED <<tx, main, out>>
      BY <1>1, <2>2 DEF RestartTool, AtRest, queues, server
    <3>2. out = <<>> BY <3>1 DEF TypeInv, TypeServer
    <3> QED BY <3>1, <3>2 DEF reply
  <2> QED BY <2>1, <2>2
<1>3. Left' = 0
  <2>1. reader'.data = <<>> BY <1>1 DEF Listen
  <2>2. Len(reader'.data) = 0 /\ Len(reply') = 0 BY <1>2, <2>1, Empties, Zenon
  <2> QED BY <2>2, LeftNext
<1>4. ~Replying' BY <1>2, <1>3 DEF Replying
<1>5. Left' <= 2 BY <1>3
<1> QED BY <1>1, <1>2, <1>4, <1>5 DEF Turns

LEMMA TurnsDamageToDevice ==
  ASSUME TypeInv, TypeInv', DamageToDevice, Unspoilt, Turns
  PROVE  Turns'
<1>1. /\ ~spoilt /\ spoilt' = TRUE /\ call # NoCall /\ toDevice # <<>>
      /\ UNCHANGED <<call, answers, reader, tx, out, packet, main, msg, runs>>
  BY DEF DamageToDevice, server, tool, queues, Spoils, Trusted
<1>2. Asking
  <2>1. stream # <<>> BY <1>1, StreamIs
  <2> QED BY <1>1, <2>1 DEF Unspoilt, AtEase, Executing, Answering, Answered, Silent, Synced
<1>3. Armed BY <1>2, AskingLine
<1>4. Left' = Left /\ Left \in Nat /\ reply' = reply BY <1>1, LeftIs DEF Left, reply
<1>5. reply = <<>> BY <1>2 DEF Asking
<1>6. OneEnd'
  <2>1. \A i \in 1 .. Len(reply') : FALSE BY <1>4, <1>5
  <2> QED BY <2>1 DEF OneEnd
<1>7. Left' <= Left BY <1>4
<1> QED BY <1>1, <1>3, <1>4, <1>5, <1>6, <1>7, TurnsQuiet

LEMMA TurnsRxInterrupt ==
  ASSUME TypeInv, TypeInv', RxInterrupt, Unspoilt, Turns
  PROVE  Turns'
<1>1. UNCHANGED <<call, answers, reader, tx, out, packet, main, msg, runs>>
  BY DEF RxInterrupt, server, tool
<1>2. reply' = reply BY <1>1 DEF reply
<1>3. CASE ovf \/ main = "dead"
  <2>1. Thinned(stream, stream', Len(rx), 1) BY <1>3, RxLoses
  <2>2. spoilt /\ spoilt' BY <1>3, LosesSpoilt DEF RxInterrupt
  <2>3. Armed' => Armed
    <3>1. Begun' => Armed BY <1>1 DEF Begun, Armed
    <3> QED BY <2>1, <3>1, ArmedThinned
  <2>4. Left' = Left /\ Left \in Nat BY <1>1, LeftIs DEF Left, reply
  <2>5. Replying' => OneEnd'
    <3>1. Replying' => Replying BY <1>1, <2>4 DEF Replying
    <3>2. OneEnd' = OneEnd BY <1>2 DEF OneEnd
    <3> QED BY <3>1, <3>2 DEF Turns
  <2>6. Left' <= Left BY <2>4
  <2> QED BY <1>1, <1>2, <2>2, <2>3, <2>5, <2>6, TurnsQuiet
<1>4. CASE ~ovf /\ main # "dead"
  <2>1. stream' = stream /\ UNCHANGED spoilt BY <1>4, RxMoves DEF RxInterrupt, faults
  <2> QED BY <1>1, <1>2, <2>1, TurnsSame
<1> QED BY <1>3, <1>4

LEMMA TurnsDeviceGets ==
  ASSUME TypeInv, TypeInv', DeviceGets, Turns
  PROVE  Turns'
<1>1. /\ main = "poll" /\ Gets /\ rx' = Tail(rx)
      /\ UNCHANGED <<call, answers, reader, toDevice, tx, out, main, msg, runs, spoilt>>
  BY DEF DeviceGets, tool, faults
<1>2. /\ stream[1] = Head(rx) /\ Thinned(stream, stream', 0, 1) /\ Len(stream) >= 1
  BY <1>1, StreamTaken
<1>3. Len(stream) \in Nat BY StreamIs
<1>4. Begun' => Armed
  <2> SUFFICES ASSUME Begun', ~Begun PROVE Armed BY DEF Armed
  <2>1. packet.state = "begin" BY DEF Begun, TypeInv, TypeServer
  <2>2. Head(rx) = STX
    <3> SUFFICES ASSUME Head(rx) # STX PROVE FALSE OBVIOUS
    <3>1. packet' = packet BY <2>1, Collected
    <3> QED BY <3>1 DEF Begun
  <2>3. 1 \in 1 .. Len(stream) BY <1>2, <1>3
  <2> QED BY <2>2, <2>3, <1>2 DEF Armed, Started1
<1>5. Armed' => Armed BY <1>2, <1>4, ArmedThinned
<1>6. Left' = Left /\ Left \in Nat /\ reply' = reply BY <1>1, LeftIs DEF Left, reply
<1>7. Replying' => OneEnd'
  <2>1. Replying' => Replying BY <1>1, <1>6 DEF Replying
  <2>2. OneEnd' = OneEnd BY <1>6 DEF OneEnd
  <2> QED BY <2>1, <2>2 DEF Turns
<1>8. Left' <= Left BY <1>6
<1> QED BY <1>1, <1>5, <1>6, <1>7, <1>8, TurnsQuiet

LEMMA AppendEmpty ==
  ASSUME NEW r
  PROVE  Append(<<>>, r) = <<r>>
  OBVIOUS

\* The tool has its answer, and little is left behind it.
LEMMA TurnsHeard ==
  ASSUME TypeInv, TypeInv', ~Armed', answers = <<>>, NEW r, answers' = Append(answers, r),
         call' # NoCall, Left' <= 2, main' # "execute", main' = "dead" => spoilt'
  PROVE  Turns'
<1>1. answers' = <<r>> BY Zenon, AppendEmpty
<1>2. answers' = <<answers'[1]>> /\ answers' # <<>> BY <1>1
<1>3. Left' \in Nat BY LeftNext
<1>4. ~Replying'
  <2>1. ~(Left' >= 5) BY <1>3
  <2> QED BY <2>1 DEF Replying
<1> QED BY <1>2, <1>4 DEF Turns

LEMMA TurnsTxInterrupt ==
  ASSUME TypeInv, TypeInv', TxInterrupt, Turns
  PROVE  Turns'
<1>1. /\ tx # <<>> /\ Hears(Head(tx)) /\ tx' = Tail(tx)
      /\ UNCHANGED <<call, toDevice, rx, packet, main, msg, out, runs, spoilt>>
  BY DEF TxInterrupt, server, faults
<1>2. Head(tx) \in Int
  <2>1. tx \in Seq(Int) BY DEF TypeInv, TypeLines
  <2> QED BY <2>1, <1>1, HeadTailProperties
<1>3. /\ reply # <<>> /\ Head(reply) = Head(tx)
      /\ \A i \in 1 .. Len(reply') : reply'[i] = reply[i + 1]
  BY <1>1, ReplyTaken
<1>4. /\ Left' <= Left /\ Len(reply') = Len(reply) - 1 /\ Len(reply) >= 1
      /\ \/ answers' = answers
         \/ /\ reader.alive /\ ~reader.neg /\ Head(tx) = ETX /\ Len(reader.data) >= 4
            /\ Len(reader'.data) = 0
            /\ \E r : answers' = Append(answers, r)
  BY <1>1, <1>2, HearsLeft
<1>5. Armed' = Armed BY <1>1 DEF Armed, Begun, Started1, stream
<1>6. /\ Len(reader.data) \in Nat /\ Len(reply) \in Nat
      /\ Left = Len(reader.data) + Len(reply) /\ Left \in Nat
  BY LeftIs
<1>7. CASE answers' = answers
  <2>1. Left' \in Nat BY LeftNext
  <2>2. Replying' => Replying BY <1>1, <1>4, <1>6, <2>1 DEF Replying
  <2>3. OneEnd => OneEnd' BY <1>3, <1>4, <1>6, OneEndTail
  <2>4. Replying' => OneEnd' BY <2>2, <2>3 DEF Turns
  <2> QED BY <1>1, <1>3, <1>4, <1>5, <1>7, <2>4, TurnsQuiet
<1>8. CASE /\ Head(tx) = ETX /\ Len(reader.data) >= 4 /\ Len(reader'.data) = 0
           /\ \E r : answers' = Append(answers, r)
  <2>1. Left >= 5 BY <1>4, <1>6, <1>8
  <2>2. Replying BY <2>1 DEF Replying
  <2>3. answers = <<>> /\ call # NoCall /\ OneEnd /\ ~Armed BY <2>2 DEF Turns
  <2>4. Len(reply) = 1
    <3>1. reply \in Seq(Int) BY StreamIs
    <3>2. reply[1] = Head(reply) BY <1>4, <3>1
    <3>3. 1 \in 1 .. Len(reply) BY <1>4, <1>6
    <3> QED BY <1>3, <1>8, <2>3, <3>2, <3>3 DEF OneEnd
  <2>5. Left' = 0
    <3>1. Len(reply') = 1 - 1 BY <1>4, <2>4, Zenon
    <3>2. Left' = Len(reader'.data) + Len(reply') BY LeftNext
    <3> QED BY <3>1, <3>2, <1>8
  <2>6. Left' <= 2 BY <2>5
  <2>7. main' # "execute"
    <3>1. main # "execute" BY <1>3 DEF Turns
    <3> QED BY <3>1, <1>1
  <2>8. main' = "dead" => spoilt' BY <1>1 DEF Turns
  <2> QED BY <1>1, <1>5, <1>8, <2>3, <2>6, <2>7, <2>8, TurnsHeard
<1> QED BY <1>4, <1>7, <1>8

LEMMA TurnsDamageToHost ==
  ASSUME TypeInv, TypeInv', DamageToHost, Unspoilt, Turns
  PROVE  Turns'
<1>1. /\ tx # <<>> /\ main # "dead" /\ tx' = Tail(tx) /\ ~spoilt /\ spoilt' = TRUE /\ damage = 0
      /\ UNCHANGED <<call, toDevice, rx, packet, main, msg, out, runs>>
  BY DEF DamageToHost, server, Spoils, Trusted
<1>2. /\ reply # <<>> /\ Len(reply) >= 1 /\ Len(reply') = Len(reply) - 1
      /\ \A i \in 1 .. Len(reply') : reply'[i] = reply[i + 1]
  BY <1>1, ReplyTaken
<1>3. Answering
  BY <1>1, <1>2 DEF Unspoilt, AtEase, Asking, Executing, Answered, Silent
<1>4. ~Armed /\ ~Armed'
  <2>1. stream = <<>> /\ packet.state = "begin" BY <1>3 DEF Answering, Synced
  <2>2. \A i \in 1 .. Len(stream) : FALSE BY <2>1
  <2>3. ~Armed BY <2>1, <2>2 DEF Armed, Begun, Started1
  <2>4. Armed' = Armed BY <1>1 DEF Armed, Begun, Started1, stream
  <2> QED BY <2>3, <2>4
<1>5. /\ Len(reader.data) \in Nat /\ Len(reply) \in Nat
      /\ Left = Len(reader.data) + Len(reply) /\ Left \in Nat
  BY LeftIs
<1>6. /\ Len(reader'.data) \in Nat /\ Len(reply') \in Nat
      /\ Left' = Len(reader'.data) + Len(reply') /\ Left' \in Nat
  BY LeftNext
<1>7. ASSUME Left' <= Left, answers' = answers PROVE Turns'
  <2>1. Replying' => Replying BY <1>1, <1>5, <1>6, <1>7 DEF Replying
  <2>2. OneEnd => OneEnd' BY <1>2, <1>5, OneEndTail
  <2>3. Replying' => OneEnd' BY <2>1, <2>2 DEF Turns
  <2> QED BY <1>1, <1>2, <1>4, <1>7, <2>3, TurnsQuiet
<1>8. CASE UNCHANGED <<reader, answers>>
  <2>1. Len(reader'.data) = Len(reader.data) BY <1>8
  <2>2. Left' <= Left BY <1>2, <1>5, <1>6, <2>1
  <2> QED BY <1>7, <1>8, <2>2
<1>9. CASE \E b \in Changed(Head(tx)) : Hears(b)
  <2>1. PICK b \in Changed(Head(tx)) : Hears(b) BY <1>9
  <2>2. b \in Int BY SMT DEF Changed, Specials, STX, ETX, DLE, Junk
  <2>3. /\ Left' <= Left
        /\ \/ answers' = answers
           \/ /\ ~reader.neg /\ Len(reader.data) >= 4 /\ Len(reader'.data) = 0
              /\ \E r : answers' = Append(answers, r)
    BY <1>1, <2>1, <2>2, HearsLeft
  <2>4. CASE answers' = answers BY <1>7, <2>3, <2>4
  <2>5. CASE /\ ~reader.neg /\ Len(reader.data) >= 4 /\ Len(reader'.data) = 0
             /\ \E r : answers' = Append(answers, r)
    <3> DEFINE a == Bytes(<<call.id, NoError, call.pay>>)
    <3>1. reader = Listen \/ Follows(a, reply, reader.data, reader.neg)
      BY <1>1, <1>3 DEF Answering
    <3>2. reader # Listen
      <4> SUFFICES ASSUME reader = Listen PROVE FALSE OBVIOUS
      <4>1. reader.data = <<>> BY DEF Listen
      <4>2. Len(reader.data) = 0 BY <4>1, Empties, Zenon
      <4> QED BY <4>2, <2>5
    <3>3. Small5(a) /\ Len(a) = 5
      <4>1. call \in [id : 1 .. MaxId, pay : Payloads]
        BY <1>3 DEF TypeInv, TypeTool, Answering, Waiting
      <4>2. call.id \in Int /\ call.pay \in Int /\ NoError \in Int BY <4>1, Values DEF NoError
      <4>3. \A q \in Int : Whole(<<call.id, NoError, q>>, 5) BY <4>2, LongPacket
      <4>4. Whole(<<call.id, NoError, call.pay>>, 5) BY <4>2, <4>3
      <4> QED BY <4>4 DEF Whole
    <3> HIDE DEF a
    <3>4. reader.neg \in BOOLEAN BY DEF TypeInv, TypeTool
    <3>5. Stepped(a, reply, reader.data, reader.neg) BY <3>1, <3>2, <3>3, <3>4, FollowsStep
    <3>6. ~reader.neg /\ Len(reader.data) >= Len(a) - 1 => Len(reply) <= 3
      BY <3>5 DEF Stepped
    <3>7. Len(a) - 1 = 4
      <4>1. 5 - 1 = 4 OBVIOUS
      <4> QED BY <3>3, <4>1, Zenon
    <3>8. Len(reply) <= 3 BY <2>5, <3>6, <3>7, Zenon
    <3>9. Left' <= 2 BY <1>2, <1>5, <1>6, <2>5, <3>8
    <3>10. main' # "execute" /\ main' # "dead" BY <1>1, <1>3 DEF Answering
    <3>11. answers = <<>> /\ call' # NoCall BY <1>1, <1>3 DEF Answering, Waiting
    <3> QED BY <1>4, <2>5, <3>9, <3>10, <3>11, TurnsHeard
  <2> QED BY <2>3, <2>4, <2>5
<1> QED BY <1>8, <1>9 DEF DamageToHost

\* The packet ended is one of the call's.
LEMMA EndsTurns ==
  ASSUME TypeInv, TypeInv', Echo \/ Parse, Unspoilt, Turns, Once(stream, Begun)
  PROVE  /\ Ends /\ Begun /\ ~Armed' /\ main = "poll" /\ out = <<>>
         /\ answers = <<>> /\ call # NoCall /\ runs = <<>> /\ Left <= 2
         /\ UNCHANGED <<call, answers, reader, runs, damage, spoilt>>
<1>1. Ends /\ UNCHANGED <<call, answers, reader, runs, damage, spoilt>>
  BY DEF Echo, Parse, tool, faults
<1>2. main = "poll" /\ Begun BY <1>1 DEF Ends, Begun
<1>3. out = <<>> BY <1>2 DEF TypeInv, TypeServer
<1>4. ~Armed' BY EndsDisarmed
<1>5. answers = <<>> /\ Left <= 2 /\ (spoilt => call # NoCall) /\ (call # NoCall => runs = <<>>)
  BY <1>2 DEF Turns, Armed
<1>6. ~spoilt => call # NoCall BY <1>1, EndsAsking DEF Asking, Waiting
<1> QED BY <1>1, <1>2, <1>3, <1>4, <1>5, <1>6

LEMMA TurnsEcho ==
  ASSUME TypeInv, TypeInv', Echo, Unspoilt, Turns, Once(stream, Begun)
  PROVE  Turns'
<1>1. /\ ~Armed' /\ answers = <<>> /\ call # NoCall /\ Left <= 2 /\ out = <<>>
      /\ UNCHANGED <<call, answers, reader>>
  BY EndsTurns
<1>2. out' = <<STX, ETX>> /\ main' = "send" /\ UNCHANGED tx BY DEF Echo
<1>3. Left' <= 4
  <2>1. tx \in Seq(Int) BY DEF TypeInv, TypeLines
  <2>2. Len(tx) \in Nat /\ reply = tx
    <3>1. reply = tx \o <<>> BY <1>1 DEF reply
    <3>2. tx \o <<>> = tx BY <2>1, ConcatEmptySeq, Zenon
    <3>3. Len(tx) \in Nat BY <2>1, LenProperties
    <3> QED BY <3>1, <3>2, <3>3
  <2>3. out' \in Seq(Int) /\ Len(out') = 2
    <3>1. out' \in Seq(Int) BY DEF TypeInv, TypeServer
    <3>2. \A x, y : Len(<<x, y>>) = 2 OBVIOUS
    <3>3. Len(<<STX, ETX>>) = 2 BY <3>2, Zenon
    <3> QED BY <3>1, <3>3, <1>2, Zenon
  <2>4. Len(tx \o out') = Len(tx) + 2
    <3>1. Len(tx \o out') = Len(tx) + Len(out') BY <2>1, <2>3, ConcatProperties, Zenon
    <3> QED BY <3>1, <2>3, Zenon
  <2>5. Len(reply') = Len(reply) + 2 BY <2>2, <2>4, <1>2 DEF reply
  <2>6. Len(reader.data) + Len(reply) <= 2 /\ Len(reader.data) \in Nat /\ Len(reply) \in Nat
    BY <1>1, LeftIs
  <2>7. Left' = Len(reader.data) + Len(reply') BY <1>1 DEF Left
  <2>8. \A r, q, s \in Nat : r + q <= 2 /\ s = q + 2 => r + s <= 4 OBVIOUS
  <2>9. Len(reply') \in Nat
    <3>1. Len(reply) + 2 \in Nat BY <2>6
    <3> QED BY <3>1, <2>5, Zenon
  <2>10. Len(reader.data) + Len(reply') <= 4 BY <2>5, <2>6, <2>8, <2>9, Zenon
  <2> QED BY <2>7, <2>10, Zenon
<1>4. ~Replying'
  <2>1. Left' \in Nat BY LeftNext
  <2>2. ~(Left' >= 5) BY <2>1, <1>3
  <2> QED BY <2>2, <1>2 DEF Replying
<1> QED BY <1>1, <1>2, <1>4 DEF Turns

\* What a damaged session executes is what it was asked to.
LEMMA AcceptedOwn ==
  ASSUME TypeInv, Ends, Accepts(packet.data), Unspoilt, OwnCrcs, call # NoCall
  PROVE  packet.data[5] = call.pay /\ packet.data[3] \in 1 .. MaxId
<1> DEFINE d == packet.data
<1>1. Begun BY DEF Ends, Begun
<1>2. d \in Seq(Decoded) BY DEF TypeInv, TypeServer
<1>3. /\ Len(d) = 5 /\ d[3] \in 1 .. MaxId /\ d[5] \in Payloads
      /\ d[2] = CrcHigh(Work, 1 + d[5])
  BY <1>2, AcceptedIs
<1>4. CASE ~spoilt
  <2>1. d = Request BY <1>3, <1>4, EndsAsking
  <2>2. Request[5] = call.pay BY RequestHas
  <2> QED BY <2>1, <2>2, <1>3
<1>5. CASE spoilt
  <2>1. Own(d) BY <1>1, <1>5 DEF OwnCrcs
  <2> HIDE DEF d
  <2>2. d[2] \in Crc2s BY <1>3 DEF Crc2s
  <2>3. 2 \in 1 .. Len(d) BY <1>3
  <2>4. CrcHigh(Work, 1 + d[5]) = CrcHigh(Work, 1 + call.pay)
    BY <1>3, <2>1, <2>2, <2>3 DEF Own, OwnCrc
  <2>5. call.pay \in Payloads BY RequestHas
  <2>6. d[5] \in Nat /\ call.pay \in Nat BY <1>3, <2>5, Values
  <2>7. \A x, y \in Nat : CrcHigh(Work, 1 + x) = CrcHigh(Work, 1 + y) => x = y
    BY SMT DEF CrcHigh, Work
  <2>8. d[5] = call.pay BY <2>4, <2>6, <2>7
  <2> QED BY <2>8, <1>3 DEF d
<1> QED BY <1>4, <1>5

\* A packet of the device, in an empty queue.
LEMMA TurnsAnswered ==
  ASSUME TypeInv', ~Armed', answers' = <<>>, call' # NoCall, main' = "send",
         NEW P, reply' = P, Framed(P)
  PROVE  Turns'
<1>1. P[1] = STX /\ Len(P) >= 2 /\ \A i \in 2 .. Len(P) : P[i] = ETX => i = Len(P)
  BY DEF Framed
<1>2. STX # ETX BY DEF STX, ETX
<1>3. Len(P) \in Nat
  <2>1. P \in Seq(Int) BY DEF Framed
  <2> QED BY <2>1, LenProperties
<1>4. \A i \in 1 .. Len(P) : P[i] = ETX => i = Len(P)
  <2> DEFINE n == Len(P)
  <2>1. /\ P[1] = STX /\ n >= 2 /\ n \in Nat /\ \A i \in 2 .. n : P[i] = ETX => i = n
    BY <1>1, <1>3
  <2> HIDE DEF n
  <2>2. ASSUME NEW i \in 1 .. n, P[i] = ETX PROVE i = n
    <3>1. i # 1 BY <2>1, <2>2, <1>2
    <3>2. i \in 2 .. n BY <3>1, <2>1
    <3> QED BY <3>2, <2>1, <2>2
  <2> QED BY <2>2 DEF n
<1>5. OneEnd' BY <1>4 DEF OneEnd
<1> QED BY <1>5 DEF Turns

LEMMA TurnsParse ==
  ASSUME TypeInv, TypeInv', Parse, Unspoilt, Turns, Once(stream, Begun), OwnCrcs
  PROVE  Turns'
<1>1. /\ Ends /\ ~Armed' /\ answers = <<>> /\ call # NoCall /\ runs = <<>> /\ Left <= 2 /\ out = <<>>
      /\ UNCHANGED <<call, answers, reader, runs, spoilt>>
  BY EndsTurns
<1>2. tx' = <<>> BY DEF Parse
<1>3. CASE Len(packet.data) = 1
  <2>1. main' = "dead" /\ UNCHANGED out BY <1>3, ParseIs
  <2>2. reply' = <<>> BY <1>1, <1>2, <2>1 DEF reply
  <2>3. spoilt
    <3> SUFFICES ASSUME ~spoilt PROVE FALSE OBVIOUS
    <3>1. Len(packet.data) >= 5 BY <1>1, EndsAsking
    <3>2. \A n : n >= 5 => n # 1 OBVIOUS
    <3> QED BY <3>1, <3>2, <1>3
  <2>4. ~Replying'
    <3>1. Len(reply') = 0 BY <2>2, Empties, Zenon
    <3>2. Len(reader.data) + Len(reply) <= 2 /\ Len(reader.data) \in Nat /\ Len(reply) \in Nat
      BY <1>1, LeftIs
    <3>3. Left' = Len(reader.data) + Len(reply') BY <1>1 DEF Left
    <3>4. Left' = Len(reader.data) + 0 BY <3>1, <3>3, Zenon
    <3>5. ~(Left' >= 5) BY <3>2, <3>4
    <3> QED BY <3>5, <2>1 DEF Replying
  <2> QED BY <1>1, <2>1, <2>3, <2>4 DEF Turns
<1>4. CASE Len(packet.data) # 1 /\ Accepts(packet.data)
  <2>1. msg' = Parsed(packet.data) /\ main' = "execute" /\ UNCHANGED out BY <1>4, ParseIs
  <2>2. reply' = <<>> BY <1>1, <1>2, <2>1 DEF reply
  <2>3. packet.data[5] = call.pay /\ packet.data[3] \in 1 .. MaxId BY <1>1, <1>4, AcceptedOwn
  <2>4. msg'.pay = call'.pay BY <1>1, <2>1, <2>3 DEF Parsed
  <2>5. msg' # NoMsg
    <3>1. msg'.id \in 1 .. MaxId BY <2>1, <2>3 DEF Parsed
    <3>2. NoMsg.id = 0 BY DEF NoMsg
    <3>3. 0 \notin 1 .. MaxId BY Values
    <3> QED BY <3>1, <3>2, <3>3
  <2>6. OneEnd'
    <3>1. \A i \in 1 .. Len(reply') : FALSE BY <2>2
    <3> QED BY <3>1 DEF OneEnd
  <2>7. main' # "dead" BY <2>1
  <2> QED BY <1>1, <2>1, <2>2, <2>4, <2>5, <2>6, <2>7 DEF Turns
<1>5. CASE Len(packet.data) # 1 /\ ~Accepts(packet.data)
  <2> DEFINE P == Packet(<<msg.id, NotSupported>>)
  <2>1. out' = P /\ main' = "send" BY <1>5, ParseIs
  <2>2. Framed(P)
    <3>1. Whole(<<msg.id, NotSupported>>, 4) BY MsgInt, ShortPacket
    <3> QED BY <3>1 DEF Whole
  <2> HIDE DEF P
  <2>3. reply' = P
    <3>1. out' \in Seq(Int) BY DEF TypeInv, TypeServer
    <3>2. <<>> \o out' = out' BY <3>1
    <3> QED BY <1>2, <2>1, <3>2 DEF reply
  <2>4. answers' = <<>> /\ call' # NoCall BY <1>1
  <2> QED BY <1>1, <2>1, <2>2, <2>3, <2>4, TurnsAnswered
<1> QED BY <1>3, <1>4, <1>5

LEMMA TurnsExecute ==
  ASSUME TypeInv, TypeInv', Execute, Turns
  PROVE  Turns'
<1> DEFINE P == Packet(<<msg.id, NoError, msg.pay>>)
<1>1. /\ main = "execute" /\ out' = P /\ main' = "send"
      /\ UNCHANGED <<call, answers, reader, tx, rx, toDevice, packet, spoilt>>
  BY DEF Execute, tool, queues, faults
<1>2. Replying BY <1>1 DEF Replying
<1>3. answers = <<>> /\ call # NoCall /\ ~Armed /\ reply = <<>> BY <1>1, <1>2 DEF Turns
<1>4. ~Armed' BY <1>1, <1>3 DEF Armed, Begun, Started1, stream
<1>5. Framed(P)
  <2>1. \A q \in Int : Whole(<<msg.id, NoError, q>>, 5) BY MsgInt, LongPacket
  <2>2. Whole(<<msg.id, NoError, msg.pay>>, 5) BY <2>1, MsgInt
  <2> QED BY <2>2 DEF Whole
<1> HIDE DEF P
<1>6. reply' = P
  <2>1. out' \in Seq(Int) BY DEF TypeInv, TypeServer
  <2>2. <<>> \o out' = out' BY <2>1
  <2>3. tx' = <<>> BY <1>1, <1>3, StreamIs
  <2> QED BY <1>1, <2>2, <2>3 DEF reply
<1>7. answers' = <<>> /\ call' # NoCall BY <1>1, <1>3
<1> QED BY <1>1, <1>4, <1>5, <1>6, <1>7, TurnsAnswered

LEMMA TurnsStep ==
  ASSUME Patient, TypeInv, TypeInv', [Next]_vars, Unspoilt, Turns,
         Once(stream, Begun), OwnCrcs
  PROVE  Turns'
<1>1. CASE WriteCmd BY <1>1, TurnsWriteCmd
<1>2. CASE ReadResponse BY <1>2, TurnsReadResponse
<1>3. CASE RestartTool BY <1>3, TurnsRestartTool
<1>4. CASE DamageToDevice BY <1>4, TurnsDamageToDevice
<1>5. CASE DamageToHost BY <1>5, TurnsDamageToHost
<1>6. CASE RxInterrupt BY <1>6, TurnsRxInterrupt
<1>7. CASE TxInterrupt BY <1>7, TurnsTxInterrupt
<1>8. CASE DeviceGets BY <1>8, TurnsDeviceGets
<1>9. CASE Echo BY <1>9, TurnsEcho
<1>10. CASE Parse BY <1>10, TurnsParse
<1>11. CASE Execute BY <1>11, TurnsExecute
<1>12. CASE Put
  <2>1. /\ stream' = stream /\ reply' = reply /\ main' \notin {"execute", "dead"}
        /\ UNCHANGED <<call, answers, reader, packet, runs, msg, spoilt>>
    BY <1>12, ReplyMoves DEF Put, stream, tool, faults
  <2> QED BY <2>1, TurnsSame
<1>13. CASE UNCHANGED vars
  <2>1. /\ stream' = stream /\ reply' = reply /\ main' = main
        /\ UNCHANGED <<call, answers, reader, packet, runs, msg, spoilt>>
    BY <1>13 DEF vars, tool, queues, server, faults, stream, reply
  <2> QED BY <2>1, TurnsSame
<1> QED
  BY <1>1, <1>2, <1>3, <1>4, <1>5, <1>6, <1>7, <1>8, <1>9, <1>10, <1>11, <1>12, <1>13
  DEF Next, MainLoop
-----------------------------------------------------------------------------
(***************************************************************************)
(* The invariant is inductive.                                             *)
(***************************************************************************)
LEMMA LinkInit == Init => LinkInv
<1> SUFFICES ASSUME Init PROVE LinkInv OBVIOUS
<1>1. TypeInv /\ Unspoilt /\ Ending BY TypesInit, EasyInit
<1>2. /\ rx = <<>> /\ toDevice = <<>> /\ tx = <<>> /\ out = <<>> /\ packet = Empty
      /\ main = "poll" /\ answers = <<>> /\ call = NoCall /\ reader = Listen
  BY DEF Init
<1>3. stream = <<>> /\ reply = <<>> BY <1>2 DEF stream, reply
<1>4. \A i \in 1 .. Len(stream) : FALSE BY <1>3
<1>5. ~Begun BY <1>2 DEF Begun, Empty
<1>6. Once(stream, Begun) BY <1>4 DEF Once
<1>7. OwnCrcs BY <1>2, <1>5 DEF OwnCrcs
<1>8. ~Armed BY <1>4, <1>5 DEF Armed, Started1
<1>9. Left = 0
  <2>1. Len(reply) = 0 /\ Len(reader.data) = 0 BY <1>2, <1>3, Empties, Zenon DEF Listen
  <2>2. 0 + 0 = 0 OBVIOUS
  <2> QED BY <2>1, <2>2, Zenon DEF Left
<1>10. ~Replying BY <1>2, <1>9 DEF Replying
<1>11. Turns BY <1>2, <1>8, <1>9, <1>10 DEF Turns
<1> QED BY <1>1, <1>6, <1>7, <1>11 DEF LinkInv

LEMMA LinkStep ==
  ASSUME Patient, LinkInv, [Next]_vars
  PROVE  LinkInv'
<1>1. TypeInv /\ Unspoilt /\ Turns /\ Once(stream, Begun) /\ OwnCrcs /\ Ending BY DEF LinkInv
<1>2. TypeInv' BY <1>1, TypesStep
<1>3. Unspoilt' BY <1>1, <1>2, UnspoiltStep
<1>4. Turns' BY <1>1, <1>2, TurnsStep
<1>5. Once(stream', Begun') BY <1>1, <1>2, OnceStep
<1>6. OwnCrcs' BY <1>1, <1>2, <1>5, OwnCrcsStep
<1>7. Ending' BY <1>1, <1>2, EndingStep
<1>8. Once(stream, Begun)' BY <1>5
<1> QED BY <1>2, <1>3, <1>4, <1>6, <1>7, <1>8 DEF LinkInv

\* Whatever the lines lose and change, the two ends take turns: the device holds a
\* request or an answer, never both, and what is left of them is the call's own.
THEOREM LinkInvariance ==
  ASSUME Patient
  PROVE  Spec => []LinkInv
<1>1. LinkInv /\ [Next]_vars => LinkInv' BY LinkStep
<1> QED BY <1>1, LinkInit, PTL DEF Spec

-----------------------------------------------------------------------------
(***************************************************************************)
(* The link implements Rpc.                                                *)
(***************************************************************************)
Stage == IF lastId = 0 THEN "none" ELSE IF call = NoCall THEN "returned" ELSE "waiting"

\* Steps the caller does not see.
LEMMA Unseen ==
  ASSUME UNCHANGED <<call, lastId, runs>>, Trusted' = Trusted
  PROVE  UNCHANGED Promise!rpcVars
<1>1. Stage' = Stage BY DEF Stage
<1>2. UNCHANGED call.pay OBVIOUS
<1> QED BY <1>1, <1>2 DEF Promise!rpcVars, Stage

LEMMA UnseenFaults ==
  ASSUME UNCHANGED <<call, lastId, runs, damage, spoilt>>
  PROVE  UNCHANGED Promise!rpcVars
<1>1. Trusted' = Trusted BY DEF Trusted
<1> QED BY <1>1, Unseen

LEMMA RpcInit == Init => Promise!Init
<1> SUFFICES ASSUME Init PROVE Promise!Init OBVIOUS
<1>1. /\ lastId = 0 /\ call = NoCall /\ runs = <<>> /\ damage = 0 /\ spoilt = FALSE
  BY DEF Init
<1>2. call.pay = 0 BY <1>1 DEF NoCall
<1>3. Trusted = TRUE BY <1>1 DEF Trusted
<1> QED BY <1>1, <1>2, <1>3 DEF Promise!Init

LEMMA RpcCall ==
  ASSUME TypeInv, WriteCmd
  PROVE  Promise!Call
<1>1. PICK p \in Payloads : call' = [id |-> NextId, pay |-> p] BY DEF WriteCmd
<1>2. /\ call = NoCall /\ lastId' = NextId /\ runs' = <<>> /\ damage' = Aged /\ UNCHANGED spoilt
  BY DEF WriteCmd, Ready
<1>3. NextId # 0 BY NextIdIs
<1>4. call' # NoCall BY <1>1, <1>3 DEF NoCall
<1>5. Stage # "waiting" /\ Stage' = "waiting" BY <1>2, <1>3, <1>4 DEF Stage
<1>6. call'.pay \in Payloads BY <1>1
<1>7. Trusted' \in BOOLEAN /\ (Trusted => Trusted') BY <1>2 DEF Trusted, Aged
<1> QED BY <1>2, <1>5, <1>6, <1>7 DEF Promise!Call, Promise!Regains, Stage

LEMMA RpcReturn ==
  ASSUME TypeInv, Unspoilt, ReadResponse
  PROVE  Promise!Return
<1>1. /\ call # NoCall /\ Fitting # {} /\ call' = NoCall
      /\ UNCHANGED <<lastId, runs, damage, spoilt>>
  BY DEF ReadResponse, faults
<1>2. lastId # 0 BY <1>1 DEF TypeInv, TypeTool
<1>3. Stage = "waiting" /\ Stage' = "returned" BY <1>1, <1>2 DEF Stage
<1>4. Trusted => runs = <<call.pay>>
  <2> SUFFICES ASSUME Trusted PROVE runs = <<call.pay>> OBVIOUS
  <2>1. damage = 0 /\ ~spoilt BY DEF Trusted
  <2>2. answers # <<>> BY <1>1 DEF Fitting
  <2>3. Answered BY <2>1, <2>2 DEF Unspoilt, AtEase, Asking, Executing, Answering
  <2> QED BY <2>1, <2>3 DEF Answered, Done
<1>5. call'.pay = 0 BY <1>1 DEF NoCall
<1>6. Trusted' = Trusted BY <1>1 DEF Trusted
<1> QED BY <1>1, <1>3, <1>4, <1>5, <1>6 DEF Promise!Return, Stage

LEMMA RpcStop ==
  ASSUME RestartTool
  PROVE  Promise!Stop
<1>1. call' = NoCall /\ lastId' = 0 /\ spoilt' = FALSE /\ UNCHANGED <<runs, damage>>
  BY DEF RestartTool
<1>2. Stage' = "none" BY <1>1 DEF Stage
<1>3. call'.pay = 0 BY <1>1 DEF NoCall
<1>4. Trusted' \in BOOLEAN /\ (Trusted => Trusted') BY <1>1 DEF Trusted
<1> QED BY <1>1, <1>2, <1>3, <1>4 DEF Promise!Stop, Promise!Regains, Stage

LEMMA RpcDamage ==
  ASSUME TypeInv, DamageToDevice \/ DamageToHost
  PROVE  Promise!Damage
<1>1. Spoils /\ UNCHANGED <<call, lastId, runs>> BY DEF DamageToDevice, DamageToHost, tool
<1>2. call # NoCall /\ spoilt' = TRUE BY <1>1 DEF Spoils
<1>3. Trusted' = FALSE BY <1>2 DEF Trusted
<1>4. lastId # 0 BY <1>2 DEF TypeInv, TypeTool
<1>5. Stage = "waiting" /\ Stage' = Stage BY <1>1, <1>2, <1>4 DEF Stage
<1>6. UNCHANGED call.pay BY <1>1
<1> QED BY <1>1, <1>3, <1>5, <1>6 DEF Promise!Damage, Stage

LEMMA RpcExecute ==
  ASSUME TypeInv, Turns, Execute
  PROVE  Promise!Execute
<1>1. main = "execute" /\ runs' = Append(runs, msg.pay)
      /\ UNCHANGED <<call, lastId, damage, spoilt>>
  BY DEF Execute, tool, faults
<1>2. call # NoCall /\ runs = <<>> /\ msg.pay = call.pay BY <1>1 DEF Turns, Replying
<1>3. runs' = <<call.pay>> BY <1>1, <1>2
<1>4. lastId # 0 BY <1>2 DEF TypeInv, TypeTool
<1>5. Stage = "waiting" /\ Stage' = Stage BY <1>1, <1>2, <1>4 DEF Stage
<1>6. UNCHANGED call.pay /\ Trusted' = Trusted BY <1>1 DEF Trusted
<1> QED BY <1>2, <1>3, <1>5, <1>6 DEF Promise!Execute, Stage

\* A full queue loses bytes of a call only that is damaged already.
LEMMA RpcRxInterrupt ==
  ASSUME TypeInv, Unspoilt, Turns, RxInterrupt
  PROVE  UNCHANGED Promise!rpcVars
<1>1. UNCHANGED <<call, lastId, runs>> BY DEF RxInterrupt, tool
<1>2. CASE ovf \/ main = "dead"
  <2>1. spoilt BY <1>2, LosesSpoilt
  <2>2. spoilt' = TRUE BY <1>2 DEF RxInterrupt
  <2>3. Trusted' = Trusted BY <2>1, <2>2 DEF Trusted
  <2> QED BY <1>1, <2>3, Unseen
<1>3. CASE ~(ovf \/ main = "dead")
  <2>1. UNCHANGED <<damage, spoilt>> BY <1>3 DEF RxInterrupt, faults
  <2> QED BY <1>1, <2>1, UnseenFaults
<1> QED BY <1>2, <1>3

LEMMA RpcStep ==
  ASSUME LinkInv, [Next]_vars
  PROVE  [Promise!Next]_(Promise!rpcVars)
<1>1. TypeInv /\ Unspoilt /\ Turns BY DEF LinkInv
<1>2. CASE WriteCmd BY <1>1, <1>2, RpcCall DEF Promise!Next
<1>3. CASE ReadResponse BY <1>1, <1>3, RpcReturn DEF Promise!Next
<1>4. CASE RestartTool BY <1>4, RpcStop DEF Promise!Next
<1>5. CASE DamageToDevice \/ DamageToHost BY <1>1, <1>5, RpcDamage DEF Promise!Next
<1>6. CASE Execute BY <1>1, <1>6, RpcExecute DEF Promise!Next
<1>7. CASE RxInterrupt BY <1>1, <1>7, RpcRxInterrupt
<1>8. CASE TxInterrupt \/ DeviceGets \/ Echo \/ Parse \/ Put \/ UNCHANGED vars
  <2>1. UNCHANGED <<call, lastId, runs, damage, spoilt>>
    BY <1>8 DEF TxInterrupt, DeviceGets, Echo, Parse, Put, vars, tool, faults
  <2> QED BY <2>1, UnseenFaults
<1> QED BY <1>2, <1>3, <1>4, <1>5, <1>6, <1>7, <1>8 DEF Next, MainLoop

\* Between a call and its return the device executes at most one command, and that
\* with the call's payload, whatever the lines lose and change; an undamaged call
\* does not return before it has.  This holds when the tool is stopped only while
\* the device is at rest.
THEOREM ImplementsRpcHolds ==
  ASSUME Patient
  PROVE  Spec => ImplementsRpc
<1>1. LinkInv /\ [Next]_vars => [Promise!Next]_(Promise!rpcVars) BY RpcStep
<1> QED BY <1>1, RpcInit, LinkInvariance, PTL DEF Spec, ImplementsRpc, Promise!Spec
=============================================================================
