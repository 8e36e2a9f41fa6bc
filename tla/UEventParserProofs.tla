-------------------------- MODULE UEventParserProofs --------------------------
(***************************************************************************)
(* Proofs about UEventParser, for buffers of any size, any letters and any *)
(* matches: what the string helpers return, that the walk stays inside the *)
(* buffer, and that msg and the answer are what the datagram says.         *)
(***************************************************************************)
EXTENDS UEventParser, FiniteSetTheorems, SequenceTheorems, TLAPS

-------------------------------------------------------------------------------
(* Lemmas about the operators *)

\* Min finds the least element of a set of numbers.
LEMMA LeastOf ==
  ASSUME NEW S \in SUBSET Nat, S # {}
  PROVE  Min(S) \in S /\ \A y \in S : Min(S) <= y
<1> DEFINE T == {0 .. x : x \in S}
<1>1. T \subseteq FiniteSubsetsOf(Nat) /\ T # {}
  <2>1. \A x \in Nat : 0 .. x \in SUBSET Nat /\ IsFiniteSet(0 .. x)
    BY FS_Interval
  <2>2. T \subseteq FiniteSubsetsOf(Nat)
    BY <2>1 DEF FiniteSubsetsOf
  <2>3. QED
    BY <2>2
<1>2. \E I \in T : \A J \in T : <<J, I>> \notin StrictSubsetOrdering(Nat)
  BY <1>1, FS_StrictSubsetOrderingWellFounded, WFMin
<1>3. PICK x \in S : \A y \in S : <<0 .. y, 0 .. x>> \notin StrictSubsetOrdering(Nat)
  BY <1>2
<1>4. ASSUME NEW y \in S PROVE x <= y
  <2>1. <<0 .. y, 0 .. x>> \notin StrictSubsetOrdering(Nat)
    BY <1>3
  <2>2. ~(0 .. y \subseteq 0 .. x /\ 0 .. y # 0 .. x)
    BY <2>1 DEF StrictSubsetOrdering
  <2>3. SUFFICES ASSUME y < x PROVE FALSE
    OBVIOUS
  <2>4. x \in 0 .. x /\ x \notin 0 .. y /\ 0 .. y \subseteq 0 .. x
    BY <2>3
  <2>5. QED
    BY <2>2, <2>4
<1>5. QED
  BY <1>4 DEF Min

\* A string ends at the first NUL at or after its start.
LEMMA EndOfString ==
  ASSUME buf \in Seq(Bytes), NEW i \in 1 .. Len(buf),
         \E j \in i .. Len(buf) : buf[j] = NUL
  PROVE  /\ StringEnd(i) \in i .. Len(buf)
         /\ buf[StringEnd(i)] = NUL
         /\ \A j \in i .. StringEnd(i) - 1 : buf[j] # NUL
<1> DEFINE S == {j \in i .. Len(buf) : buf[j] = NUL}
<1>1. S \in SUBSET Nat /\ S # {}
  OBVIOUS
<1>2. Min(S) \in S /\ \A y \in S : Min(S) <= y
  BY <1>1, LeastOf
<1>3. StringEnd(i) = Min(S)
  BY DEF StringEnd
<1> HIDE DEF S
<1>4. StringEnd(i) \in i .. Len(buf) /\ buf[StringEnd(i)] = NUL
  BY <1>2, <1>3 DEF S
<1>5. ASSUME NEW j \in i .. StringEnd(i) - 1 PROVE buf[j] # NUL
  BY <1>2, <1>3, <1>4 DEF S
<1>6. QED
  BY <1>4, <1>5

LEMMA StringTyped ==
  ASSUME buf \in Seq(Bytes), NEW i \in 1 .. Len(buf),
         \E j \in i .. Len(buf) : buf[j] = NUL
  PROVE  CString(i) \in Strings
<1>1. \A j \in i .. StringEnd(i) - 1 : buf[j] \in Letters \cup {EQ}
  BY EndOfString DEF Bytes
<1>2. StringEnd(i) \in Int /\ i \in Int
  BY EndOfString
<1>3. QED
  BY <1>1, <1>2, SubSeqProperties DEF CString, Strings

\* What key=value looks like, position by position.
LEMMA Joined ==
  ASSUME NEW key \in Strings, NEW value \in Strings
  PROVE  /\ Pair(key, value) \in Strings
         /\ Len(Pair(key, value)) = Len(key) + 1 + Len(value)
         /\ \A q \in 1 .. Len(key) : Pair(key, value)[q] = key[q]
         /\ Pair(key, value)[Len(key) + 1] = EQ
         /\ \A q \in 1 .. Len(value) : Pair(key, value)[Len(key) + 1 + q] = value[q]
<1> DEFINE S  == Letters \cup {EQ}
           k1 == key \o <<EQ>>
           kv == k1 \o value
<1>1. /\ key \in Seq(S) /\ value \in Seq(S) /\ <<EQ>> \in Seq(S)
      /\ Len(<<EQ>>) = 1 /\ <<EQ>>[1] = EQ
      /\ Len(key) \in Nat /\ Len(value) \in Nat
  BY DEF Strings
<1>c. ASSUME NEW s1 \in Seq(S), NEW s2 \in Seq(S)
      PROVE  /\ s1 \o s2 \in Seq(S) /\ Len(s1 \o s2) = Len(s1) + Len(s2)
             /\ \A q \in 1 .. Len(s1) + Len(s2) :
                  (s1 \o s2)[q] = IF q <= Len(s1) THEN s1[q] ELSE s2[q - Len(s1)]
  BY ConcatProperties
<1>p. Pair(key, value) = kv
  BY DEF Pair
<1> HIDE DEF S, k1, kv
<1>2. /\ k1 \in Seq(S) /\ Len(k1) = Len(key) + 1
      /\ \A q \in 1 .. Len(key) + 1 :
           k1[q] = IF q <= Len(key) THEN key[q] ELSE <<EQ>>[q - Len(key)]
  BY <1>1, <1>c DEF k1
<1>3. /\ kv \in Seq(S) /\ Len(kv) = Len(k1) + Len(value)
      /\ \A q \in 1 .. Len(k1) + Len(value) :
           kv[q] = IF q <= Len(k1) THEN k1[q] ELSE value[q - Len(k1)]
  BY <1>1, <1>2, <1>c DEF kv
<1>4. Len(kv) = Len(key) + 1 + Len(value)
  BY <1>1, <1>2, <1>3
<1>5. ASSUME NEW q \in 1 .. Len(key) PROVE kv[q] = key[q]
  BY <1>1, <1>2, <1>3
<1>6. kv[Len(key) + 1] = EQ
  BY <1>1, <1>2, <1>3
<1>7. ASSUME NEW q \in 1 .. Len(value) PROVE kv[Len(key) + 1 + q] = value[q]
  BY <1>1, <1>2, <1>3
<1>8. QED
  BY <1>3, <1>4, <1>5, <1>6, <1>7, <1>p DEF Strings, S

\* key and value are what is before and behind the first "=".
LEMMA Split ==
  ASSUME NEW kv \in Strings, HasEq(kv)
  PROVE  /\ KeyOf(kv) \in Strings /\ ValueOf(kv) \in Strings
         /\ ~HasEq(KeyOf(kv))
         /\ kv = Pair(KeyOf(kv), ValueOf(kv))
<1> DEFINE p == Min(EqPositions(kv))
<1>1. p \in EqPositions(kv) /\ \A y \in EqPositions(kv) : p <= y
  BY LeastOf DEF EqPositions, HasEq
<1> HIDE DEF p
<1>2. p \in 1 .. Len(kv) /\ kv[p] = EQ /\ \A q \in 1 .. p - 1 : kv[q] # EQ
  BY <1>1 DEF EqPositions, Strings
<1>3. KeyOf(kv) = SubSeq(kv, 1, p - 1) /\ ValueOf(kv) = SubSeq(kv, p + 1, Len(kv))
  BY DEF KeyOf, ValueOf, p
<1>4. /\ KeyOf(kv) \in Strings /\ Len(KeyOf(kv)) = p - 1
      /\ \A q \in 1 .. p - 1 : KeyOf(kv)[q] = kv[q]
  BY <1>2, <1>3 DEF Strings
<1>5. /\ ValueOf(kv) \in Strings /\ Len(ValueOf(kv)) = Len(kv) - p
      /\ \A q \in 1 .. Len(kv) - p : ValueOf(kv)[q] = kv[p + q]
  BY <1>2, <1>3 DEF Strings
<1>6. ~HasEq(KeyOf(kv))
  BY <1>2, <1>4 DEF HasEq, EqPositions
<1>7. kv = Pair(KeyOf(kv), ValueOf(kv))
  <2> DEFINE w == Pair(KeyOf(kv), ValueOf(kv))
  <2>0. /\ w \in Strings /\ Len(w) = Len(KeyOf(kv)) + 1 + Len(ValueOf(kv))
        /\ \A q \in 1 .. Len(KeyOf(kv)) : w[q] = KeyOf(kv)[q]
        /\ w[Len(KeyOf(kv)) + 1] = EQ
        /\ \A q \in 1 .. Len(ValueOf(kv)) :
             w[Len(KeyOf(kv)) + 1 + q] = ValueOf(kv)[q]
    BY <1>4, <1>5, Joined
  <2> HIDE DEF w
  <2>1. /\ w \in Strings /\ Len(w) = p + Len(kv) - p
        /\ \A q \in 1 .. p - 1 : w[q] = kv[q]
        /\ w[p] = EQ
        /\ \A q \in 1 .. Len(kv) - p : w[p + q] = kv[p + q]
    <3>1. Len(KeyOf(kv)) + 1 = p /\ Len(kv) \in Nat
      BY <1>2, <1>4 DEF Strings
    <3>2. QED
      BY <1>2, <1>4, <1>5, <2>0, <3>1
  <2>2. kv \in Strings /\ Len(kv) \in Nat
    BY DEF Strings
  <2>3. ASSUME NEW r \in 1 .. Len(kv) PROVE w[r] = kv[r]
    <3>1. CASE r < p
      BY <1>2, <2>1, <3>1
    <3>2. CASE r = p
      BY <1>2, <2>1, <3>2
    <3>3. CASE r > p
      <4>1. r - p \in 1 .. Len(kv) - p /\ p + (r - p) = r
        BY <1>2, <2>2, <3>3
      <4>2. QED
        BY <2>1, <4>1
    <3>4. QED
      BY <1>2, <3>1, <3>2, <3>3
  <2>4. Len(w) = Len(kv)
    BY <1>2, <2>1, <2>2
  <2>5. w = kv
    BY <2>1, <2>2, <2>3, <2>4, SeqEqual DEF Strings
  <2>6. QED
    BY <2>5 DEF w
<1>8. QED
  BY <1>4, <1>5, <1>6, <1>7

\* A string is split in one way only.
LEMMA SplitUnique ==
  ASSUME NEW key \in Strings, NEW value \in Strings, ~HasEq(key),
         NEW kv, kv = Pair(key, value)
  PROVE  HasEq(kv) /\ KeyOf(kv) = key /\ ValueOf(kv) = value
<1> DEFINE p == Len(key) + 1
<1>1. /\ kv \in Strings /\ Len(kv) = p + Len(value)
      /\ \A q \in 1 .. Len(key) : kv[q] = key[q]
      /\ kv[p] = EQ
      /\ \A q \in 1 .. Len(value) : kv[p + q] = value[q]
  BY Joined
<1>2. p \in EqPositions(kv) /\ \A q \in EqPositions(kv) : p <= q
  <2>1. Len(key) \in Nat /\ Len(value) \in Nat
    BY DEF Strings
  <2>2. \A q \in 1 .. Len(key) : key[q] # EQ
    BY DEF HasEq, EqPositions
  <2>3. p \in EqPositions(kv)
    BY <1>1, <2>1 DEF EqPositions
  <2>4. ASSUME NEW q \in EqPositions(kv) PROVE p <= q
    BY <1>1, <2>1, <2>2 DEF EqPositions
  <2>5. QED
    BY <2>3, <2>4
<1>3. Min(EqPositions(kv)) = p
  <2>1. EqPositions(kv) \in SUBSET Nat /\ EqPositions(kv) # {}
    BY <1>2 DEF EqPositions
  <2>2. Min(EqPositions(kv)) <= p /\ p <= Min(EqPositions(kv))
    BY <1>2, <2>1, LeastOf
  <2>3. QED
    <3>1. Min(EqPositions(kv)) \in Nat
      BY <2>1, LeastOf
    <3>3. p \in Nat
      BY DEF Strings
    <3>2. QED
      BY <2>2, <3>1, <3>3
<1>4. HasEq(kv)
  BY <1>2 DEF HasEq
<1>5. KeyOf(kv) = key
  <2>1. KeyOf(kv) = SubSeq(kv, 1, Len(key))
    BY <1>3 DEF KeyOf, Strings
  <2>2. QED
    BY <1>1, <2>1 DEF Strings
<1>6. ValueOf(kv) = value
  BY <1>1, <1>3 DEF ValueOf, Strings
<1>7. QED
  BY <1>4, <1>5, <1>6

-------------------------------------------------------------------------------
(* The invariant *)

LEMMA ParserInit == ASSUME ParserAssumption PROVE Init => ParserInv
<1> SUFFICES ASSUME Init PROVE ParserInv
  OBVIOUS
<1>1. buf \in Seq(Bytes) /\ phase = "poll" /\ data = 1 /\ mInfo \in Infos
  BY DEF Init, Start
<1>2. found \in BOOLEAN
  BY DEF Init, Start
<1>3. TypeOK
  BY <1>1, <1>2 DEF TypeOK
<1>4. QED
  BY <1>1, <1>3 DEF Init, ParserInv, BufferInv, MsgInv

\* Where the walk goes next.
LEMMA Advance ==
  ASSUME ParserInv, phase = "parse", buf[data] # NUL,
         phase' = phase, buf' = buf, data' = StringEnd(data) + 1
  PROVE  /\ StringEnd(data) \in data .. Len(buf) - 1
         /\ data \in Lines
         /\ BufferInv'
<1>1. /\ buf \in Seq(Bytes) /\ Len(buf) \in Nat /\ Len(buf) >= 2
      /\ buf[Len(buf)] = NUL /\ buf[Len(buf) - 1] = NUL
      /\ data \in 1 .. Len(buf)
      /\ data > 1 => buf[data - 1] = NUL
      /\ \A j \in 1 .. data - 1 : (j > 1 => buf[j - 1] = NUL) => buf[j] # NUL
  BY DEF ParserInv, TypeOK, BufferInv
<1>2. data <= Len(buf) - 2
  BY <1>1
<1>3. /\ StringEnd(data) \in data .. Len(buf)
      /\ buf[StringEnd(data)] = NUL
      /\ \A j \in data .. StringEnd(data) - 1 : buf[j] # NUL
  BY <1>1, EndOfString
<1>4. StringEnd(data) \in data .. Len(buf) - 1
  <2>1. SUFFICES ASSUME StringEnd(data) = Len(buf) PROVE FALSE
    BY <1>1, <1>3
  <2>2. Len(buf) - 1 \in data .. StringEnd(data) - 1
    BY <1>1, <1>2, <2>1
  <2>3. QED
    BY <1>1, <1>3, <2>2
<1>5. data \in Lines
  BY <1>1 DEF Lines
<1>6. BufferInv'
  <2>1. \A j \in 1 .. data' - 1 : (j > 1 => buf[j - 1] = NUL) => buf[j] # NUL
    <3>1. SUFFICES ASSUME NEW j \in data .. StringEnd(data), j > 1 => buf[j - 1] = NUL
                   PROVE  buf[j] # NUL
      BY <1>1, <1>3
    <3>2. CASE j = data
      BY <3>2
    <3>3. CASE j > data
      <4>1. j - 1 \in data .. StringEnd(data) - 1
        BY <1>1, <1>3, <3>3
      <4>2. j > 1
        BY <1>1, <3>3
      <4>3. QED
        BY <1>3, <3>1, <4>1, <4>2
    <3>4. QED
      BY <1>1, <3>2, <3>3
  <2>2. data' \in 1 .. Len(buf) /\ data' - 1 = StringEnd(data)
    BY <1>1, <1>4
  <2>3. QED
    BY <1>1, <1>3, <2>1, <2>2 DEF BufferInv
<1>7. QED
  BY <1>4, <1>5, <1>6

\* The strings of the buffer stay what they are, and the walk has seen one more.
LEMMA SeenNext ==
  ASSUME ParserInv, phase = "parse", buf[data] # NUL, buf' = buf,
         data' = StringEnd(data) + 1
  PROVE  /\ Lines' = Lines /\ \A i : CString(i)' = CString(i)
         /\ Seen' = Seen \cup {i \in {data} : HasEq(CString(i))}
<1>1. Lines' = Lines
  BY DEF Lines
<1>2. \A i : StringEnd(i)' = StringEnd(i)
  BY DEF StringEnd
<1>3. \A i : CString(i)' = CString(i)
  BY <1>2 DEF CString
<1>4. /\ buf \in Seq(Bytes) /\ Len(buf) \in Nat /\ data \in 1 .. Len(buf)
      /\ buf[Len(buf)] = NUL
      /\ data > 1 => buf[data - 1] = NUL
      /\ \A j \in 1 .. data - 1 : (j > 1 => buf[j - 1] = NUL) => buf[j] # NUL
  BY DEF ParserInv, TypeOK, BufferInv
<1>5. /\ StringEnd(data) \in data .. Len(buf)
      /\ \A j \in data .. StringEnd(data) - 1 : buf[j] # NUL
  BY <1>4, EndOfString
<1>6. data \in Lines
  BY <1>4 DEF Lines
<1>7. ASSUME NEW i \in Lines, i < data' PROVE i <= data
  <2>1. SUFFICES ASSUME i > data PROVE FALSE
    BY <1>4 DEF Lines
  <2>2. i - 1 \in data .. StringEnd(data) - 1 /\ i > 1
    BY <1>4, <1>5, <1>7, <2>1 DEF Lines
  <2>3. QED
    BY <1>5, <2>2 DEF Lines
<1>8. \A i \in Lines : i < data' <=> i < data \/ i = data
  BY <1>4, <1>5, <1>7 DEF Lines
<1>9. Seen' = Seen \cup {i \in {data} : HasEq(CString(i))}
  BY <1>1, <1>3, <1>6, <1>8 DEF Seen, HasEq, EqPositions
<1>10. QED
  BY <1>1, <1>3, <1>9

\* msg has the first value of every key seen so far.
LEMMA MsgNext ==
  ASSUME ParserInv, ParsePlain \/ ParsePair
  PROVE  MsgInv'
<1> DEFINE K == KeyOf(CString(data))
           V == ValueOf(CString(data))
<1>1. /\ phase = "parse" /\ phase' = phase /\ buf' = buf
      /\ buf[data] # NUL /\ data' = StringEnd(data) + 1
  BY DEF ParsePlain, ParsePair
<1>2. /\ \A i : CString(i)' = CString(i)
      /\ Seen' = Seen \cup {i \in {data} : HasEq(CString(i))}
  BY <1>1, SeenNext
<1>3. /\ DOMAIN msg = {KeyOf(CString(i)) : i \in Seen}
      /\ \A i \in Seen : First(i) => msg[KeyOf(CString(i))] = ValueOf(CString(i))
  BY <1>1 DEF ParserInv, MsgInv
<1>4. \A i : /\ KeyOf(CString(i))' = KeyOf(CString(i))
             /\ ValueOf(CString(i))' = ValueOf(CString(i))
  BY <1>2 DEF KeyOf, ValueOf, EqPositions
<1>5. \A i \in Seen : i \in Nat /\ i < data
  BY DEF Seen, Lines
<1>5d. data \in Nat
  BY DEF ParserInv, TypeOK
<1>6. CASE ParsePlain
  <2>1. Seen' = Seen /\ msg' = msg
    BY <1>2, <1>6 DEF ParsePlain
  <2>2. \A i \in Seen : First(i)' <=> First(i)
    BY <1>4, <2>1 DEF First
  <2>3. QED
    BY <1>3, <1>4, <2>1, <2>2 DEF MsgInv
<1>7. CASE ParsePair
  <2>1. Seen' = Seen \cup {data} /\ Insert(K, V)
    BY <1>2, <1>7 DEF ParsePair
  <2>2. /\ DOMAIN msg' = DOMAIN msg \cup {K}
        /\ \A k \in DOMAIN msg : msg'[k] = msg[k]
        /\ K \notin DOMAIN msg => msg'[K] = V
    BY <2>1 DEF Insert
  <2>3. DOMAIN msg' = {KeyOf(CString(i))' : i \in Seen'}
    BY <1>3, <1>4, <2>1, <2>2
  <2>4. ASSUME NEW i \in Seen', First(i)'
        PROVE  msg'[KeyOf(CString(i))'] = ValueOf(CString(i))'
    <3>1. \A j \in Seen' : j < i => KeyOf(CString(j)) # KeyOf(CString(i))
      BY <1>4, <2>4 DEF First
    <3>2. CASE i \in Seen
      <4>1. First(i)
        BY <2>1, <3>1 DEF First
      <4>2. QED
        BY <1>3, <1>4, <2>2, <3>2, <4>1
    <3>3. CASE i = data
      <4>1. \A j \in Seen : KeyOf(CString(j)) # K
        BY <1>5, <2>1, <3>1, <3>3
      <4>2. msg'[K] = V
        BY <1>3, <2>2, <4>1
      <4>3. QED
        BY <1>4, <3>3, <4>2
    <3>4. QED
      BY <2>1, <3>2, <3>3
  <2>7. QED
    BY <1>1, <2>3, <2>4 DEF MsgInv
<1>8. QED
  BY <1>6, <1>7

\* MsgInv reads the buffer, the pointer and msg.
LEMMA MsgUntouched ==
  ASSUME MsgInv, phase \in {"parse", "match"}, UNCHANGED <<buf, data, msg>>
  PROVE  MsgInv'
<1>1. Lines' = Lines /\ \A i : StringEnd(i)' = StringEnd(i)
  BY DEF Lines, StringEnd
<1>2. \A i : CString(i)' = CString(i)
  BY <1>1 DEF CString
<1>3. \A i : /\ KeyOf(CString(i))' = KeyOf(CString(i))
             /\ ValueOf(CString(i))' = ValueOf(CString(i))
             /\ HasEq(CString(i))' = HasEq(CString(i))
  BY <1>2 DEF KeyOf, ValueOf, EqPositions, HasEq
<1>4. Seen' = Seen
  BY <1>1, <1>3 DEF Seen
<1>5. \A i : First(i)' = First(i)
  BY <1>3, <1>4 DEF First
<1>6. QED
  BY <1>3, <1>4, <1>5 DEF MsgInv

LEMMA ReceiveNext == ASSUME ParserAssumption, ParserInv, Receive PROVE ParserInv'
<1>1. PICK n \in 1 .. BufferSize - 1 :
        \E payload \in [1 .. n -> Bytes] : buf' = payload \o <<NUL, NUL>>
  BY DEF Receive, Datagrams
<1>2. PICK payload \in [1 .. n -> Bytes] : buf' = payload \o <<NUL, NUL>>
  BY <1>1
<1>3. n \in Nat /\ payload \in Seq(Bytes) /\ Len(payload) = n
  BY DEF ParserAssumption
<1>4. <<NUL, NUL>> \in Seq(Bytes) /\ Len(<<NUL, NUL>>) = 2
  BY DEF Bytes
<1>5. /\ buf' \in Seq(Bytes) /\ Len(buf') = n + 2
      /\ \A q \in 1 .. n + 2 :
           buf'[q] = IF q <= n THEN payload[q] ELSE <<NUL, NUL>>[q - n]
  BY <1>2, <1>3, <1>4, ConcatProperties
<1>6. buf'[n + 1] = NUL /\ buf'[n + 2] = NUL
  BY <1>3, <1>5
<1>7. data' = 1 /\ msg' = <<>> /\ phase' = "parse" /\ found' = found /\ mInfo' = mInfo
  BY DEF Receive, ParserInv, Start
<1>8. BufferInv'
  BY <1>3, <1>5, <1>6, <1>7 DEF BufferInv
<1>9. Seen' = {} /\ DOMAIN msg' = {}
  BY <1>7 DEF Seen, Lines
<1>10. MsgInv'
  BY <1>9 DEF MsgInv
<1>11. TypeOK'
  <2>1. found' \in BOOLEAN
    BY <1>7 DEF ParserInv, TypeOK
  <2>2. QED
    BY <1>5, <1>7, <2>1 DEF ParserInv, TypeOK
<1>12. QED
  BY <1>7, <1>8, <1>10, <1>11 DEF ParserInv

LEMMA ParserNext ==
  ASSUME ParserAssumption, ParserInv, [Next]_vars PROVE ParserInv'
<1>1. CASE Receive
  BY <1>1, ReceiveNext
<1>2. CASE ReceiveNoUEvent
  <2>1. found' \in BOOLEAN
    BY <1>2 DEF ReceiveNoUEvent
  <2>2. QED
    BY <1>2, <2>1
       DEF ReceiveNoUEvent, ParserInv, TypeOK, BufferInv, MsgInv
<1>3. CASE ParsePlain \/ ParsePair
  <2>1. /\ phase = "parse" /\ phase' = phase /\ buf' = buf /\ mInfo' = mInfo
        /\ buf[data] # NUL /\ data' = StringEnd(data) + 1
    BY <1>3 DEF ParsePlain, ParsePair
  <2>2. found' \in BOOLEAN
    BY <1>3 DEF ParsePlain, ParsePair, ParserInv, TypeOK
  <2>3. BufferInv' /\ StringEnd(data) \in data .. Len(buf) - 1
    BY <2>1, Advance
  <2>4. data' \in Nat
    BY <2>1, <2>3 DEF ParserInv, TypeOK
  <2>5. TypeOK'
    BY <2>1, <2>2, <2>4 DEF ParserInv, TypeOK
  <2>6. QED
    BY <1>3, <2>1, <2>3, <2>5, MsgNext DEF ParserInv
<1>4. CASE ParseEnd
  <2>1. UNCHANGED <<mInfo, buf, data, msg, found>> /\ phase' = "match" /\ phase = "parse"
    BY <1>4 DEF ParseEnd
  <2>2. BufferInv'
    BY <1>4, <2>1 DEF ParseEnd, ParserInv, BufferInv
  <2>3. MsgInv'
    BY <2>1, MsgUntouched DEF ParserInv
  <2>4. found' \in BOOLEAN
    BY <2>1 DEF ParserInv, TypeOK
  <2>5. QED
    BY <2>1, <2>2, <2>3, <2>4 DEF ParserInv, TypeOK
<1>5. CASE Match
  <2>1. found' \in BOOLEAN
    BY <1>5 DEF Match
  <2>2. QED
    BY <1>5, <2>1 DEF Match, ParserInv, TypeOK, BufferInv, MsgInv
<1>6. CASE PollAgain
  <2>1. Start("poll")'
    BY <1>6 DEF PollAgain, Start
  <2>2. found' \in BOOLEAN
    BY <1>6 DEF PollAgain
  <2>3. buf' \in Seq(Bytes)
    BY <1>6 DEF PollAgain
  <2>4. QED
    BY <1>6, <2>1, <2>2, <2>3 DEF PollAgain, ParserInv, TypeOK, BufferInv, MsgInv
<1>7. CASE UNCHANGED vars
  <2>1. UNCHANGED <<mInfo, phase, buf, data, msg, found>>
    BY <1>7 DEF vars
  <2>2. TypeOK'
    BY <2>1 DEF ParserInv, TypeOK
  <2>3. BufferInv'
    BY <2>1 DEF ParserInv, BufferInv
  <2>4. MsgInv'
    <3>1. CASE phase \in {"parse", "match"}
      BY <2>1, <3>1, MsgUntouched DEF ParserInv
    <3>2. CASE phase \notin {"parse", "match"}
      BY <2>1, <3>2 DEF MsgInv
    <3>3. QED
      BY <3>1, <3>2
  <2>5. phase' = "poll" => Start("poll")'
    BY <2>1 DEF ParserInv, Start
  <2>6. QED
    BY <2>2, <2>3, <2>4, <2>5 DEF ParserInv
<1>8. QED
  BY <1>1, <1>2, <1>3, <1>4, <1>5, <1>6, <1>7 DEF Next, Parse

-------------------------------------------------------------------------------
(* What msg says *)

\* A line with a "=" binds its key to its value.
LEMMA LineBinds ==
  ASSUME ParserInv, phase \in {"parse", "match"}, NEW i \in Lines, HasEq(CString(i))
  PROVE  /\ KeyOf(CString(i)) \in Strings /\ ValueOf(CString(i)) \in Strings
         /\ Binds(i, KeyOf(CString(i)), ValueOf(CString(i)))
<1>1. buf \in Seq(Bytes) /\ i \in 1 .. Len(buf) /\ buf[Len(buf)] = NUL
  BY DEF ParserInv, TypeOK, BufferInv, Lines
<1>2. \E j \in i .. Len(buf) : buf[j] = NUL
  BY <1>1
<1>3. CString(i) \in Strings
  BY <1>1, <1>2, StringTyped
<1>4. QED
  BY <1>3, Split DEF Binds

\* When the walk has ended it has seen every line.
LEMMA AllSeen ==
  ASSUME ParserInv, phase = "match"
  PROVE  Seen = {i \in Lines : HasEq(CString(i))}
<1>1. /\ data \in 1 .. Len(buf) /\ buf[data] = NUL /\ Len(buf) \in Nat
      /\ data > 1 => buf[data - 1] = NUL
  BY DEF ParserInv, TypeOK, BufferInv
<1>2. ASSUME NEW i \in Lines PROVE i < data
  <2>1. SUFFICES ASSUME i >= data PROVE FALSE
    BY <1>1 DEF Lines
  <2>2. data \in 1 .. i
    BY <1>1, <2>1 DEF Lines
  <2>3. QED
    BY <1>1, <2>2 DEF Lines
<1>3. QED
  BY <1>2 DEF Seen

\* A key of msg has a first line, and that line's value.
LEMMA FirstLine ==
  ASSUME ParserInv, phase = "match", NEW key \in DOMAIN msg
  PROVE  \E i \in Seen : /\ KeyOf(CString(i)) = key /\ First(i)
                         /\ msg[key] = ValueOf(CString(i))
<1> DEFINE S == {i \in Seen : KeyOf(CString(i)) = key}
<1>1. /\ DOMAIN msg = {KeyOf(CString(i)) : i \in Seen}
      /\ \A i \in Seen : First(i) => msg[KeyOf(CString(i))] = ValueOf(CString(i))
  BY DEF ParserInv, MsgInv
<1>2. S # {} /\ S \in SUBSET Nat
  <2>1. S # {}
    BY <1>1
  <2>2. Seen \subseteq Nat
    BY DEF Seen, Lines
  <2>3. QED
    BY <2>1, <2>2
<1>3. Min(S) \in S /\ \A j \in S : Min(S) <= j
  BY <1>2, LeastOf
<1>4. First(Min(S))
  <2>1. SUFFICES ASSUME NEW j \in Seen, j < Min(S), KeyOf(CString(j)) = key PROVE FALSE
    BY <1>3 DEF First
  <2>2. Min(S) <= j /\ j \in Nat /\ Min(S) \in Nat
    BY <1>2, <1>3, <2>1
  <2>3. QED
    BY <2>1, <2>2
<1>5. QED
  BY <1>1, <1>3, <1>4

LEMMA MsgSays ==
  ASSUME ParserInv, phase = "match", NEW key \in DOMAIN msg
  PROVE  key \in Strings /\ msg[key] \in Strings /\ Says(key, msg[key])
<1>1. PICK i \in Seen : /\ KeyOf(CString(i)) = key /\ First(i)
                       /\ msg[key] = ValueOf(CString(i))
  BY FirstLine
<1>2. i \in Lines /\ HasEq(CString(i))
  BY DEF Seen
<1>3. key \in Strings /\ msg[key] \in Strings /\ Binds(i, key, msg[key])
  BY <1>1, <1>2, LineBinds
<1>4. \A j \in Lines : j < i /\ HasEq(CString(j)) => KeyOf(CString(j)) # key
  BY <1>1, AllSeen DEF First
<1>5. QED
  BY <1>2, <1>3, <1>4 DEF Says

\* The datagram says one thing of a key at most, and msg has it.
LEMMA SaysMsg ==
  ASSUME ParserInv, phase = "match", NEW key \in Strings, NEW value \in Strings,
         Says(key, value)
  PROVE  key \in DOMAIN msg /\ msg[key] = value
<1>1. PICK i \in Lines :
        /\ Binds(i, key, value)
        /\ \A j \in Lines : j < i /\ HasEq(CString(j)) => KeyOf(CString(j)) # key
  BY DEF Says
<1>2. HasEq(CString(i)) /\ KeyOf(CString(i)) = key /\ ValueOf(CString(i)) = value
  BY <1>1, SplitUnique DEF Binds
<1>3. i \in Seen
  BY <1>2, AllSeen
<1>4. First(i)
  BY <1>1, <1>2 DEF First, Seen
<1>5. QED
  BY <1>2, <1>3, <1>4 DEF ParserInv, MsgInv

\* What get() is compared with, a value that is not empty, is what it answers if
\* and only if the datagram says so.
LEMMA GetSays ==
  ASSUME ParserInv, phase = "match", NEW key \in Strings,
         NEW value \in Strings \ {<<>>}
  PROVE  Get(key, <<>>) = value <=> Says(key, value)
<1>1. ASSUME Get(key, <<>>) = value PROVE Says(key, value)
  <2>1. key \in DOMAIN msg /\ msg[key] = value
    BY <1>1 DEF Get
  <2>2. QED
    BY <2>1, MsgSays
<1>2. ASSUME Says(key, value) PROVE Get(key, <<>>) = value
  BY <1>2, SaysMsg DEF Get
<1>3. QED
  BY <1>1, <1>2

LEMMA GetSaysSomething ==
  ASSUME ParserInv, phase = "match", NEW key \in Strings
  PROVE  Get(key, <<>>) # <<>> <=> SaysSomething(key)
<1>1. ASSUME Get(key, <<>>) # <<>> PROVE SaysSomething(key)
  <2>1. key \in DOMAIN msg /\ msg[key] # <<>>
    BY <1>1 DEF Get
  <2>2. PICK i \in Seen : msg[key] = ValueOf(CString(i))
    BY <2>1, FirstLine
  <2>3. Says(key, msg[key])
    BY <2>1, MsgSays
  <2>4. QED
    BY <2>1, <2>2, <2>3 DEF SaysSomething, Seen
<1>2. ASSUME SaysSomething(key) PROVE Get(key, <<>>) # <<>>
  <2>1. PICK i \in Lines : /\ HasEq(CString(i)) /\ ValueOf(CString(i)) # <<>>
                          /\ Says(key, ValueOf(CString(i)))
    BY <1>2 DEF SaysSomething
  <2>2. ValueOf(CString(i)) \in Strings
    BY <2>1, LineBinds
  <2>3. QED
    BY <2>1, <2>2, GetSays
<1>3. QED
  BY <1>1, <1>2

\* The answer of readUEvent, from msg and from the datagram.
LEMMA MatchExact ==
  ASSUME ParserAssumption, MatchAssumption, ParserInv, phase = "match"
  PROVE  /\ Contains(mInfo.match) <=> MatchSaid(mInfo.match)
         /\ \A key \in mInfo.keys : Get(key, <<>>) = True <=> Says(key, True)
<1>1. /\ mInfo \in Infos /\ mInfo.match \in Strings /\ mInfo.keys \subseteq Strings
      /\ True \in Strings \ {<<>>}
  BY DEF ParserAssumption, ParserInv, TypeOK
<1>2. \A key \in mInfo.keys : Get(key, <<>>) = True <=> Says(key, True)
  BY <1>1, GetSays
<1>3. CASE HasEq(mInfo.match)
  <2>1. /\ KeyOf(mInfo.match) \in Strings
        /\ ValueOf(mInfo.match) \in Strings \ {<<>>}
    BY <1>1, <1>3, Split DEF MatchAssumption
  <2>2. Get(KeyOf(mInfo.match), <<>>) = ValueOf(mInfo.match)
          <=> Says(KeyOf(mInfo.match), ValueOf(mInfo.match))
    BY <2>1, GetSays
  <2>3. QED
    BY <1>2, <1>3, <2>2 DEF Contains, ContainsPair, ContainsKey, MatchSaid
<1>4. CASE ~HasEq(mInfo.match)
  <2>1. Get(mInfo.match, <<>>) # <<>> <=> SaysSomething(mInfo.match)
    BY <1>1, GetSaysSomething
  <2>2. QED
    BY <1>2, <1>4, <2>1 DEF Contains, ContainsPair, ContainsKey, MatchSaid
<1>5. QED
  BY <1>3, <1>4

-------------------------------------------------------------------------------
(* The theorems *)

\* Where the walk is and what msg has are what ParserInv says in every state.
THEOREM ParserInductive == ASSUME ParserAssumption PROVE Spec => []ParserInv
<1>1. Init => ParserInv
  BY ParserInit
<1>2. ParserInv /\ [Next]_vars => ParserInv'
  BY ParserNext
<1>3. QED
  BY <1>1, <1>2, PTL DEF Spec

\* UEvent::UEvent reads nothing behind the two NULs, whatever was received.
THEOREM WalkStaysInBounds == ASSUME ParserAssumption PROVE Spec => []InBounds
<1>1. ParserInv => InBounds
  BY DEF ParserInv, TypeOK, BufferInv, InBounds
<1>2. QED
  BY <1>1, ParserInductive, PTL

\* msg has the keys of the datagram, each with the value of its first line.
THEOREM MsgIsExact == ASSUME ParserAssumption PROVE Spec => []ParsedExact
<1>1. ParserInv => ParsedExact
  <2> SUFFICES ASSUME ParserInv, phase = "match" PROVE ParsedExact
    BY DEF ParsedExact
  <2>1. \A key \in DOMAIN msg : Says(key, msg[key])
    BY MsgSays
  <2>2. \A i \in Lines : HasEq(CString(i)) => KeyOf(CString(i)) \in DOMAIN msg
    BY AllSeen DEF ParserInv, MsgInv
  <2>3. QED
    BY <2>1, <2>2 DEF ParsedExact
<1>2. QED
  BY <1>1, ParserInductive, PTL

\* What a datagram says is in the buffer.
LEMMA SaysUntouched ==
  ASSUME UNCHANGED <<mInfo, buf>>
  PROVE  /\ \A key, value : Says(key, value)' = Says(key, value)
         /\ MatchSaid(mInfo.match)' = MatchSaid(mInfo.match)
<1>1. Lines' = Lines /\ \A i : StringEnd(i)' = StringEnd(i)
  BY DEF Lines, StringEnd
<1>2. \A i : CString(i)' = CString(i)
  BY <1>1 DEF CString
<1>3. \A i : /\ KeyOf(CString(i))' = KeyOf(CString(i))
             /\ ValueOf(CString(i))' = ValueOf(CString(i))
             /\ HasEq(CString(i))' = HasEq(CString(i))
  BY <1>2 DEF KeyOf, ValueOf, EqPositions, HasEq
<1>4. \A i, key, value : Binds(i, key, value)' = Binds(i, key, value)
  BY <1>2 DEF Binds, HasEq, EqPositions, Pair
<1>5. \A key, value : Says(key, value)' = Says(key, value)
  BY <1>1, <1>3, <1>4 DEF Says
<1>6. \A key : SaysSomething(key)' = SaysSomething(key)
  BY <1>1, <1>3, <1>5 DEF SaysSomething
<1>7. mInfo'.match = mInfo.match
  OBVIOUS
<1>8. MatchSaid(mInfo.match)' = MatchSaid(mInfo.match)
  BY <1>5, <1>6, <1>7 DEF MatchSaid, HasEq, EqPositions, KeyOf, ValueOf
<1>9. QED
  BY <1>5, <1>8

LEMMA DecisionNext ==
  ASSUME ParserAssumption, MatchAssumption, ParserInv, DecisionExact, [Next]_vars
  PROVE  DecisionExact'
<1>1. CASE Match
  <2>1. UNCHANGED <<mInfo, buf>> /\ phase = "match"
    BY <1>1 DEF Match
  <2>2. found' = (/\ Contains(mInfo.match)
                  /\ \E key \in mInfo.keys : Get(key, <<>>) = True)
    BY <1>1 DEF Match
  <2>3. found' <=> /\ MatchSaid(mInfo.match)
                   /\ \E key \in mInfo.keys : Says(key, True)
    BY <2>1, <2>2, MatchExact
  <2>4. QED
    BY <2>1, <2>3, SaysUntouched DEF DecisionExact
<1>2. CASE ReceiveNoUEvent
  BY <1>2 DEF ReceiveNoUEvent, ParserInv, Start, DecisionExact
<1>3. CASE UNCHANGED vars
  <2>1. UNCHANGED <<mInfo, phase, buf, found>>
    BY <1>3 DEF vars
  <2>2. QED
    BY <2>1, SaysUntouched DEF DecisionExact
<1>4. CASE Receive \/ Parse \/ PollAgain
  <2>1. phase' \in {"parse", "match", "poll"}
    BY <1>4 DEF Receive, Parse, ParsePlain, ParsePair, ParseEnd, PollAgain
  <2>2. QED
    BY <2>1 DEF DecisionExact
<1>5. QED
  BY <1>1, <1>2, <1>3, <1>4 DEF Next

\* readUEvent reports a datagram if and only if the datagram says so.
THEOREM DecisionIsExact ==
  ASSUME ParserAssumption, MatchAssumption PROVE Spec => []DecisionExact
<1>1. Init => DecisionExact
  BY DEF Init, Start, DecisionExact
<1>2. ParserInv /\ DecisionExact /\ [Next]_vars => DecisionExact'
  BY DecisionNext
<1>3. QED
  BY <1>1, <1>2, ParserInductive, PTL DEF Spec
===============================================================================
