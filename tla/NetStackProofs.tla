--------------------------- MODULE NetStackProofs ---------------------------
(***************************************************************************)
(* The userspace TCP stack, for any connections, buffers, queues and       *)
(* ingest bound: no close cuts an upload short, and no download ends       *)
(* before its last byte.  The inductive invariant accounts for every byte  *)
(* of a connection: what was written is pending, in the channel, in the    *)
(* socket or with the peer, and the same on the way back.                  *)
(***************************************************************************)
EXTENDS NetStack, FiniteSetTheorems, SequenceTheorems, TLAPS

-----------------------------------------------------------------------------
(* Counting.  How often a message occurs in a channel, and how many bytes  *)
(* a sequence of chunks holds, as cardinalities, so that what a send and a *)
(* receive do to them follows from the library's facts on finite sets.     *)

Places(q, m) == {i \in 1 .. Len(q) : q[i] = m}

Count(q, m) == Cardinality(Places(q, m))

Cells(s) == {x \in (1 .. Len(s)) \X (1 .. MaxDown) : x[2] <= s[x[1]]}

Bytes(s) == Cardinality(Cells(s))

\* The places of a message are finitely many, and none exactly when it does not occur.
LEMMA CountType ==
  ASSUME NEW S, NEW q \in Seq(S), NEW m
  PROVE  /\ IsFiniteSet(Places(q, m)) /\ Count(q, m) \in Nat
         /\ Count(q, m) = 0 <=> \A i \in 1 .. Len(q) : q[i] # m
<1>1. IsFiniteSet(1 .. Len(q))
  BY FS_Interval
<1>2. Places(q, m) \in SUBSET (1 .. Len(q))
  BY DEF Places
<1>3. IsFiniteSet(Places(q, m))
  BY <1>1, <1>2, FS_Subset
<1>4. Count(q, m) \in Nat
  BY <1>3, FS_CardinalityType DEF Count
<1>5. Count(q, m) = 0 <=> Places(q, m) = {}
  BY <1>3, FS_EmptySet DEF Count
<1> QED  BY <1>3, <1>4, <1>5 DEF Places

\* A send adds one occurrence of what is sent.
LEMMA CountAppend ==
  ASSUME NEW S, NEW q \in Seq(S), NEW e \in S, NEW m
  PROVE  Count(Append(q, e), m) = Count(q, m) + (IF e = m THEN 1 ELSE 0)
<1> DEFINE n == Len(q) + 1
<1>1. /\ Len(Append(q, e)) = n /\ Len(q) \in Nat /\ Append(q, e)[n] = e
      /\ \A i \in 1 .. Len(q) : Append(q, e)[i] = q[i]
  OBVIOUS
<1>2. IsFiniteSet(Places(q, m)) /\ Count(q, m) \in Nat
  BY CountType
<1>3. CASE e = m
  <2>1. Places(Append(q, e), m) = Places(q, m) \cup {n} /\ n \notin Places(q, m)
    BY <1>1, <1>3 DEF Places
  <2> QED  BY <1>2, <1>3, <2>1, FS_AddElement DEF Count
<1>4. CASE e # m
  <2>1. Places(Append(q, e), m) = Places(q, m)
    BY <1>1, <1>4 DEF Places
  <2> QED  BY <1>2, <1>4, <2>1 DEF Count
<1> QED  BY <1>3, <1>4

\* A receive takes one occurrence of what is received away.
LEMMA CountTail ==
  ASSUME NEW S, NEW q \in Seq(S), q # << >>, NEW m
  PROVE  Count(q, m) = Count(Tail(q), m) + (IF Head(q) = m THEN 1 ELSE 0)
<1> DEFINE P == Places(Tail(q), m)
           T == {i \in 2 .. Len(q) : q[i] = m}
           f == [i \in P |-> i + 1]
<1>1. /\ Len(q) \in Nat \ {0} /\ Tail(q) \in Seq(S) /\ Len(Tail(q)) = Len(q) - 1 /\ Head(q) = q[1]
      /\ \A i \in 1 .. Len(q) - 1 : Tail(q)[i] = q[i + 1]
  OBVIOUS
<1>2. IsFiniteSet(P) /\ Cardinality(P) \in Nat
  BY <1>1, CountType DEF Count
<1>3. f \in Bijection(P, T)
  <2>1. f \in [P -> T]
    BY <1>1 DEF Places
  <2>2. \A i, j \in P : f[i] = f[j] => i = j
    BY <1>1 DEF Places
  <2>3. \A t \in T : \E i \in P : f[i] = t
    <3>1. SUFFICES ASSUME NEW t \in T PROVE t - 1 \in P /\ f[t - 1] = t
      OBVIOUS
    <3>2. t \in 2 .. Len(q) /\ q[t] = m
      OBVIOUS
    <3>3. t - 1 \in 1 .. Len(q) - 1 /\ Tail(q)[t - 1] = m
      BY <1>1, <3>2
    <3>4. t - 1 \in P
      BY <1>1, <3>3 DEF Places
    <3> QED  BY <3>2, <3>4
  <2> HIDE DEF f, P, T
  <2> QED  BY <2>1, <2>2, <2>3 DEF Bijection, Injection, Surjection, IsInjective
<1>4. IsFiniteSet(T) /\ Cardinality(T) = Cardinality(P)
  BY <1>2, <1>3, FS_Bijection DEF ExistsBijection
<1>5. CASE Head(q) = m
  <2>1. Places(q, m) = T \cup {1} /\ 1 \notin T
    BY <1>1, <1>5 DEF Places
  <2> QED  BY <1>2, <1>4, <1>5, <2>1, FS_AddElement DEF Count
<1>6. CASE Head(q) # m
  <2>1. Places(q, m) = T
    BY <1>1, <1>6 DEF Places
  <2> QED  BY <1>2, <1>4, <1>6, <2>1 DEF Count
<1> QED  BY <1>5, <1>6

\* The cells of a sequence of chunks are finitely many.
LEMMA BytesType ==
  ASSUME NEW s \in Seq(1 .. MaxDown), MaxDown \in Nat
  PROVE  IsFiniteSet(Cells(s)) /\ Bytes(s) \in Nat /\ (s = << >> => Bytes(s) = 0)
<1>a. IsFiniteSet(1 .. Len(s)) /\ IsFiniteSet(1 .. MaxDown)
  BY FS_Interval
<1>1. IsFiniteSet((1 .. Len(s)) \X (1 .. MaxDown))
  BY <1>a, FS_Product
<1>2. Cells(s) \in SUBSET ((1 .. Len(s)) \X (1 .. MaxDown))
  BY DEF Cells
<1>3. IsFiniteSet(Cells(s))
  BY <1>1, <1>2, FS_Subset
<1>4. s = << >> => Cells(s) = {}
  BY DEF Cells
<1> QED  BY <1>3, <1>4, FS_CardinalityType, FS_EmptySet DEF Bytes

\* One chunk of e bytes has e cells.
LEMMA ChunkCells ==
  ASSUME NEW k \in Nat, NEW e \in Nat
  PROVE  IsFiniteSet({k} \X (1 .. e)) /\ Cardinality({k} \X (1 .. e)) = e
<1>1. IsFiniteSet({k}) /\ Cardinality({k}) = 1
  BY FS_Singleton
<1>2. IsFiniteSet(1 .. e) /\ Cardinality(1 .. e) = e
  BY FS_Interval
<1> QED  BY <1>1, <1>2, FS_Product

\* A chunk sent to the application adds its bytes.
LEMMA BytesAppend ==
  ASSUME NEW s \in Seq(1 .. MaxDown), MaxDown \in Nat, NEW e \in 1 .. MaxDown
  PROVE  Bytes(Append(s, e)) = Bytes(s) + e
<1> DEFINE n == Len(s) + 1
           N == {n} \X (1 .. e)
<1>1. /\ Len(Append(s, e)) = n /\ Len(s) \in Nat /\ Append(s, e)[n] = e /\ n \in Nat
      /\ \A i \in 1 .. Len(s) : Append(s, e)[i] = s[i]
  OBVIOUS
<1>2. IsFiniteSet(Cells(s)) /\ Bytes(s) \in Nat
  BY BytesType
<1>3. IsFiniteSet(N) /\ Cardinality(N) = e
  BY <1>1, ChunkCells
<1>4. Cells(Append(s, e)) = Cells(s) \cup N
  <2>1. ASSUME NEW x \in Cells(Append(s, e)) PROVE x \in Cells(s) \cup N
    <3>1. x \in (1 .. n) \X (1 .. MaxDown) /\ x[2] <= Append(s, e)[x[1]]
      BY <1>1, <2>1 DEF Cells
    <3>2. CASE x[1] = n
      BY <1>1, <3>1, <3>2
    <3>3. CASE x[1] # n
      BY <1>1, <3>1, <3>3 DEF Cells
    <3> QED  BY <3>2, <3>3
  <2>2. ASSUME NEW x \in Cells(s) PROVE x \in Cells(Append(s, e))
    <3>1. x \in (1 .. Len(s)) \X (1 .. MaxDown) /\ x[2] <= s[x[1]]
      BY <2>2 DEF Cells
    <3> QED  BY <1>1, <3>1 DEF Cells
  <2>3. ASSUME NEW x \in N PROVE x \in Cells(Append(s, e))
    <3>1. x \in (1 .. n) \X (1 .. MaxDown) /\ x[1] = n /\ x[2] <= e
      BY <1>1, <2>3
    <3> QED  BY <1>1, <3>1 DEF Cells
  <2> QED  BY <2>1, <2>2, <2>3
<1>5. Cells(s) \cap N = {}
  BY <1>1 DEF Cells
<1>6. Cardinality({}) = 0
  BY FS_EmptySet
<1> HIDE DEF N
<1>7. Cardinality(Cells(s) \cup N) = Cardinality(Cells(s)) + e
  <2>1. Cardinality(Cells(s) \cup N) =
          Cardinality(Cells(s)) + Cardinality(N) - Cardinality(Cells(s) \cap N)
    BY <1>2, <1>3, FS_Union
  <2>2. Cardinality(Cells(s) \cap N) = 0
    BY <1>5, <1>6
  <2>3. Cardinality(Cells(s)) \in Nat /\ e \in Nat
    BY <1>2 DEF Bytes
  <2> QED  BY <1>3, <2>1, <2>2, <2>3
<1> QED  BY <1>4, <1>7 DEF Bytes

\* A chunk the application takes, takes its bytes away.
LEMMA BytesTail ==
  ASSUME NEW s \in Seq(1 .. MaxDown), s # << >>, MaxDown \in Nat
  PROVE  Bytes(s) = Bytes(Tail(s)) + Head(s)
<1> DEFINE P == Cells(Tail(s))
           N == {1} \X (1 .. Head(s))
           T == {x \in (2 .. Len(s)) \X (1 .. MaxDown) : x[2] <= s[x[1]]}
           f == [x \in P |-> <<x[1] + 1, x[2]>>]
<1>1. /\ Len(s) \in Nat \ {0} /\ Tail(s) \in Seq(1 .. MaxDown) /\ Len(Tail(s)) = Len(s) - 1
      /\ Head(s) = s[1] /\ Head(s) \in 1 .. MaxDown
      /\ \A i \in 1 .. Len(s) - 1 : Tail(s)[i] = s[i + 1]
  OBVIOUS
<1>2. IsFiniteSet(P) /\ Cardinality(P) \in Nat
  BY <1>1, BytesType DEF Bytes
<1>3. IsFiniteSet(N) /\ Cardinality(N) = Head(s)
  <2>1. 1 \in Nat /\ Head(s) \in Nat
    BY <1>1
  <2> QED  BY <2>1, ChunkCells
<1>p. \A x : x \in P <=> /\ x \in (1 .. Len(s) - 1) \X (1 .. MaxDown)
                         /\ x[2] <= s[x[1] + 1]
  <2>1. ASSUME NEW x \in (1 .. Len(s) - 1) \X (1 .. MaxDown)
        PROVE  Tail(s)[x[1]] = s[x[1] + 1]
    <3>1. x[1] \in 1 .. Len(s) - 1
      BY <2>1
    <3> QED  BY <1>1, <3>1
  <2> QED  BY <1>1, <2>1 DEF Cells
<1>4. f \in Bijection(P, T)
  <2>1. f \in [P -> T]
    <3>1. SUFFICES ASSUME NEW x \in P PROVE <<x[1] + 1, x[2]>> \in T
      OBVIOUS
    <3>2. x \in (1 .. Len(s) - 1) \X (1 .. MaxDown) /\ x[2] <= s[x[1] + 1]
      BY <1>p
    <3>3. x[1] + 1 \in 2 .. Len(s) /\ x[2] \in 1 .. MaxDown
      BY <1>1, <3>2
    <3> QED  BY <3>2, <3>3
  <2>2. \A x, y \in P : f[x] = f[y] => x = y
    <3>1. SUFFICES ASSUME NEW x \in P, NEW y \in P, f[x] = f[y] PROVE x = y
      OBVIOUS
    <3>2. /\ x \in (1 .. Len(s) - 1) \X (1 .. MaxDown)
          /\ y \in (1 .. Len(s) - 1) \X (1 .. MaxDown)
      BY <1>p
    <3>3. x[1] + 1 = y[1] + 1 /\ x[2] = y[2]
      BY <3>1
    <3>4. x[1] = y[1]
      BY <3>2, <3>3
    <3> QED  BY <3>2, <3>3, <3>4
  <2>3. \A t \in T : \E x \in P : f[x] = t
    <3>1. SUFFICES ASSUME NEW t \in T PROVE \E x \in P : f[x] = t
      OBVIOUS
    <3>2. t \in (2 .. Len(s)) \X (1 .. MaxDown) /\ t[2] <= s[t[1]]
      OBVIOUS
    <3>3. /\ t[1] - 1 \in 1 .. Len(s) - 1 /\ t[2] \in 1 .. MaxDown /\ (t[1] - 1) + 1 = t[1]
          /\ t = <<t[1], t[2]>>
      BY <1>1, <3>2
    <3>4. <<t[1] - 1, t[2]>> \in P
      BY <1>p, <3>2, <3>3
    <3>5. f[<<t[1] - 1, t[2]>>] = t
      BY <3>3, <3>4
    <3> QED  BY <3>4, <3>5
  <2> HIDE DEF f, P, T
  <2> QED  BY <2>1, <2>2, <2>3 DEF Bijection, Injection, Surjection, IsInjective
<1>5. IsFiniteSet(T) /\ Cardinality(T) = Cardinality(P)
  BY <1>2, <1>4, FS_Bijection DEF ExistsBijection
<1>6. Cells(s) = T \cup N
  <2>1. ASSUME NEW x \in Cells(s) PROVE x \in T \cup N
    <3>1. x \in (1 .. Len(s)) \X (1 .. MaxDown) /\ x[2] <= s[x[1]]
      BY <2>1 DEF Cells
    <3>2. CASE x[1] = 1
      BY <1>1, <3>1, <3>2
    <3>3. CASE x[1] # 1
      BY <1>1, <3>1, <3>3
    <3> QED  BY <3>2, <3>3
  <2>2. ASSUME NEW x \in T PROVE x \in Cells(s)
    <3>1. x \in (2 .. Len(s)) \X (1 .. MaxDown) /\ x[2] <= s[x[1]]
      BY <2>2
    <3> QED  BY <1>1, <3>1 DEF Cells
  <2>3. ASSUME NEW x \in N PROVE x \in Cells(s)
    <3>1. x \in (1 .. Len(s)) \X (1 .. MaxDown) /\ x[1] = 1 /\ x[2] <= s[1]
      BY <1>1, <2>3
    <3> QED  BY <1>1, <3>1 DEF Cells
  <2> QED  BY <2>1, <2>2, <2>3
<1>7. T \cap N = {}
  OBVIOUS
<1>8. Cardinality({}) = 0
  BY FS_EmptySet
<1> HIDE DEF N, T, P
<1>9. Cardinality(T \cup N) = Cardinality(P) + Head(s)
  <2>1. Cardinality(T \cup N) = Cardinality(T) + Cardinality(N) - Cardinality(T \cap N)
    BY <1>3, <1>5, FS_Union
  <2>2. Head(s) \in Nat
    BY <1>1
  <2>3. Cardinality(T \cap N) = 0
    BY <1>7, <1>8
  <2> QED  BY <1>2, <1>3, <1>5, <2>1, <2>2, <2>3
<1> QED  BY <1>6, <1>9 DEF Bytes, P

-----------------------------------------------------------------------------
(* The invariant.  Each part speaks of one connection c: a, s and p are    *)
(* its application, its socket and its peer, q the data_in channel, i the  *)
(* inbound channel, m the commands and k the task.                         *)

Messages == [of : Conns, kind : {"data", "close"}]
Apps == [is : {"none", "asking", "open", "refused", "gone"},
         wrote : Nat, shut : BOOLEAN, read : Nat, eof : BOOLEAN]
Sockets == [st : States, established : BOOLEAN, half : BOOLEAN, pending : Nat,
            tx : 0 .. TxBuffer, rx : 0 .. MaxDown, toApp : Seq(1 .. MaxDown), slow : BOOLEAN]
Ends == [got : Nat, gotFin : BOOLEAN, sent : 0 .. MaxDown, fin : BOOLEAN, rst : BOOLEAN]
NewEnd == [got |-> 0, gotFin |-> FALSE, sent |-> 0, fin |-> FALSE, rst |-> FALSE]

Msg(c, kind) == [of |-> c, kind |-> kind]

\* Bytes of c in data_in; bytes and acknowledgements for c on their way in.
Queued(q, c) == Count(q, Msg(c, "data"))
Coming(i, c) == Count(i, Msg(c, "data"))
Acks(i, c) == Count(i, Msg(c, "ack"))

Has(q, e) == \E x \in 1 .. Len(q) : q[x] = e
Mine(q, c) == \E x \in 1 .. Len(q) : q[x].of = c

\* The peer's FIN has been received.
Over == {"CloseWait", "LastAck", "Closing", "TimeWait"}

\* The application can still read and write, or has not asked yet.
Live(a) == a.is \in {"none", "asking", "open"}

\* A connection id is used once: until its command has been handled nothing of it
\* exists, and until it is open nothing has been written or read.
Born(c, a, s, p, q, i, m) ==
    /\ a.is = "none" \/ Has(m, c) => /\ s = NoConn /\ p = NewEnd /\ ~Mine(i, c)
                                     /\ a.read = 0 /\ ~a.eof
    /\ Has(m, c) => a.is \in {"asking", "gone"}
    /\ a.is \in {"none", "asking"} => /\ a.wrote = 0 /\ ~a.shut /\ a.read = 0 /\ ~a.eof
                                      /\ ~Mine(q, c)
    /\ a.is = "asking" => ~s.established /\ (s.st = "none" => Has(m, c))

\* A close is the last that an application says.
Said(c, a, s, q) ==
    /\ s.half => a.shut /\ ~Mine(q, c)
    /\ \A x, y \in 1 .. Len(q) : q[x] = Msg(c, "close") /\ q[y].of = c => a.shut /\ y <= x

\* The socket agrees with what the peer has done.
Agreed(c, a, s, p, i) ==
    /\ a.is = "open" /\ s.st # "none" => s.established
    /\ s.st = "SynSent" => ~s.established /\ p.sent = 0 /\ ~p.fin
    /\ ~Has(i, Msg(c, "any")) /\ (Has(i, Msg(c, "rst")) => p.rst)
    /\ ~p.fin => ~Has(i, Msg(c, "fin")) /\ s.st \notin Over

\* Where the bytes of an upload are; a FIN of ours follows the last of them.
Upload(c, a, s, p, q, i) ==
    /\ s.st # "none" => Acks(i, c) <= s.tx
    /\ Live(a) /\ s.st # "none" =>
          a.wrote + Acks(i, c) = Queued(q, c) + s.pending + s.tx + p.got
    /\ Live(a) /\ ~p.fin /\ s.st = "FinWait1" => s.half /\ s.pending = 0
    /\ p.gotFin /\ Live(a) /\ ~p.fin =>
          /\ a.shut /\ Queued(q, c) = 0 /\ s.pending = 0 /\ s.tx = 0
          /\ p.got = a.wrote

Finished(a, s) == s.st \in Over \cup {"Closed"} \/ (s.st = "none" /\ a.is = "open")

\* Where the bytes of a download are; nothing follows the FIN of the peer, and a
\* connection that is closed without a reset has received it.
Download(c, a, s, p, i, m, k) ==
    /\ s.rx + Coming(i, c) <= p.sent
    /\ s.st = "none" => s.rx = 0
    /\ \A x, y \in 1 .. Len(i) : i[x] = Msg(c, "fin") /\ x < y => i[y] # Msg(c, "data")
    /\ Live(a) /\ k # "ended" /\ ~p.rst /\ Finished(a, s) => p.fin /\ Coming(i, c) = 0
    /\ Live(a) /\ k # "ended" /\ ~p.rst /\ ~s.slow =>
          p.sent = Coming(i, c) + s.rx + Bytes(s.toApp) + a.read
    /\ a.eof => s.st = "none" /\ ~Has(m, c) /\ a.is \in {"open", "gone"}
    /\ a.eof /\ ~p.rst /\ k # "ended" /\ ~s.slow => a.read = p.sent

Ok(c, a, s, p, q, i, m, k) ==
    /\ Born(c, a, s, p, q, i, m) /\ Said(c, a, s, q) /\ Agreed(c, a, s, p, i)
    /\ Upload(c, a, s, p, q, i) /\ Download(c, a, s, p, i, m, k)

Typed ==
    /\ inbound \in Seq(Packets) /\ cmds \in Seq(Conns) /\ dataIn \in Seq(Messages)
    /\ app \in [Conns -> Apps]
    /\ conn \in [Conns -> Sockets]
    /\ peer \in [Conns -> Ends]

AskedOnce == \A x, y \in 1 .. Len(cmds) : cmds[x] = cmds[y] => x = y

Inv ==
    /\ Typed /\ AskedOnce
    /\ \A c \in Conns : Ok(c, app[c], conn[c], peer[c], dataIn, inbound, cmds, stack)

-----------------------------------------------------------------------------
(* The channels.                                                           *)

\* What is in a channel after a send.
LEMMA HasAppend ==
  ASSUME NEW S, NEW q \in Seq(S), NEW e \in S, NEW m, NEW c
  PROVE  /\ Append(q, e) \in Seq(S)
         /\ Has(Append(q, e), m) <=> Has(q, m) \/ e = m
         /\ Mine(Append(q, e), c) <=> Mine(q, c) \/ e.of = c
<1> DEFINE n == Len(q) + 1
<1>1. /\ Append(q, e) \in Seq(S) /\ Len(Append(q, e)) = n /\ Len(q) \in Nat
      /\ Append(q, e)[n] = e /\ \A x \in 1 .. Len(q) : Append(q, e)[x] = q[x]
  OBVIOUS
<1>2. /\ 1 .. n = (1 .. Len(q)) \cup {n}
  BY <1>1
<1> HIDE DEF n
<1> QED  BY <1>1, <1>2 DEF Has, Mine

\* What was in a channel before a receive.
LEMMA HasTail ==
  ASSUME NEW S, NEW q \in Seq(S), q # << >>, NEW m, NEW c
  PROVE  /\ Tail(q) \in Seq(S) /\ Head(q) \in S
         /\ Has(Tail(q), m) => Has(q, m)
         /\ Mine(Tail(q), c) => Mine(q, c)
         /\ Has(q, Head(q)) /\ Mine(q, Head(q).of)
<1>1. /\ Len(q) \in Nat \ {0} /\ Tail(q) \in Seq(S) /\ Head(q) \in S /\ Head(q) = q[1]
      /\ Len(Tail(q)) = Len(q) - 1
      /\ \A x \in 1 .. Len(q) - 1 : Tail(q)[x] = q[x + 1] /\ x + 1 \in 1 .. Len(q)
  OBVIOUS
<1> QED  BY <1>1 DEF Has, Mine

\* A message that is not there does not count.
LEMMA CountHas ==
  ASSUME NEW S, NEW q \in Seq(S), NEW m
  PROVE  Count(q, m) \in Nat /\ (Count(q, m) = 0 <=> ~Has(q, m))
  BY CountType DEF Has

\* The counts of a typed channel are numbers.
LEMMA CountsType ==
  ASSUME NEW S, NEW q \in Seq(S), NEW c
  PROVE  Queued(q, c) \in Nat /\ Coming(q, c) \in Nat /\ Acks(q, c) \in Nat
  BY CountType DEF Queued, Coming, Acks

\* Another connection's message in data_in.
LEMMA DataForOther ==
  ASSUME NEW c, NEW a, NEW s, NEW p, NEW q \in Seq(Messages), NEW i, NEW m, NEW k,
         Ok(c, a, s, p, q, i, m, k), NEW e \in Messages, e.of # c
  PROVE  Ok(c, a, s, p, Append(q, e), i, m, k)
<1>1. e # Msg(c, "data") /\ e # Msg(c, "close")
  BY DEF Msg
<1>2. Queued(Append(q, e), c) = Queued(q, c)
  <2>1. Count(q, Msg(c, "data")) \in Nat
    BY CountType
  <2> QED  BY <1>1, <2>1, CountAppend DEF Queued
<1>3. Mine(Append(q, e), c) <=> Mine(q, c)
  BY HasAppend
<1>4. Said(c, a, s, Append(q, e))
  <2>1. /\ Len(Append(q, e)) = Len(q) + 1 /\ Len(q) \in Nat /\ Append(q, e)[Len(q) + 1] = e
        /\ \A x \in 1 .. Len(q) : Append(q, e)[x] = q[x]
    OBVIOUS
  <2> QED  BY <1>1, <1>3, <2>1 DEF Ok, Said
<1>5. Born(c, a, s, p, Append(q, e), i, m)
  BY <1>3 DEF Ok, Born
<1>6. Upload(c, a, s, p, Append(q, e), i)
  BY <1>2 DEF Ok, Upload
<1> QED  BY <1>4, <1>5, <1>6 DEF Ok

\* Another connection's packet, or a stranger's, on its way in.
LEMMA PacketForOther ==
  ASSUME NEW c, NEW a, NEW s, NEW p, NEW q, NEW i \in Seq(Packets), NEW m, NEW k,
         Ok(c, a, s, p, q, i, m, k), NEW e \in Packets, e.of # c
  PROVE  Ok(c, a, s, p, q, Append(i, e), m, k)
<1>1. \A kind : e # Msg(c, kind)
  BY DEF Msg
<1>2. Coming(Append(i, e), c) = Coming(i, c) /\ Acks(Append(i, e), c) = Acks(i, c)
  <2>1. Count(i, Msg(c, "data")) \in Nat /\ Count(i, Msg(c, "ack")) \in Nat
    BY CountType
  <2> QED  BY <1>1, <2>1, CountAppend DEF Coming, Acks
<1>3. /\ Mine(Append(i, e), c) <=> Mine(i, c)
      /\ \A kind : Has(Append(i, e), Msg(c, kind)) <=> Has(i, Msg(c, kind))
  BY <1>1, HasAppend
<1>4. \A x, y \in 1 .. Len(Append(i, e)) :
        Append(i, e)[x] = Msg(c, "fin") /\ x < y => Append(i, e)[y] # Msg(c, "data")
  <2>1. /\ Len(Append(i, e)) = Len(i) + 1 /\ Len(i) \in Nat /\ Append(i, e)[Len(i) + 1] = e
        /\ \A x \in 1 .. Len(i) : Append(i, e)[x] = i[x]
    OBVIOUS
  <2> QED  BY <1>1, <2>1 DEF Ok, Download
<1>5. Born(c, a, s, p, q, Append(i, e), m)
  BY <1>3 DEF Ok, Born
<1>6. Agreed(c, a, s, p, Append(i, e))
  BY <1>3 DEF Ok, Agreed
<1>7. Upload(c, a, s, p, q, Append(i, e))
  BY <1>2 DEF Ok, Upload
<1>8. Download(c, a, s, p, Append(i, e), m, k)
  BY <1>2, <1>4 DEF Ok, Download
<1> QED  BY <1>5, <1>6, <1>7, <1>8 DEF Ok

\* What every connection knows of data_in after a receive; its own close has
\* nothing of it behind.
LEMMA DataTaken ==
  ASSUME NEW c, NEW a, NEW s, NEW q \in Seq(Messages), q # << >>, Said(c, a, s, q)
  PROVE  /\ Said(c, a, s, Tail(q)) /\ Tail(q) \in Seq(Messages) /\ Head(q) \in Messages
         /\ Mine(Tail(q), c) => Mine(q, c)
         /\ Head(q).of = c => Mine(q, c)
         /\ Queued(Tail(q), c) \in Nat
         /\ Queued(q, c) = Queued(Tail(q), c) + (IF Head(q) = Msg(c, "data") THEN 1 ELSE 0)
         /\ Head(q) = Msg(c, "close") => a.shut /\ ~Mine(Tail(q), c)
<1>1. /\ Tail(q) \in Seq(Messages) /\ Head(q) \in Messages
      /\ Mine(Tail(q), c) => Mine(q, c)
      /\ Mine(q, Head(q).of)
  BY HasTail
<1>2. /\ Len(q) \in Nat \ {0} /\ Head(q) = q[1] /\ Len(Tail(q)) = Len(q) - 1
      /\ \A x \in 1 .. Len(q) - 1 : Tail(q)[x] = q[x + 1] /\ x + 1 \in 1 .. Len(q)
  OBVIOUS
<1>3. Said(c, a, s, Tail(q))
  <2>1. ASSUME NEW x \in 1 .. Len(Tail(q)), NEW y \in 1 .. Len(Tail(q)),
               Tail(q)[x] = Msg(c, "close"), Tail(q)[y].of = c
        PROVE  a.shut /\ y <= x
    <3>1. x + 1 \in 1 .. Len(q) /\ y + 1 \in 1 .. Len(q) /\ q[x + 1] = Msg(c, "close") /\ q[y + 1].of = c
      BY <1>2, <2>1
    <3>2. a.shut /\ y + 1 <= x + 1
      BY <3>1 DEF Said
    <3> QED  BY <1>2, <3>2
  <2>2. s.half => a.shut /\ ~Mine(Tail(q), c)
    BY <1>1 DEF Said
  <2> QED  BY <2>1, <2>2 DEF Said
<1>4. Queued(q, c) = Queued(Tail(q), c) + (IF Head(q) = Msg(c, "data") THEN 1 ELSE 0)
  BY CountTail DEF Queued
<1>5. Queued(Tail(q), c) \in Nat
  BY <1>1, CountsType
<1>6. ASSUME Head(q) = Msg(c, "close") PROVE a.shut /\ ~Mine(Tail(q), c)
  <2>1. 1 \in 1 .. Len(q) /\ q[1] = Msg(c, "close") /\ q[1].of = c
    BY <1>2, <1>6 DEF Msg
  <2>2. a.shut
    BY <2>1 DEF Said
  <2>3. ASSUME NEW x \in 1 .. Len(Tail(q)), Tail(q)[x].of = c PROVE FALSE
    <3>1. x + 1 \in 1 .. Len(q) /\ q[x + 1].of = c
      BY <1>2, <2>3
    <3>2. x + 1 <= 1
      BY <2>1, <3>1 DEF Said
    <3> QED  BY <1>2, <3>2
  <2> QED  BY <2>2, <2>3 DEF Mine
<1> QED  BY <1>1, <1>3, <1>4, <1>5, <1>6

\* What c knows of the inbound channel when the packet e has been taken from i and
\* left j: nothing follows its own FIN.
Taken(c, e, i, j) ==
    /\ Mine(j, c) => Mine(i, c)
    /\ e.of = c => Mine(i, c)
    /\ \A kind : Has(j, Msg(c, kind)) => Has(i, Msg(c, kind))
    /\ \A kind : e = Msg(c, kind) => Has(i, Msg(c, kind))
    /\ Coming(i, c) \in Nat /\ Acks(i, c) \in Nat
    /\ Coming(j, c) \in Nat /\ Acks(j, c) \in Nat
    /\ Coming(i, c) = Coming(j, c) + (IF e = Msg(c, "data") THEN 1 ELSE 0)
    /\ Acks(i, c) = Acks(j, c) + (IF e = Msg(c, "ack") THEN 1 ELSE 0)
    /\ \A x, y \in 1 .. Len(j) : j[x] = Msg(c, "fin") /\ x < y => j[y] # Msg(c, "data")
    /\ e = Msg(c, "fin") => Coming(j, c) = 0

\* A receive from the inbound channel.
LEMMA PacketTaken ==
  ASSUME NEW c, NEW a, NEW s, NEW p, NEW i \in Seq(Packets), i # << >>, NEW m, NEW k,
         Download(c, a, s, p, i, m, k)
  PROVE  Tail(i) \in Seq(Packets) /\ Head(i) \in Packets /\ Taken(c, Head(i), i, Tail(i))
<1>1. /\ Tail(i) \in Seq(Packets) /\ Head(i) \in Packets
      /\ Mine(Tail(i), c) => Mine(i, c)
      /\ Mine(i, Head(i).of) /\ Has(i, Head(i))
      /\ \A kind : Has(Tail(i), Msg(c, kind)) => Has(i, Msg(c, kind))
  BY HasTail
<1>2. /\ Len(i) \in Nat \ {0} /\ Head(i) = i[1] /\ Len(Tail(i)) = Len(i) - 1
      /\ \A x \in 1 .. Len(i) - 1 : Tail(i)[x] = i[x + 1] /\ x + 1 \in 1 .. Len(i)
  OBVIOUS
<1>3. /\ Coming(i, c) = Coming(Tail(i), c) + (IF Head(i) = Msg(c, "data") THEN 1 ELSE 0)
      /\ Acks(i, c) = Acks(Tail(i), c) + (IF Head(i) = Msg(c, "ack") THEN 1 ELSE 0)
  BY CountTail DEF Coming, Acks
<1>4. Coming(Tail(i), c) \in Nat /\ Acks(Tail(i), c) \in Nat
  BY <1>1, CountsType
<1>5. ASSUME NEW x \in 1 .. Len(Tail(i)), NEW y \in 1 .. Len(Tail(i)),
             Tail(i)[x] = Msg(c, "fin"), x < y
      PROVE  Tail(i)[y] # Msg(c, "data")
  <2>1. x + 1 \in 1 .. Len(i) /\ y + 1 \in 1 .. Len(i) /\ i[x + 1] = Msg(c, "fin") /\ x + 1 < y + 1
    BY <1>2, <1>5
  <2>2. i[y + 1] # Msg(c, "data")
    BY <2>1 DEF Download
  <2> QED  BY <1>2, <2>2
<1>6. ASSUME Head(i) = Msg(c, "fin") PROVE Coming(Tail(i), c) = 0
  <2>1. ASSUME NEW x \in 1 .. Len(Tail(i)), Tail(i)[x] = Msg(c, "data") PROVE FALSE
    <3>1. 1 \in 1 .. Len(i) /\ x + 1 \in 1 .. Len(i) /\ i[x + 1] = Msg(c, "data") /\ 1 < x + 1
      BY <1>2, <2>1
    <3> QED  BY <1>2, <1>6, <3>1 DEF Download
  <2> QED  BY <1>1, <2>1, CountType DEF Coming
<1>7. Coming(i, c) \in Nat /\ Acks(i, c) \in Nat
  BY CountsType
<1> QED  BY <1>1, <1>3, <1>4, <1>5, <1>6, <1>7 DEF Taken

\* Another connection's message is handled.
LEMMA DataOfOther ==
  ASSUME NEW c, NEW a, NEW s, NEW p, NEW q \in Seq(Messages), q # << >>, NEW i, NEW m, NEW k,
         Ok(c, a, s, p, q, i, m, k), Head(q).of # c
  PROVE  Ok(c, a, s, p, Tail(q), i, m, k)
<1>1. Said(c, a, s, q)
  BY DEF Ok
<1>2. Head(q) # Msg(c, "data")
  BY DEF Msg
<1>3. /\ Said(c, a, s, Tail(q)) /\ (Mine(Tail(q), c) => Mine(q, c))
      /\ Queued(q, c) = Queued(Tail(q), c)
  <2>1. /\ Said(c, a, s, Tail(q)) /\ (Mine(Tail(q), c) => Mine(q, c))
        /\ Queued(Tail(q), c) \in Nat
        /\ Queued(q, c) = Queued(Tail(q), c) + (IF Head(q) = Msg(c, "data") THEN 1 ELSE 0)
    BY <1>1, DataTaken
  <2> QED  BY <1>2, <2>1
<1>4. Born(c, a, s, p, Tail(q), i, m)
  BY <1>3 DEF Ok, Born
<1>5. Upload(c, a, s, p, Tail(q), i)
  BY <1>3 DEF Ok, Upload
<1> QED  BY <1>3, <1>4, <1>5 DEF Ok

\* Another connection's packet is polled.
LEMMA PacketOfOther ==
  ASSUME NEW c, NEW a, NEW s, NEW p, NEW q, NEW e, NEW i, NEW j, NEW m, NEW k,
         Ok(c, a, s, p, q, i, m, k), Taken(c, e, i, j), e.of # c
  PROVE  Ok(c, a, s, p, q, j, m, k)
<1>1. e # Msg(c, "data") /\ e # Msg(c, "ack")
  BY DEF Msg
<1>2. Coming(i, c) = Coming(j, c) /\ Acks(i, c) = Acks(j, c)
  BY <1>1 DEF Taken
<1>3. Born(c, a, s, p, q, j, m)
  BY DEF Ok, Born, Taken
<1>4. Agreed(c, a, s, p, j)
  BY DEF Ok, Agreed, Taken
<1>5. Upload(c, a, s, p, q, j)
  BY <1>2 DEF Ok, Upload
<1>6. Download(c, a, s, p, j, m, k)
  BY <1>2 DEF Ok, Download, Taken
<1> QED  BY <1>3, <1>4, <1>5, <1>6 DEF Ok

\* A byte that goes from one place to the next leaves the sum as it was.
LEMMA OnePassed ==
  ASSUME NEW n \in Nat, NEW x \in Nat, NEW y \in Nat, NEW z \in Nat
  PROVE  (n + 1) + x + y + z = n + (x + 1) + y + z
  OBVIOUS

\* Its own message is handled: bytes join pending, a close marks the half.
LEMMA DataHandled ==
  ASSUME NEW c, NEW a, NEW s \in Sockets, NEW p \in Ends, NEW q \in Seq(Messages), q # << >>,
         NEW i, NEW m, NEW k, a \in Apps, Acks(i, c) \in Nat,
         Ok(c, a, s, p, q, i, m, k), Head(q).of = c
  PROVE  /\ Handle(s, Head(q).kind) \in Sockets
         /\ Ok(c, a, Handle(s, Head(q).kind), p, Tail(q), i, m, k)
<1> DEFINE t == Handle(s, Head(q).kind)
<1>1. Said(c, a, s, q)
  BY DEF Ok
<1>2. /\ Said(c, a, s, Tail(q)) /\ Head(q) \in Messages
      /\ Mine(Tail(q), c) => Mine(q, c)
      /\ Mine(q, c)
      /\ Queued(Tail(q), c) \in Nat
      /\ Queued(q, c) = Queued(Tail(q), c) + (IF Head(q) = Msg(c, "data") THEN 1 ELSE 0)
      /\ Head(q) = Msg(c, "close") => a.shut /\ ~Mine(Tail(q), c)
  BY <1>1, DataTaken
<1>3. Head(q) = Msg(c, Head(q).kind) /\ Head(q).kind \in {"data", "close"}
  BY <1>2 DEF Messages, Msg
<1>4. Msg(c, "data") # Msg(c, "close")
  BY DEF Msg
<1>5. ~s.half
  BY <1>1, <1>2 DEF Said
<1>6. CASE s.st = "none"
  <2>1. t = s
    BY <1>6 DEF Handle
  <2>2. Upload(c, a, s, p, Tail(q), i)
    BY <1>2, <1>6 DEF Ok, Upload
  <2>3. Born(c, a, s, p, Tail(q), i, m)
    BY <1>2 DEF Ok, Born
  <2> QED  BY <1>2, <2>1, <2>2, <2>3 DEF Ok
<1>7. CASE s.st # "none" /\ Head(q).kind = "data"
  <2>1. t = [s EXCEPT !.pending = s.pending + 1] /\ Queued(q, c) = Queued(Tail(q), c) + 1
    BY <1>2, <1>3, <1>7 DEF Handle
  <2> HIDE DEF t
  <2>2. /\ t \in Sockets /\ t.st = s.st /\ t.established = s.established /\ t.half = s.half
        /\ t.tx = s.tx /\ t.rx = s.rx /\ t.toApp = s.toApp /\ t.slow = s.slow
        /\ t.pending = s.pending + 1 /\ s.pending \in Nat /\ s.tx \in Nat
    BY <2>1 DEF Sockets
  <2>3. Born(c, a, t, p, Tail(q), i, m)
    BY <1>2, <1>7, <2>2 DEF Ok, Born, NoConn
  <2>4. Said(c, a, t, Tail(q))
    BY <1>2, <2>2 DEF Said
  <2>5. Upload(c, a, t, p, Tail(q), i)
    <3>1. a.wrote \in Nat /\ p.got \in Nat
      BY DEF Apps, Ends
    <3>2. Live(a) => a.wrote + Acks(i, c) = Queued(q, c) + s.pending + s.tx + p.got
      BY <1>7 DEF Ok, Upload
    <3>3. Live(a) => a.wrote + Acks(i, c) = Queued(Tail(q), c) + t.pending + t.tx + p.got
      <4>1. Queued(q, c) + s.pending + s.tx + p.got = Queued(Tail(q), c) + t.pending + t.tx + p.got
        <5>1. /\ Queued(q, c) = Queued(Tail(q), c) + 1 /\ Queued(Tail(q), c) \in Nat
              /\ t.pending = s.pending + 1 /\ t.tx = s.tx /\ s.pending \in Nat /\ s.tx \in Nat
          BY <1>2, <2>1, <2>2
        <5>2. PICK n \in Nat, x \in Nat, y \in Nat, z \in Nat :
                 n = Queued(Tail(q), c) /\ x = s.pending /\ y = s.tx /\ z = p.got
          BY <3>1, <5>1
        <5>3. Queued(q, c) = n + 1 /\ t.pending = x + 1 /\ t.tx = y
          BY ONLY <5>1, <5>2
        <5>4. (n + 1) + x + y + z = n + (x + 1) + y + z
          BY ONLY n \in Nat, x \in Nat, y \in Nat, z \in Nat, OnePassed
        <5> QED  BY ONLY <5>2, <5>3, <5>4, Zenon
      <4> QED  BY <3>2, <4>1
    <3>4. ~(p.gotFin /\ Live(a) /\ ~p.fin)
      BY <1>2, <2>1 DEF Ok, Upload
    <3>5. Live(a) /\ ~p.fin => s.st # "FinWait1"
      BY <1>5 DEF Ok, Upload
    <3>6. Acks(i, c) <= s.tx
      BY <1>7 DEF Ok, Upload
    <3> QED  BY <2>2, <3>3, <3>4, <3>5, <3>6 DEF Upload
  <2>6. Agreed(c, a, t, p, i) /\ Download(c, a, t, p, i, m, k)
    BY <2>2 DEF Ok, Agreed, Download, Finished
  <2> QED  BY <2>2, <2>3, <2>4, <2>5, <2>6 DEF Ok, t
<1>8. CASE s.st # "none" /\ Head(q).kind = "close"
  <2>1. t = [s EXCEPT !.half = TRUE] /\ Queued(q, c) = Queued(Tail(q), c)
    BY <1>2, <1>3, <1>4, <1>8 DEF Handle
  <2> HIDE DEF t
  <2>2. /\ t \in Sockets /\ t.st = s.st /\ t.established = s.established /\ t.half = TRUE
        /\ t.tx = s.tx /\ t.rx = s.rx /\ t.toApp = s.toApp /\ t.slow = s.slow
        /\ t.pending = s.pending
    BY <2>1 DEF Sockets
  <2>3. Born(c, a, t, p, Tail(q), i, m)
    BY <1>2, <1>8, <2>2 DEF Ok, Born, NoConn
  <2>4. Said(c, a, t, Tail(q))
    BY <1>2, <1>3, <1>8, <2>2 DEF Said
  <2>5. Upload(c, a, t, p, Tail(q), i)
    BY <2>1, <2>2 DEF Ok, Upload
  <2>6. Agreed(c, a, t, p, i) /\ Download(c, a, t, p, i, m, k)
    BY <2>2 DEF Ok, Agreed, Download, Finished
  <2> QED  BY <2>2, <2>3, <2>4, <2>5, <2>6 DEF Ok, t
<1> QED  BY <1>3, <1>6, <1>7, <1>8

\* What a poll changes of a socket, and what it never does.
LEMMA ReceiveShape ==
  ASSUME NEW s \in Sockets, NEW kind \in {"synack", "rst", "data", "fin", "ack", "finack", "any"},
         kind # "any", kind = "data" => s.rx < MaxDown
  PROVE  LET t == Receive(s, kind) IN
         /\ t \in Sockets
         /\ t.established = s.established /\ t.half = s.half /\ t.pending = s.pending
         /\ t.toApp = s.toApp /\ t.slow = s.slow
         /\ t.st = "none" <=> s.st = "none"
         /\ t.st \in {"SynSent", "FinWait1"} => t.st = s.st
         /\ t.st \in Over => s.st \in Over \/ kind = "fin"
         /\ t.st = "Closed" => s.st \in Over \cup {"Closed"} \/ kind = "rst"
         /\ t.rx = IF kind = "data" /\ s.st \in {"Established", "FinWait1", "FinWait2"}
                   THEN s.rx + 1 ELSE s.rx
         /\ t.tx = IF kind = "ack" /\ s.tx > 0 THEN s.tx - 1 ELSE s.tx
<1> USE ConstantsAssumption
<1>1. CASE kind = "synack"
  BY <1>1 DEF Receive, Sockets, States, Over
<1>2. CASE kind = "rst"
  BY <1>2 DEF Receive, Sockets, States, Over
<1>3. CASE kind = "data"
  <2>1. Receive(s, kind) = IF s.st \in {"Established", "FinWait1", "FinWait2"}
                           THEN [s EXCEPT !.rx = s.rx + 1] ELSE s
    BY <1>3 DEF Receive
  <2>2. s.rx \in 0 .. MaxDown /\ s.rx + 1 \in 0 .. MaxDown
    BY <1>3 DEF Sockets
  <2>3. CASE s.st \in {"Established", "FinWait1", "FinWait2"}
    BY <1>3, <2>1, <2>2, <2>3 DEF Sockets, Over
  <2>4. CASE s.st \notin {"Established", "FinWait1", "FinWait2"}
    BY <1>3, <2>1, <2>4 DEF Sockets, Over
  <2> QED  BY <2>3, <2>4
<1>4. CASE kind = "fin"
  BY <1>4 DEF Receive, Sockets, States, Over
<1>5. CASE kind = "ack"
  <2>1. Receive(s, kind) = IF s.tx > 0 THEN [s EXCEPT !.tx = s.tx - 1] ELSE s
    BY <1>5 DEF Receive
  <2>2. s.tx \in 0 .. TxBuffer /\ (s.tx > 0 => s.tx - 1 \in 0 .. TxBuffer)
    BY DEF Sockets
  <2>3. CASE s.tx > 0
    BY <1>5, <2>1, <2>2, <2>3 DEF Sockets, Over
  <2>4. CASE ~(s.tx > 0)
    BY <1>5, <2>1, <2>4 DEF Sockets, Over
  <2> QED  BY <2>3, <2>4
<1>6. CASE kind = "finack"
  BY <1>6 DEF Receive, Sockets, States, Over
<1> QED  BY <1>1, <1>2, <1>3, <1>4, <1>5, <1>6

\* Its own packet is polled.
LEMMA PacketHandled ==
  ASSUME NEW c, NEW a \in Apps, NEW s \in Sockets, NEW p \in Ends, NEW q, NEW e \in Packets,
         NEW i, NEW j, NEW m, NEW k, Queued(q, c) \in Nat,
         Ok(c, a, s, p, q, i, m, k), Taken(c, e, i, j), e.of = c
  PROVE  /\ Receive(s, e.kind) \in Sockets
         /\ Ok(c, a, Receive(s, e.kind), p, q, j, m, k)
<1>k. PICK kind : kind = e.kind
  OBVIOUS
<1> DEFINE t == Receive(s, kind)
<1>e. /\ kind \in {"synack", "rst", "data", "fin", "ack", "finack", "any"}
      /\ \A z : e = Msg(c, z) <=> z = kind
  BY <1>k DEF Packets, Msg
<1>i. /\ Mine(i, c) /\ Has(i, Msg(c, kind))
      /\ \A z : Has(j, Msg(c, z)) => Has(i, Msg(c, z))
  BY <1>e DEF Taken
<1>j. \A x, y \in 1 .. Len(j) : j[x] = Msg(c, "fin") /\ x < y => j[y] # Msg(c, "data")
  BY DEF Taken
<1>n. /\ Coming(i, c) \in Nat /\ Acks(i, c) \in Nat
      /\ Coming(j, c) \in Nat /\ Acks(j, c) \in Nat
      /\ Coming(i, c) = Coming(j, c) + (IF kind = "data" THEN 1 ELSE 0)
      /\ Acks(i, c) = Acks(j, c) + (IF kind = "ack" THEN 1 ELSE 0)
      /\ kind = "fin" => Coming(j, c) = 0
  BY <1>e DEF Taken
<1>1. kind # "any"
  BY <1>i DEF Ok, Agreed
<1>2. /\ s.pending \in Nat /\ a.wrote \in Nat /\ p.got \in Nat
      /\ s.rx \in Nat /\ p.sent \in Nat /\ s.tx \in Nat /\ a.read \in Nat
      /\ MaxDown \in Nat /\ p.sent <= MaxDown
  BY ConstantsAssumption DEF Sockets, Ends, Apps
<1>3. s.rx + Coming(i, c) <= p.sent
  BY DEF Ok, Download
<1>4. kind = "data" => s.rx < MaxDown
  BY <1>2, <1>3, <1>n
<1>5. /\ t \in Sockets
      /\ t.established = s.established /\ t.half = s.half /\ t.pending = s.pending
      /\ t.toApp = s.toApp /\ t.slow = s.slow
      /\ t.st = "none" <=> s.st = "none"
      /\ t.st \in {"SynSent", "FinWait1"} => t.st = s.st
      /\ t.st \in Over => s.st \in Over \/ kind = "fin"
      /\ t.st = "Closed" => s.st \in Over \cup {"Closed"} \/ kind = "rst"
      /\ t.rx = IF kind = "data" /\ s.st \in {"Established", "FinWait1", "FinWait2"}
                THEN s.rx + 1 ELSE s.rx
      /\ t.tx = IF kind = "ack" /\ s.tx > 0 THEN s.tx - 1 ELSE s.tx
  BY <1>1, <1>4, <1>e, ReceiveShape
<1> HIDE DEF t
<1>6. t.rx \in Nat /\ t.tx \in Nat
  BY <1>5 DEF Sockets
<1>7. Born(c, a, t, p, q, j, m) /\ ~(a.is = "none" \/ Has(m, c))
  BY <1>5, <1>i DEF Ok, Born
<1>8. Said(c, a, t, q)
  BY <1>5 DEF Ok, Said
<1>9. /\ kind = "fin" => p.fin
      /\ kind = "rst" => p.rst
      /\ ~p.fin => ~Has(j, Msg(c, "fin")) /\ s.st \notin Over
  BY <1>i DEF Ok, Agreed
<1>10. Agreed(c, a, t, p, j)
  BY <1>5, <1>9, <1>i DEF Ok, Agreed
<1>11. Upload(c, a, t, p, q, j)
  <2>1. ASSUME s.st # "none"
        PROVE  /\ Acks(j, c) <= t.tx
               /\ \E d \in Nat : Acks(i, c) = Acks(j, c) + d /\ s.tx = t.tx + d
    <3>1. Acks(i, c) <= s.tx
      BY <2>1 DEF Ok, Upload
    <3>2. CASE kind = "ack"
      <4>1. Acks(i, c) = Acks(j, c) + 1 /\ s.tx > 0
        BY <1>2, <1>n, <3>1, <3>2
      <4>2. t.tx = s.tx - 1
        BY <1>5, <3>2, <4>1
      <4>3. s.tx = t.tx + 1 /\ Acks(j, c) <= t.tx
        BY <1>2, <1>n, <3>1, <4>1, <4>2
      <4> QED  BY <4>1, <4>3
    <3>3. CASE kind # "ack"
      <4>1. Acks(i, c) = Acks(j, c) /\ t.tx = s.tx
        BY <1>5, <1>n, <3>3
      <4>2. Acks(i, c) = Acks(j, c) + 0 /\ s.tx = t.tx + 0 /\ Acks(j, c) <= t.tx
        BY <1>2, <1>n, <3>1, <4>1
      <4> QED  BY <4>2
    <3> QED  BY <3>2, <3>3
  <2>2. ASSUME Live(a), s.st # "none"
        PROVE  a.wrote + Acks(j, c) = Queued(q, c) + t.pending + t.tx + p.got
    <3>1. a.wrote + Acks(i, c) = Queued(q, c) + s.pending + s.tx + p.got
      BY <2>2 DEF Ok, Upload
    <3>2. PICK d \in Nat : Acks(i, c) = Acks(j, c) + d /\ s.tx = t.tx + d
      BY <2>1, <2>2
    <3>3. /\ a.wrote \in Nat /\ Acks(i, c) \in Nat /\ Acks(j, c) \in Nat /\ s.pending \in Nat
          /\ s.tx \in Nat /\ t.tx \in Nat /\ p.got \in Nat
      BY <1>2, <1>6, <1>n
    <3>4. a.wrote + Acks(j, c) = Queued(q, c) + s.pending + t.tx + p.got
      BY <3>1, <3>2, <3>3
    <3> QED  BY <1>5, <3>4
  <2>3. ASSUME p.gotFin, Live(a), ~p.fin
        PROVE  a.shut /\ Queued(q, c) = 0 /\ t.pending = 0 /\ t.tx = 0 /\ p.got = a.wrote
    <3>1. a.shut /\ Queued(q, c) = 0 /\ s.pending = 0 /\ s.tx = 0 /\ p.got = a.wrote
      BY <2>3 DEF Ok, Upload
    <3>2. t.tx = 0
      BY <1>5, <3>1
    <3> QED  BY <1>5, <3>1, <3>2
  <2>4. Live(a) /\ ~p.fin /\ t.st = "FinWait1" => t.half /\ t.pending = 0
    BY <1>5 DEF Ok, Upload
  <2> QED  BY <1>5, <2>1, <2>2, <2>3, <2>4 DEF Upload
<1>12. Download(c, a, t, p, j, m, k)
  <2>1. t.rx + Coming(j, c) <= p.sent
    <3>1. t.rx + Coming(j, c) <= s.rx + Coming(i, c)
      BY <1>2, <1>5, <1>n
    <3> QED  BY <1>2, <1>3, <1>6, <1>n, <3>1
  <2>2. t.st = "none" => t.rx = 0
    BY <1>5 DEF Ok, Download
  <2>3. ASSUME Live(a), k # "ended", ~p.rst, Finished(a, t)
        PROVE  p.fin /\ Coming(j, c) = 0
    <3>1. CASE kind = "fin"
      BY <1>9, <1>n, <3>1
    <3>2. CASE kind # "fin"
      <4>1. Finished(a, s)
        BY <1>5, <1>9, <2>3, <3>2 DEF Finished
      <4>2. p.fin /\ Coming(i, c) = 0
        BY <2>3, <4>1 DEF Ok, Download
      <4> QED  BY <1>n, <4>2
    <3> QED  BY <3>1, <3>2
  <2>4. ASSUME Live(a), k # "ended", ~p.rst, ~s.slow
        PROVE  p.sent = Coming(j, c) + t.rx + Bytes(t.toApp) + a.read
    <3>1. p.sent = Coming(i, c) + s.rx + Bytes(s.toApp) + a.read
      BY <2>4 DEF Ok, Download
    <3>2. Coming(j, c) + t.rx = Coming(i, c) + s.rx
      <4>1. CASE kind = "data"
        <5>1. Coming(i, c) = Coming(j, c) + 1 /\ Coming(i, c) # 0
          BY <1>n, <4>1
        <5>2. ~Finished(a, s)
          BY <2>4, <5>1 DEF Ok, Download
        <5>3. s.st # "SynSent"
          <6>1. p.sent # 0
            BY <1>2, <1>3, <1>n, <5>1
          <6> QED  BY <6>1 DEF Ok, Agreed
        <5>4. s.st # "none"
          BY <1>7, <2>4, <5>2 DEF Ok, Born, Live, Finished
        <5>5. s.st \in {"Established", "FinWait1", "FinWait2"}
          BY <5>2, <5>3, <5>4 DEF Sockets, States, Over, Finished
        <5>6. t.rx = s.rx + 1
          BY <1>5, <4>1, <5>5
        <5> QED  BY <1>2, <1>n, <5>1, <5>6
      <4>2. CASE kind # "data"
        <5>1. Coming(i, c) = Coming(j, c) /\ t.rx = s.rx
          BY <1>5, <1>n, <4>2
        <5> QED  BY <5>1
      <4> QED  BY <4>1, <4>2
    <3> QED  BY <1>5, <3>1, <3>2
  <2>5. a.eof => t.st = "none" /\ ~Has(m, c) /\ a.is \in {"open", "gone"}
    BY <1>5 DEF Ok, Download
  <2>6. a.eof /\ ~p.rst /\ k # "ended" /\ ~t.slow => a.read = p.sent
    BY <1>5 DEF Ok, Download
  <2>7. t.slow = s.slow
    BY <1>5
  <2> QED  BY <1>j, <2>1, <2>2, <2>3, <2>4, <2>5, <2>6, <2>7 DEF Download
<1> QED  BY <1>5, <1>7, <1>k, <1>8, <1>10, <1>11, <1>12 DEF Ok, t

-----------------------------------------------------------------------------
(* service_tcp.                                                            *)

\* What closing a socket does to its state.
LEMMA CloseShape ==
  ASSUME NEW s \in Sockets
  PROVE  LET t == Close(s) IN
         /\ t \in Sockets
         /\ t.established = s.established /\ t.half = s.half /\ t.pending = s.pending
         /\ t.tx = s.tx /\ t.rx = s.rx /\ t.toApp = s.toApp /\ t.slow = s.slow
         /\ t.st = "none" <=> s.st = "none"
         /\ t.st # "SynSent" /\ t.st # "CloseWait"
         /\ t.st \in Over <=> s.st \in Over
         /\ t.st = "Closed" => s.st \in {"SynSent", "Closed"}
         /\ t.st = "FinWait1" => s.st \in {"Established", "FinWait1"}
<1> DEFINE t == Close(s)
<1>1. PICK z : z = t.st
  OBVIOUS
<1>2. /\ t = [s EXCEPT !.st = z]
      /\ z = CASE s.st = "SynSent" -> "Closed"
               [] s.st = "Established" -> "FinWait1"
               [] s.st = "CloseWait" -> "LastAck"
               [] s.st \notin {"SynSent", "Established", "CloseWait"} -> s.st
  BY <1>1 DEF Close, Sockets
<1> HIDE DEF t
<1>3. s.st \in States
  BY DEF Sockets
<1>4. /\ z \in States
      /\ z = "none" <=> s.st = "none"
      /\ z # "SynSent" /\ z # "CloseWait"
      /\ z \in Over <=> s.st \in Over
      /\ z = "Closed" => s.st \in {"SynSent", "Closed"}
      /\ z = "FinWait1" => s.st \in {"Established", "FinWait1"}
  BY <1>2, <1>3 DEF States, Over
<1>5. /\ t \in Sockets /\ t.st = z
      /\ t.established = s.established /\ t.half = s.half /\ t.pending = s.pending
      /\ t.tx = s.tx /\ t.rx = s.rx /\ t.toApp = s.toApp /\ t.slow = s.slow
  BY <1>2, <1>4 DEF Sockets
<1> QED  BY <1>4, <1>5 DEF t

\* A close is due when the application is gone, when it has closed its half and all
\* it wrote is in the socket, or when the peer has closed.
LEMMA CloseOk ==
  ASSUME NEW c, NEW a, NEW s \in Sockets, NEW p, NEW q, NEW i, NEW m, NEW k,
         Ok(c, a, s, p, q, i, m, k), s.st # "none",
         \/ ~Live(a)
         \/ s.half /\ s.pending = 0
         \/ s.st = "CloseWait"
  PROVE  Close(s) \in Sockets /\ Ok(c, a, Close(s), p, q, i, m, k)
<1> DEFINE t == Close(s)
<1>1. /\ t \in Sockets
      /\ t.established = s.established /\ t.half = s.half /\ t.pending = s.pending
      /\ t.tx = s.tx /\ t.rx = s.rx /\ t.toApp = s.toApp /\ t.slow = s.slow
      /\ t.st # "none"
      /\ t.st # "SynSent" /\ t.st # "CloseWait"
      /\ t.st \in Over <=> s.st \in Over
      /\ t.st = "Closed" => s.st \in {"SynSent", "Closed"}
      /\ t.st = "FinWait1" => s.st \in {"Established", "FinWait1"}
  BY CloseShape
<1> HIDE DEF t
<1>2. ~(a.is = "none" \/ Has(m, c))
  BY DEF Ok, Born, NoConn
<1>3. Born(c, a, t, p, q, i, m)
  BY <1>1, <1>2 DEF Ok, Born
<1>4. Said(c, a, t, q)
  BY <1>1 DEF Ok, Said
<1>5. Agreed(c, a, t, p, i)
  BY <1>1 DEF Ok, Agreed
<1>6. Upload(c, a, t, p, q, i)
  <2>1. ASSUME Live(a), ~p.fin, t.st = "FinWait1" PROVE s.half /\ s.pending = 0
    BY <1>1, <2>1 DEF Ok, Upload, Agreed, Over
  <2> QED  BY <1>1, <2>1 DEF Ok, Upload
<1>7. Download(c, a, t, p, i, m, k)
  <2>1. ASSUME Live(a), Finished(a, t) PROVE Finished(a, s)
    <3>1. CASE s.st = "SynSent"
      <4>1. s.half
        BY <2>1, <3>1
      <4>2. a.shut /\ ~s.established
        BY <3>1, <4>1 DEF Ok, Said, Agreed
      <4> QED  BY <1>2, <2>1, <3>1, <4>2 DEF Ok, Born, Agreed, Live
    <3>2. CASE s.st # "SynSent"
      BY <1>1, <2>1, <3>2 DEF Finished
    <3> QED  BY <3>1, <3>2
  <2>2. ~a.eof
    BY DEF Ok, Download
  <2> QED  BY <1>1, <2>1, <2>2 DEF Ok, Download
<1> QED  BY <1>1, <1>3, <1>4, <1>5, <1>6, <1>7 DEF Ok, t

\* Pending bytes move into the socket.
LEMMA SentOk ==
  ASSUME NEW c, NEW a, NEW s \in Sockets, NEW p, NEW q, NEW i, NEW m, NEW k,
         a \in Apps, p \in Ends, Queued(q, c) \in Nat, Acks(i, c) \in Nat,
         Ok(c, a, s, p, q, i, m, k), s.st # "none",
         NEW n \in Nat, n <= s.pending, n <= TxBuffer - s.tx, ~CanSend(s) => n = 0
  PROVE  LET t == [s EXCEPT !.pending = s.pending - n, !.tx = s.tx + n] IN
         t \in Sockets /\ t.st # "none" /\ Ok(c, a, t, p, q, i, m, k)
<1> DEFINE t == [s EXCEPT !.pending = s.pending - n, !.tx = s.tx + n]
<1>1. /\ s.pending \in Nat /\ s.tx \in Nat /\ s.tx <= TxBuffer /\ TxBuffer \in Nat
      /\ a.wrote \in Nat /\ p.got \in Nat
  BY ConstantsAssumption DEF Sockets, Apps, Ends
<1>2. s.pending - n \in Nat /\ s.tx + n \in 0 .. TxBuffer /\ s.tx + n \in Nat /\ s.tx <= s.tx + n
  BY <1>1
<1>3. /\ t \in Sockets /\ t.st = s.st
      /\ t.established = s.established /\ t.half = s.half /\ t.pending = s.pending - n
      /\ t.tx = s.tx + n /\ t.rx = s.rx /\ t.toApp = s.toApp /\ t.slow = s.slow
  BY <1>2 DEF Sockets
<1> HIDE DEF t
<1>4. Born(c, a, t, p, q, i, m)
  BY <1>3 DEF Ok, Born, NoConn
<1>5. Said(c, a, t, q) /\ Agreed(c, a, t, p, i)
  BY <1>3 DEF Ok, Said, Agreed
<1>6. Download(c, a, t, p, i, m, k)
  BY <1>3 DEF Ok, Download, Finished
<1>7. Upload(c, a, t, p, q, i)
  <2>1. Acks(i, c) <= t.tx
    <3>1. Acks(i, c) <= s.tx
      BY DEF Ok, Upload
    <3> QED  BY <1>1, <1>2, <1>3, <3>1
  <2>2. ASSUME Live(a) PROVE a.wrote + Acks(i, c) = Queued(q, c) + t.pending + t.tx + p.got
    <3>1. a.wrote + Acks(i, c) = Queued(q, c) + s.pending + s.tx + p.got
      BY <2>2 DEF Ok, Upload
    <3>2. Queued(q, c) + s.pending + s.tx + p.got = Queued(q, c) + (s.pending - n) + (s.tx + n) + p.got
      BY <1>1
    <3> QED  BY <1>3, <3>1, <3>2
  <2>3. s.pending = 0 => n = 0
    BY <1>1
  <2>4. n = 0 => t.pending = s.pending /\ t.tx = s.tx
    BY <1>1, <1>3
  <2>5. s.st = "FinWait1" => n = 0
    BY DEF CanSend
  <2>6. Live(a) /\ ~p.fin /\ t.st = "FinWait1" => t.half /\ t.pending = 0
    BY <1>3, <2>4, <2>5 DEF Ok, Upload
  <2>7. p.gotFin /\ Live(a) /\ ~p.fin =>
          a.shut /\ Queued(q, c) = 0 /\ t.pending = 0 /\ t.tx = 0 /\ p.got = a.wrote
    BY <2>3, <2>4 DEF Ok, Upload
  <2> QED  BY <2>1, <2>2, <2>6, <2>7 DEF Upload
<1> QED  BY <1>3, <1>4, <1>5, <1>6, <1>7 DEF Ok, t

\* The bytes of an application, and then its close.
LEMMA FlushOk ==
  ASSUME NEW c, NEW a \in Apps, NEW s \in Sockets, NEW p \in Ends, NEW q, NEW i, NEW m, NEW k,
         Queued(q, c) \in Nat, Acks(i, c) \in Nat,
         Ok(c, a, s, p, q, i, m, k), s.st # "none"
  PROVE  /\ Flush(s) \in Sockets /\ Flush(s).st # "none" /\ Flush(s).established = s.established
         /\ Ok(c, a, Flush(s), p, q, i, m, k)
<1> DEFINE n == IF CanSend(s) THEN IF s.pending <= TxBuffer - s.tx THEN s.pending ELSE TxBuffer - s.tx
                ELSE 0
           t == [s EXCEPT !.pending = s.pending - n, !.tx = s.tx + n]
<1>1. s.pending \in Nat /\ s.tx \in Nat /\ s.tx <= TxBuffer /\ TxBuffer \in Nat
  BY ConstantsAssumption DEF Sockets
<1>2. n \in Nat /\ n <= s.pending /\ n <= TxBuffer - s.tx /\ (~CanSend(s) => n = 0)
  BY <1>1
<1>3. Flush(s) = IF t.half /\ t.pending = 0 THEN Close(t) ELSE t
  BY DEF Flush
<1> HIDE DEF n
<1>4. t.established = s.established
  BY DEF Sockets
<1>5. t \in Sockets /\ t.st # "none" /\ Ok(c, a, t, p, q, i, m, k)
  BY <1>2, SentOk
<1> HIDE DEF t
<1>6. CASE t.half /\ t.pending = 0
  <2>1. Close(t) \in Sockets /\ Ok(c, a, Close(t), p, q, i, m, k)
    BY <1>5, <1>6, CloseOk
  <2>2. Close(t).established = t.established /\ Close(t).st # "none"
    BY <1>5, CloseShape
  <2> QED  BY <1>3, <1>4, <1>6, <2>1, <2>2
<1>7. CASE ~(t.half /\ t.pending = 0)
  BY <1>3, <1>4, <1>5, <1>7
<1> QED  BY <1>6, <1>7

\* Received bytes go to the application, or the socket keeps them and is marked.
LEMMA DeliverOk ==
  ASSUME NEW c, NEW a \in Apps, NEW s \in Sockets, NEW p \in Ends, NEW q, NEW i, NEW m, NEW k,
         Coming(i, c) \in Nat,
         Ok(c, a, s, p, q, i, m, k), s.st # "none"
  PROVE  LET t == Deliver(s) IN
         /\ t \in Sockets /\ t.st = s.st /\ t.established = s.established
         /\ t.rx = 0 \/ t.slow
         /\ Ok(c, a, t, p, q, i, m, k)
<1> DEFINE t == Deliver(s)
<1>0. MaxDown \in Nat
  BY ConstantsAssumption
<1>1. /\ s.rx \in 0 .. MaxDown /\ s.rx \in Nat /\ a.read \in Nat /\ s.toApp \in Seq(1 .. MaxDown)
      /\ p.sent \in Nat
  BY <1>0 DEF Sockets, Apps, Ends
<1>2. /\ t \in Sockets /\ t.st = s.st /\ t.established = s.established /\ t.half = s.half
      /\ t.pending = s.pending /\ t.tx = s.tx
      /\ \/ t.rx = s.rx /\ t.toApp = s.toApp /\ t.slow = s.slow /\ s.rx = 0
         \/ t.rx = 0 /\ t.toApp = Append(s.toApp, s.rx) /\ t.slow = s.slow /\ s.rx # 0
         \/ t.rx = s.rx /\ t.toApp = s.toApp /\ t.slow = TRUE
  <2>1. CASE s.rx = 0
    BY <2>1 DEF Deliver
  <2>2. CASE s.rx # 0 /\ Len(s.toApp) < AppQueue
    <3>1. t = [s EXCEPT !.toApp = Append(s.toApp, s.rx), !.rx = 0]
      BY <2>2 DEF Deliver
    <3>2. Append(s.toApp, s.rx) \in Seq(1 .. MaxDown) /\ 0 \in 0 .. MaxDown
      BY <1>0, <1>1, <2>2
    <3> HIDE DEF t
    <3>3. PICK f \in Seq(1 .. MaxDown) : f = Append(s.toApp, s.rx)
      BY <3>2
    <3>4. t = [s EXCEPT !.toApp = f, !.rx = 0]
      BY <3>1, <3>3
    <3>5. /\ t \in Sockets /\ t.st = s.st /\ t.established = s.established /\ t.half = s.half
          /\ t.pending = s.pending /\ t.tx = s.tx
          /\ t.rx = 0 /\ t.toApp = f /\ t.slow = s.slow
      BY <3>2, <3>4 DEF Sockets
    <3> QED  BY <2>2, <3>3, <3>5
  <2>3. CASE s.rx # 0 /\ ~(Len(s.toApp) < AppQueue)
    <3>1. t = [s EXCEPT !.slow = TRUE]
      BY <2>3 DEF Deliver
    <3> QED  BY <3>1 DEF Sockets
  <2> QED  BY <2>1, <2>2, <2>3
<1> HIDE DEF t
<1>3. Born(c, a, t, p, q, i, m)
  BY <1>2 DEF Ok, Born, NoConn
<1>4. Said(c, a, t, q) /\ Agreed(c, a, t, p, i)
  BY <1>2 DEF Ok, Said, Agreed
<1>5. Upload(c, a, t, p, q, i)
  BY <1>2 DEF Ok, Upload
<1>6. ~a.eof
  BY DEF Ok, Download
<1>7. Finished(a, t) <=> Finished(a, s)
  BY <1>2 DEF Finished
<1>8. t.rx + Coming(i, c) <= p.sent
  <2>1. s.rx + Coming(i, c) <= p.sent
    BY DEF Ok, Download
  <2>2. t.rx = s.rx \/ t.rx = 0
    BY <1>2
  <2> QED  BY <1>1, <2>1, <2>2
<1>9. ASSUME ~t.slow
      PROVE  Coming(i, c) + t.rx + Bytes(t.toApp) + a.read = Coming(i, c) + s.rx + Bytes(s.toApp) + a.read
  <2>1. CASE t.rx = s.rx /\ t.toApp = s.toApp
    BY <2>1
  <2>2. CASE t.rx = 0 /\ t.toApp = Append(s.toApp, s.rx) /\ s.rx # 0
    <3>1. s.rx \in 1 .. MaxDown
      BY <1>1, <2>2
    <3>2. Bytes(t.toApp) = Bytes(s.toApp) + s.rx /\ Bytes(s.toApp) \in Nat
      BY <1>0, <1>1, <2>2, <3>1, BytesAppend, BytesType
    <3>3. t.rx = 0
      BY <2>2
    <3> QED  BY <1>1, <3>2, <3>3
  <2> QED  BY <1>2, <1>9, <2>1, <2>2
<1>10. ASSUME Live(a), k # "ended", ~p.rst, ~t.slow
       PROVE  p.sent = Coming(i, c) + t.rx + Bytes(t.toApp) + a.read
  <2>1. ~s.slow
    BY <1>2, <1>10
  <2>2. p.sent = Coming(i, c) + s.rx + Bytes(s.toApp) + a.read
    BY <1>10, <2>1 DEF Ok, Download
  <2> QED  BY <1>9, <1>10, <2>2
<1>11. Download(c, a, t, p, i, m, k)
  BY <1>2, <1>6, <1>7, <1>8, <1>10 DEF Ok, Download
<1> QED  BY <1>2, <1>3, <1>4, <1>5, <1>11 DEF Ok, t

\* The connection is forgotten: what it had received is with the application.
LEMMA ForgetOk ==
  ASSUME NEW c, NEW a, NEW s \in Sockets, NEW p \in Ends, NEW q, NEW i, NEW m, NEW k,
         Coming(i, c) \in Nat,
         Ok(c, a, s, p, q, i, m, k), s.st = "Closed", s.established,
         Live(a) => s.rx = 0 \/ s.slow
  PROVE  Forget(s) \in Sockets /\ Ok(c, a, Forget(s), p, q, i, m, k)
<1> DEFINE t == Forget(s)
<1>1. t = [NoConn EXCEPT !.toApp = s.toApp, !.slow = s.slow]
  BY DEF Forget
<1> HIDE DEF t
<1>2. /\ t \in Sockets /\ t.st = "none" /\ t.established = FALSE /\ t.half = FALSE
      /\ t.pending = 0 /\ t.tx = 0 /\ t.rx = 0 /\ t.toApp = s.toApp /\ t.slow = s.slow
  <2>1. s.toApp \in Seq(1 .. MaxDown) /\ s.slow \in BOOLEAN
    BY DEF Sockets
  <2>2. 0 \in 0 .. MaxDown /\ 0 \in 0 .. TxBuffer
    BY ConstantsAssumption
  <2>3. t = [st |-> "none", established |-> FALSE, half |-> FALSE, pending |-> 0,
             tx |-> 0, rx |-> 0, toApp |-> s.toApp, slow |-> s.slow]
    BY <1>1 DEF NoConn
  <2> QED  BY <2>1, <2>2, <2>3 DEF Sockets, States
<1>3. ~(a.is = "none" \/ Has(m, c)) /\ a.is # "asking"
  BY DEF Ok, Born, NoConn
<1>4. Born(c, a, t, p, q, i, m)
  BY <1>3 DEF Ok, Born
<1>5. Said(c, a, t, q) /\ Agreed(c, a, t, p, i)
  BY <1>2 DEF Ok, Said, Agreed, Over
<1>6. Upload(c, a, t, p, q, i)
  BY <1>2 DEF Ok, Upload
<1>7. ~a.eof
  BY DEF Ok, Download
<1>8. Finished(a, s)
  BY DEF Finished
<1>9. t.rx + Coming(i, c) <= p.sent
  <2>1. s.rx + Coming(i, c) <= p.sent
    BY DEF Ok, Download
  <2>2. s.rx \in Nat /\ p.sent \in Nat
    BY ConstantsAssumption DEF Sockets, Ends
  <2> QED  BY <1>2, <2>1, <2>2
<1>10. Live(a) /\ ~t.slow => t.rx = s.rx
  BY <1>2
<1>11. Download(c, a, t, p, i, m, k)
  BY <1>2, <1>7, <1>8, <1>9, <1>10 DEF Ok, Download
<1> QED  BY <1>2, <1>4, <1>5, <1>6, <1>11 DEF Ok, t

\* The end of service_tcp.
LEMMA FinishOk ==
  ASSUME NEW c, NEW a \in Apps, NEW s \in Sockets, NEW p \in Ends, NEW q, NEW i, NEW m, NEW k,
         Coming(i, c) \in Nat,
         Ok(c, a, s, p, q, i, m, k), s.st # "none",
         a.is \in {"asking", "open"} => app[c].is \in {"asking", "open"}
  PROVE  Finish(c, s) \in Sockets /\ Ok(c, a, Finish(c, s), p, q, i, m, k)
<1> DEFINE h == IF Listening(c, s) THEN Deliver(s) ELSE Close(s)
<1>1. Finish(c, s) = IF h.st = "CloseWait" THEN Close(h)
                     ELSE IF h.st = "Closed" /\ h.established THEN Forget(h) ELSE h
  BY DEF Finish
<1>2. a.is # "none"
  BY DEF Ok, Born, NoConn
<1>3. /\ h \in Sockets /\ h.st # "none" /\ (Live(a) => h.rx = 0 \/ h.slow)
      /\ Ok(c, a, h, p, q, i, m, k)
  <2>1. CASE Listening(c, s)
    <3>1. h = Deliver(s)
      BY <2>1
    <3> HIDE DEF h
    <3>2. /\ Deliver(s) \in Sockets /\ Deliver(s).st = s.st
          /\ Deliver(s).rx = 0 \/ Deliver(s).slow
          /\ Ok(c, a, Deliver(s), p, q, i, m, k)
      BY DeliverOk
    <3> QED  BY <3>1, <3>2
  <2>2. CASE ~Listening(c, s)
    <3>1. h = Close(s)
      BY <2>2
    <3>2. ~Live(a)
      BY <1>2, <2>2 DEF Listening, Live
    <3> HIDE DEF h
    <3>3. Close(s) \in Sockets /\ Ok(c, a, Close(s), p, q, i, m, k)
      BY <3>2, CloseOk
    <3>4. Close(s).st # "none"
      BY CloseShape
    <3> QED  BY <3>1, <3>2, <3>3, <3>4
  <2> QED  BY <2>1, <2>2
<1> HIDE DEF h
<1>4. CASE h.st = "CloseWait"
  BY <1>1, <1>3, <1>4, CloseOk
<1>5. CASE h.st = "Closed" /\ h.established
  <2>1. Forget(h) \in Sockets /\ Ok(c, a, Forget(h), p, q, i, m, k)
    BY <1>3, <1>5, ForgetOk
  <2> QED  BY <1>1, <1>5, <2>1
<1>6. CASE h.st # "CloseWait" /\ ~(h.st = "Closed" /\ h.established)
  BY <1>1, <1>3, <1>6
<1> QED  BY <1>4, <1>5, <1>6

\* A socket that is established is handed to whoever still waits for it.
LEMMA OpenOk ==
  ASSUME NEW c, NEW a \in Apps, NEW s \in Sockets, NEW p, NEW q, NEW i, NEW m, NEW k,
         Ok(c, a, s, p, q, i, m, k), s.st = "Established", ~s.established
  PROVE  LET b == IF a.is = "asking" THEN [a EXCEPT !.is = "open"] ELSE a
             t == [s EXCEPT !.established = TRUE] IN
         b \in Apps /\ t \in Sockets /\ t.st # "none" /\ Ok(c, b, t, p, q, i, m, k)
<1> DEFINE b == IF a.is = "asking" THEN [a EXCEPT !.is = "open"] ELSE a
           t == [s EXCEPT !.established = TRUE]
<1>1. /\ t \in Sockets /\ t.st = "Established" /\ t.established = TRUE /\ t.half = s.half
      /\ t.pending = s.pending /\ t.tx = s.tx /\ t.rx = s.rx /\ t.toApp = s.toApp
      /\ t.slow = s.slow
  BY DEF Sockets
<1>2. /\ b \in Apps /\ b.wrote = a.wrote /\ b.shut = a.shut /\ b.read = a.read /\ b.eof = a.eof
      /\ b.is = IF a.is = "asking" THEN "open" ELSE a.is
  BY DEF Apps
<1> HIDE DEF b, t
<1>3. ~(a.is = "none" \/ Has(m, c)) /\ ~a.eof
  BY DEF Ok, Born, Download, NoConn
<1>4. Live(b) <=> Live(a)
  BY <1>2 DEF Live
<1>5. Born(c, b, t, p, q, i, m)
  BY <1>2, <1>3 DEF Ok, Born
<1>6. Said(c, b, t, q) /\ Agreed(c, b, t, p, i)
  BY <1>1, <1>2 DEF Ok, Said, Agreed
<1>7. Upload(c, b, t, p, q, i)
  BY <1>1, <1>2, <1>4 DEF Ok, Upload
<1>8. ~Finished(b, t)
  BY <1>1 DEF Finished, Over
<1>9. Download(c, b, t, p, i, m, k)
  BY <1>1, <1>2, <1>3, <1>4, <1>8 DEF Ok, Download
<1> QED  BY <1>1, <1>2, <1>5, <1>6, <1>7, <1>9 DEF Ok, b, t

\* A socket that closed before it was established: whoever waits is refused.
LEMMA RefuseOk ==
  ASSUME NEW c, NEW a \in Apps, NEW s \in Sockets, NEW p \in Ends, NEW q, NEW i, NEW m, NEW k,
         Coming(i, c) \in Nat,
         Ok(c, a, s, p, q, i, m, k), s.st \in {"Closed", "TimeWait"}, ~s.established
  PROVE  LET b == IF a.is = "asking" THEN [a EXCEPT !.is = "refused"] ELSE a IN
         b \in Apps /\ NoConn \in Sockets /\ Ok(c, b, NoConn, p, q, i, m, k)
<1> DEFINE b == IF a.is = "asking" THEN [a EXCEPT !.is = "refused"] ELSE a
<1>1. NoConn \in Sockets
  <2>1. << >> \in Seq(1 .. MaxDown)
    OBVIOUS
  <2>2. 0 \in 0 .. MaxDown /\ 0 \in 0 .. TxBuffer
    BY ConstantsAssumption
  <2> QED  BY <2>1, <2>2 DEF NoConn, Sockets, States
<1>2. /\ b \in Apps /\ b.wrote = a.wrote /\ b.shut = a.shut /\ b.read = a.read /\ b.eof = a.eof
      /\ b.is = IF a.is = "asking" THEN "refused" ELSE a.is
  BY DEF Apps
<1> HIDE DEF b
<1>3. /\ ~(a.is = "none" \/ Has(m, c)) /\ ~a.eof /\ a.is # "open"
  BY DEF Ok, Born, Download, Agreed, NoConn
<1>4. ~Live(b) /\ b.is # "open" /\ b.is # "none" /\ b.is # "asking"
  BY <1>2, <1>3 DEF Live, Apps
<1>5. Born(c, b, NoConn, p, q, i, m)
  BY <1>3, <1>4 DEF Born
<1>6. Said(c, b, NoConn, q)
  BY <1>2 DEF Ok, Said, NoConn
<1>7. Agreed(c, b, NoConn, p, i)
  BY <1>4 DEF Ok, Agreed, NoConn, Over
<1>8. Upload(c, b, NoConn, p, q, i)
  BY <1>4 DEF Upload, NoConn
<1>9. 0 + Coming(i, c) <= p.sent
  <2>1. s.rx + Coming(i, c) <= p.sent
    BY DEF Ok, Download
  <2>2. s.rx \in Nat /\ p.sent \in Nat
    BY ConstantsAssumption DEF Sockets, Ends
  <2> QED  BY <2>1, <2>2
<1>10. Download(c, b, NoConn, p, i, m, k)
  BY <1>2, <1>3, <1>4, <1>9 DEF Ok, Download, NoConn
<1> QED  BY <1>1, <1>2, <1>5, <1>6, <1>7, <1>8, <1>10 DEF Ok, b

\* The task goes on.
LEMMA TaskOk ==
  ASSUME NEW c, NEW a, NEW s, NEW p, NEW q, NEW i, NEW m, NEW k, k # "ended", NEW l,
         Ok(c, a, s, p, q, i, m, k)
  PROVE  Ok(c, a, s, p, q, i, m, l)
  BY DEF Ok, Download

-----------------------------------------------------------------------------
(* The steps.                                                              *)

\* What the invariant says of one connection.
LEMMA Parts ==
  ASSUME Inv, NEW c \in Conns
  PROVE  /\ app[c] \in Apps /\ conn[c] \in Sockets /\ peer[c] \in Ends
         /\ Queued(dataIn, c) \in Nat /\ Coming(inbound, c) \in Nat /\ Acks(inbound, c) \in Nat
         /\ Ok(c, app[c], conn[c], peer[c], dataIn, inbound, cmds, stack)
<1>1. app[c] \in Apps /\ conn[c] \in Sockets /\ peer[c] \in Ends
  BY DEF Inv, Typed
<1>2. dataIn \in Seq(Messages) /\ inbound \in Seq(Packets)
  BY DEF Inv, Typed
<1>3. Queued(dataIn, c) \in Nat /\ Coming(inbound, c) \in Nat /\ Acks(inbound, c) \in Nat
  BY <1>2, CountsType
<1> QED  BY <1>1, <1>3 DEF Inv

Served(c) ==
    IF app[c].is # "asking" THEN app[c]
    ELSE [app[c] EXCEPT !.is = IF Opened(c) THEN "open" ELSE IF Refused(c) THEN "refused" ELSE @]

\* service_tcp keeps the invariant of its connection.
LEMMA ServiceOk ==
  ASSUME Inv, stack # "ended", NEW c \in Conns
  PROVE  /\ Served(c) \in Apps /\ Service(c) \in Sockets
         /\ Ok(c, Served(c), Service(c), peer[c], dataIn, inbound, cmds, "wait")
<1> DEFINE a == app[c]
           s == conn[c]
           p == peer[c]
           O(b, t) == Ok(c, b, t, p, dataIn, inbound, cmds, "wait")
<1>1. /\ a \in Apps /\ s \in Sockets /\ p \in Ends
      /\ Queued(dataIn, c) \in Nat /\ Coming(inbound, c) \in Nat /\ Acks(inbound, c) \in Nat
      /\ O(a, s)
  BY Parts, TaskOk
<1>2. s.established \in BOOLEAN
  BY <1>1 DEF Sockets
<1>3. CASE s.st = "none"
  <2>1. Service(c) = s
    BY <1>3 DEF Service
  <2>2. Served(c) = a
    BY <1>1, <1>3 DEF Served, Opened, Refused, Apps
  <2> QED  BY <1>1, <2>1, <2>2
<1>4. CASE s.st \in {"Closed", "TimeWait"} /\ ~s.established
  <2>1. Service(c) = NoConn
    BY <1>4 DEF Service
  <2>2. Served(c) = IF a.is = "asking" THEN [a EXCEPT !.is = "refused"] ELSE a
    BY <1>1, <1>4 DEF Served, Opened, Refused
  <2> HIDE DEF a, s, p
  <2>3. LET b == IF a.is = "asking" THEN [a EXCEPT !.is = "refused"] ELSE a IN
        b \in Apps /\ NoConn \in Sockets /\ O(b, NoConn)
    BY <1>1, <1>4, RefuseOk
  <2> QED  BY <2>1, <2>2, <2>3 DEF p
<1>5. CASE s.st # "none" /\ ~(s.st \in {"Closed", "TimeWait"} /\ ~s.established)
  <2> DEFINE t == IF Opened(c) THEN [s EXCEPT !.established = TRUE] ELSE s
             b == Served(c)
  <2>1. Service(c) = Finish(c, Flush(t))
    BY <1>5 DEF Service
  <2>2. ~Refused(c)
    BY <1>5 DEF Refused
  <2>3. b \in Apps /\ t \in Sockets /\ t.st # "none" /\ O(b, t)
    <3>1. CASE Opened(c)
      <4>1. b = IF a.is = "asking" THEN [a EXCEPT !.is = "open"] ELSE a
        BY <3>1 DEF Served
      <4>2. t = [s EXCEPT !.established = TRUE]
        BY <3>1
      <4>3. s.st = "Established" /\ ~s.established
        BY <3>1 DEF Opened
      <4> HIDE DEF a, s, p, t, b
      <4>4. LET d == IF a.is = "asking" THEN [a EXCEPT !.is = "open"] ELSE a
                u == [s EXCEPT !.established = TRUE] IN
            d \in Apps /\ u \in Sockets /\ u.st # "none" /\ O(d, u)
        BY <1>1, <4>3, OpenOk
      <4> QED  BY <4>1, <4>2, <4>4
    <3>2. CASE ~Opened(c)
      <4>1. b = a
        BY <1>1, <2>2, <3>2 DEF Served, Apps
      <4>2. t = s
        BY <3>2
      <4> QED  BY <1>1, <1>5, <4>1, <4>2
    <3> QED  BY <3>1, <3>2
  <2>4. b.is \in {"asking", "open"} => app[c].is \in {"asking", "open"}
    BY <1>1 DEF Served, Apps
  <2> HIDE DEF a, s, p, t, b
  <2>5. Flush(t) \in Sockets /\ Flush(t).st # "none" /\ O(b, Flush(t))
    BY <1>1, <2>3, FlushOk
  <2>6. Finish(c, Flush(t)) \in Sockets /\ O(b, Finish(c, Flush(t)))
    BY <1>1, <2>3, <2>4, <2>5, FinishOk
  <2> QED  BY <2>1, <2>3, <2>6 DEF b, p
<1> QED  BY <1>3, <1>4, <1>5

\* A turn of the loop.
LEMMA TurnStep ==
  ASSUME Inv, Turn
  PROVE  Inv'
<1>1. \A c \in Conns : /\ Served(c) \in Apps /\ Service(c) \in Sockets
                       /\ Ok(c, Served(c), Service(c), peer[c], dataIn, inbound, cmds, "wait")
  BY ServiceOk DEF Turn
<1>2. /\ conn' = [c \in Conns |-> Service(c)] /\ app' = [c \in Conns |-> Served(c)]
      /\ stack' = "wait" /\ peer' = peer /\ dataIn' = dataIn /\ inbound' = inbound /\ cmds' = cmds
  BY DEF Turn, Served, channels
<1>3. Typed'
  BY <1>1, <1>2 DEF Inv, Typed
<1>4. AskedOnce'
  BY <1>2 DEF Inv, AskedOnce
<1>5. ASSUME NEW c \in Conns
      PROVE  Ok(c, app'[c], conn'[c], peer'[c], dataIn', inbound', cmds', stack')
  <2>1. app'[c] = Served(c) /\ conn'[c] = Service(c)
    BY <1>2
  <2> QED  BY <1>1, <1>2, <2>1
<1> QED  BY <1>3, <1>4, <1>5 DEF Inv

\* A packet leaves the inbound channel.
LEMMA IngestStep ==
  ASSUME Inv, Ingest
  PROVE  Inv'
<1> DEFINE e == Head(inbound)
           j == Tail(inbound)
           f(c) == IF e.of = c THEN Receive(conn[c], e.kind) ELSE conn[c]
<1>1. /\ inbound # << >> /\ stack # "ended" /\ stack' = "ingest" /\ inbound' = j
      /\ conn' = [c \in Conns |-> f(c)]
      /\ app' = app /\ peer' = peer /\ dataIn' = dataIn /\ cmds' = cmds
  BY DEF Ingest
<1>2. inbound \in Seq(Packets)
  BY DEF Inv, Typed
<1>3. j \in Seq(Packets) /\ e \in Packets
  BY <1>1, <1>2
<1>4. ASSUME NEW c \in Conns PROVE Taken(c, e, inbound, j)
  <2>1. Download(c, app[c], conn[c], peer[c], inbound, cmds, stack)
    BY Parts DEF Ok
  <2> QED  BY <1>1, <1>2, <2>1, PacketTaken
<1> HIDE DEF e, j
<1>5. ASSUME NEW c \in Conns
      PROVE  f(c) \in Sockets /\ Ok(c, app[c], f(c), peer[c], dataIn, j, cmds, "ingest")
  <2>1. /\ app[c] \in Apps /\ conn[c] \in Sockets /\ peer[c] \in Ends
        /\ Queued(dataIn, c) \in Nat
        /\ Ok(c, app[c], conn[c], peer[c], dataIn, inbound, cmds, "ingest")
    BY <1>1, Parts, TaskOk
  <2>2. CASE e.of = c
    <3>1. /\ Receive(conn[c], e.kind) \in Sockets
          /\ Ok(c, app[c], Receive(conn[c], e.kind), peer[c], dataIn, j, cmds, "ingest")
      BY <1>3, <1>4, <2>1, <2>2, PacketHandled
    <3> QED  BY <2>2, <3>1
  <2>3. CASE e.of # c
    <3>1. Ok(c, app[c], conn[c], peer[c], dataIn, j, cmds, "ingest")
      BY <1>4, <2>1, <2>3, PacketOfOther
    <3> QED  BY <2>1, <2>3, <3>1
  <2> QED  BY <2>2, <2>3
<1> HIDE DEF f
<1>6. Typed'
  BY <1>1, <1>3, <1>5 DEF Inv, Typed
<1>7. AskedOnce'
  BY <1>1 DEF Inv, AskedOnce
<1>8. ASSUME NEW c \in Conns
      PROVE  Ok(c, app'[c], conn'[c], peer'[c], dataIn', inbound', cmds', stack')
  <2>1. conn'[c] = f(c)
    BY <1>1
  <2> QED  BY <1>1, <1>5, <2>1
<1> QED  BY <1>6, <1>7, <1>8 DEF Inv

\* A message leaves data_in.
LEMMA DataStep ==
  ASSUME Inv, Data
  PROVE  Inv'
<1> DEFINE e == Head(dataIn)
           j == Tail(dataIn)
           f(c) == IF e.of = c THEN Handle(conn[c], e.kind) ELSE conn[c]
<1>1. /\ dataIn # << >> /\ stack # "ended" /\ stack' = "data" /\ dataIn' = j
      /\ conn' = [c \in Conns |-> f(c)]
      /\ app' = app /\ peer' = peer /\ inbound' = inbound /\ cmds' = cmds
  BY DEF Data, CommandsIdle, InboundIdle
<1>2. dataIn \in Seq(Messages)
  BY DEF Inv, Typed
<1>3. j \in Seq(Messages)
  BY <1>1, <1>2
<1>5. ASSUME NEW c \in Conns
      PROVE  f(c) \in Sockets /\ Ok(c, app[c], f(c), peer[c], j, inbound, cmds, "data")
  <2>1. /\ app[c] \in Apps /\ conn[c] \in Sockets /\ peer[c] \in Ends
        /\ Acks(inbound, c) \in Nat
        /\ Ok(c, app[c], conn[c], peer[c], dataIn, inbound, cmds, "data")
    BY <1>1, Parts, TaskOk
  <2>2. CASE e.of = c
    <3>1. /\ Handle(conn[c], e.kind) \in Sockets
          /\ Ok(c, app[c], Handle(conn[c], e.kind), peer[c], j, inbound, cmds, "data")
      BY <1>1, <1>2, <2>1, <2>2, DataHandled
    <3> QED  BY <2>2, <3>1
  <2>3. CASE e.of # c
    <3>1. Ok(c, app[c], conn[c], peer[c], j, inbound, cmds, "data")
      BY <1>1, <1>2, <2>1, <2>3, DataOfOther
    <3> QED  BY <2>1, <2>3, <3>1
  <2> QED  BY <2>2, <2>3
<1> HIDE DEF f, e, j
<1>6. Typed'
  BY <1>1, <1>3, <1>5 DEF Inv, Typed
<1>7. AskedOnce'
  BY <1>1 DEF Inv, AskedOnce
<1>8. ASSUME NEW c \in Conns
      PROVE  Ok(c, app'[c], conn'[c], peer'[c], dataIn', inbound', cmds', stack')
  <2>1. conn'[c] = f(c)
    BY <1>1
  <2> QED  BY <1>1, <1>5, <2>1
<1> QED  BY <1>6, <1>7, <1>8 DEF Inv

\* The task ends: its channels and its connections are gone.
LEMMA EndStep ==
  ASSUME Inv, End
  PROVE  Inv'
<1> DEFINE f(c) == [NoConn EXCEPT !.toApp = conn[c].toApp]
           g(c) == IF app[c].is = "asking" THEN [app[c] EXCEPT !.is = "refused"] ELSE app[c]
<1>1. /\ conn' = [c \in Conns |-> f(c)] /\ app' = [c \in Conns |-> g(c)] /\ peer' = peer
      /\ inbound' = << >> /\ cmds' = << >> /\ dataIn' = << >> /\ stack' = "ended"
  BY DEF End
<1>2. /\ \A c : ~Mine(<< >>, c) /\ ~Has(<< >>, c)
      /\ \A c : Queued(<< >>, c) = 0 /\ Coming(<< >>, c) = 0 /\ Acks(<< >>, c) = 0
  <2>1. << >> \in Seq(Packets) /\ Len(<< >>) = 0
    OBVIOUS
  <2>2. \A c : ~Mine(<< >>, c) /\ ~Has(<< >>, c)
    BY <2>1 DEF Mine, Has
  <2>3. \A c : Count(<< >>, c) = 0
    BY <2>1, <2>2, CountHas
  <2> QED  BY <2>2, <2>3 DEF Queued, Coming, Acks
<1>3. ASSUME NEW c \in Conns
      PROVE  /\ f(c) \in Sockets /\ g(c) \in Apps
             /\ Ok(c, g(c), f(c), peer[c], << >>, << >>, << >>, "ended")
  <2> DEFINE a == app[c]
             s == conn[c]
             p == peer[c]
             t == f(c)
             b == g(c)
  <2>1. a \in Apps /\ s \in Sockets /\ p \in Ends /\ Ok(c, a, s, p, dataIn, inbound, cmds, stack)
    BY Parts
  <2>2. /\ t \in Sockets /\ t.st = "none" /\ t.half = FALSE /\ t.established = FALSE
        /\ t.pending = 0 /\ t.tx = 0 /\ t.rx = 0
        /\ s = NoConn => t = NoConn
    <3>1. s.toApp \in Seq(1 .. MaxDown)
      BY <2>1 DEF Sockets
    <3>2. 0 \in 0 .. MaxDown /\ 0 \in 0 .. TxBuffer
      BY ConstantsAssumption
    <3>3. t = [st |-> "none", established |-> FALSE, half |-> FALSE, pending |-> 0,
               tx |-> 0, rx |-> 0, toApp |-> s.toApp, slow |-> FALSE]
      <4>1. t = [NoConn EXCEPT !.toApp = s.toApp]
        OBVIOUS
      <4> HIDE DEF t, s
      <4> QED  BY <4>1 DEF NoConn
    <3> HIDE DEF t
    <3>4. /\ t \in Sockets /\ t.st = "none" /\ t.half = FALSE /\ t.established = FALSE
          /\ t.pending = 0 /\ t.tx = 0 /\ t.rx = 0
      BY <3>1, <3>2, <3>3 DEF Sockets, States
    <3>5. s = NoConn => t = NoConn
      BY <3>3 DEF NoConn
    <3> QED  BY <3>4, <3>5
  <2>3. /\ b \in Apps /\ b.wrote = a.wrote /\ b.shut = a.shut /\ b.read = a.read /\ b.eof = a.eof
        /\ b.is = IF a.is = "asking" THEN "refused" ELSE a.is
    BY <2>1 DEF Apps
  <2> HIDE DEF a, s, p, t, b
  <2>4. Born(c, b, t, p, << >>, << >>, << >>)
    BY <1>2, <2>1, <2>2, <2>3 DEF Ok, Born
  <2>5. Said(c, b, t, << >>)
    BY <2>2 DEF Said
  <2>6. Agreed(c, b, t, p, << >>)
    BY <1>2, <2>2 DEF Agreed, Over
  <2>7. Upload(c, b, t, p, << >>, << >>)
    <3>1. Live(b) => Live(a)
      BY <2>3 DEF Live
    <3> QED  BY <1>2, <2>1, <2>2, <2>3, <3>1 DEF Ok, Upload
  <2>8. Download(c, b, t, p, << >>, << >>, "ended")
    <3>1. 0 + 0 <= p.sent
      BY <2>1, ConstantsAssumption DEF Ends
    <3>2. b.eof => b.is \in {"open", "gone"}
      BY <2>1, <2>3 DEF Ok, Download
    <3> QED  BY <1>2, <2>2, <3>1, <3>2 DEF Download
  <2>9. Ok(c, b, t, p, << >>, << >>, << >>, "ended")
    BY <2>4, <2>5, <2>6, <2>7, <2>8 DEF Ok
  <2> QED  BY <2>2, <2>3, <2>9 DEF t, b, p
<1> HIDE DEF f, g
<1>4. Typed'
  <2>1. << >> \in Seq(Packets) /\ << >> \in Seq(Conns) /\ << >> \in Seq(Messages)
    OBVIOUS
  <2> QED  BY <1>1, <1>3, <2>1 DEF Inv, Typed
<1>5. AskedOnce'
  BY <1>1 DEF AskedOnce
<1>6. ASSUME NEW c \in Conns
      PROVE  Ok(c, app'[c], conn'[c], peer'[c], dataIn', inbound', cmds', stack')
  <2>1. conn'[c] = f(c) /\ app'[c] = g(c)
    BY <1>1
  <2> QED  BY <1>1, <1>3, <2>1
<1> QED  BY <1>4, <1>5, <1>6 DEF Inv

\* A command for c is handled: a socket that sends its SYN, or a refusal.
LEMMA CommandOk ==
  ASSUME NEW c, NEW a \in Apps, NEW p \in Ends, NEW q \in Seq(Messages), NEW i \in Seq(Packets),
         NEW m, NEW n, NEW k, NEW s,
         Ok(c, a, s, p, q, i, m, k), Has(m, c), ~Has(n, c), NEW b, NEW t,
         \/ b = a /\ t = [NoConn EXCEPT !.st = "SynSent"]
         \/ b = [a EXCEPT !.is = IF @ = "asking" THEN "refused" ELSE @] /\ t = s
  PROVE  b \in Apps /\ t \in Sockets /\ Ok(c, b, t, p, q, i, n, k)
<1>1. /\ s = NoConn /\ p = NewEnd /\ ~Mine(i, c) /\ a.read = 0 /\ ~a.eof
      /\ a.is \in {"asking", "gone"}
      /\ a.is = "asking" => a.wrote = 0 /\ ~a.shut /\ ~Mine(q, c)
  BY DEF Ok, Born
<1>2. /\ t \in Sockets /\ t.st \in {"none", "SynSent"} /\ t.established = FALSE /\ t.half = FALSE
      /\ t.pending = 0 /\ t.tx = 0 /\ t.rx = 0 /\ t.toApp = << >> /\ t.slow = FALSE
      /\ t.st = "SynSent" => b = a
      /\ t.st = "none" => b = [a EXCEPT !.is = IF @ = "asking" THEN "refused" ELSE @]
  <2>1. << >> \in Seq(1 .. MaxDown)
    OBVIOUS
  <2>2. 0 \in 0 .. MaxDown /\ 0 \in 0 .. TxBuffer
    BY ConstantsAssumption
  <2>3. CASE b = a /\ t = [NoConn EXCEPT !.st = "SynSent"]
    BY <2>1, <2>2, <2>3 DEF NoConn, Sockets, States
  <2>4. CASE b = [a EXCEPT !.is = IF @ = "asking" THEN "refused" ELSE @] /\ t = s
    BY <1>1, <2>1, <2>2, <2>4 DEF NoConn, Sockets, States
  <2> QED  BY <2>3, <2>4
<1>3. /\ b \in Apps /\ b.wrote = a.wrote /\ b.shut = a.shut /\ b.read = 0 /\ ~b.eof
      /\ b.is \in {"asking", "gone", "refused"}
      /\ b.is = "asking" => a.is = "asking" /\ t.st = "SynSent"
      /\ Live(b) => b.is = "asking"
  BY <1>1, <1>2 DEF Apps, Live
<1>4. p.sent = 0 /\ p.got = 0 /\ p.gotFin = FALSE /\ p.fin = FALSE /\ p.rst = FALSE
  BY <1>1 DEF NewEnd
<1>5. /\ Coming(i, c) = 0 /\ Acks(i, c) = 0 /\ \A kind : ~Has(i, Msg(c, kind))
  <2>1. \A kind : ~Has(i, Msg(c, kind))
    BY <1>1 DEF Has, Mine, Msg
  <2> QED  BY <2>1, CountHas DEF Coming, Acks
<1>6. b.is = "asking" => Queued(q, c) = 0
  <2>1. b.is = "asking" => ~Has(q, Msg(c, "data"))
    BY <1>1, <1>3 DEF Has, Mine, Msg
  <2> QED  BY <2>1, CountHas DEF Queued
<1>7. Born(c, b, t, p, q, i, n)
  BY <1>1, <1>2, <1>3 DEF Born
<1>8. Said(c, b, t, q)
  BY <1>2, <1>3 DEF Ok, Said
<1>9. Agreed(c, b, t, p, i)
  BY <1>2, <1>3, <1>4, <1>5 DEF Agreed, Over
<1>10. Upload(c, b, t, p, q, i)
  BY <1>1, <1>2, <1>3, <1>4, <1>5, <1>6 DEF Upload
<1>11. Download(c, b, t, p, i, n, k)
  <2>1. Bytes(t.toApp) = 0
    <3>1. t.toApp \in Seq(1 .. MaxDown) /\ MaxDown \in Nat /\ t.toApp = << >>
      BY <1>2, ConstantsAssumption DEF Sockets
    <3> QED  BY <3>1, BytesType
  <2>2. \A x, y \in 1 .. Len(i) : i[x] = Msg(c, "fin") /\ x < y => i[y] # Msg(c, "data")
    BY DEF Ok, Download
  <2>3. ~Finished(b, t)
    BY <1>2, <1>3 DEF Finished, Over
  <2> QED  BY <1>2, <1>3, <1>4, <1>5, <2>1, <2>2, <2>3 DEF Download
<1> QED  BY <1>2, <1>3, <1>7, <1>8, <1>9, <1>10, <1>11 DEF Ok

\* The commands of others do not matter.
LEMMA OthersCommand ==
  ASSUME NEW c, NEW a, NEW s, NEW p, NEW q, NEW i, NEW m, NEW n, NEW k,
         Ok(c, a, s, p, q, i, m, k), Has(n, c) <=> Has(m, c)
  PROVE  Ok(c, a, s, p, q, i, n, k)
  BY DEF Ok, Born, Download

\* A step of one connection.
LEMMA OneStep ==
  ASSUME Inv, NEW c \in Conns, NEW b \in Apps, NEW t \in Sockets, NEW e \in Ends,
         app' = [app EXCEPT ![c] = b], conn' = [conn EXCEPT ![c] = t], peer' = [peer EXCEPT ![c] = e],
         dataIn' \in Seq(Messages), inbound' \in Seq(Packets), cmds' \in Seq(Conns), AskedOnce',
         Ok(c, b, t, e, dataIn', inbound', cmds', stack'),
         \A d \in Conns : d # c => Ok(d, app[d], conn[d], peer[d], dataIn', inbound', cmds', stack')
  PROVE  Inv'
<1>1. app \in [Conns -> Apps] /\ conn \in [Conns -> Sockets] /\ peer \in [Conns -> Ends]
  BY DEF Inv, Typed
<1>2. Typed'
  BY <1>1 DEF Typed
<1>3. ASSUME NEW d \in Conns
      PROVE  Ok(d, app'[d], conn'[d], peer'[d], dataIn', inbound', cmds', stack')
  <2>1. CASE d = c
    <3>1. app'[d] = b /\ conn'[d] = t /\ peer'[d] = e
      BY <1>1, <2>1
    <3> QED  BY <2>1, <3>1
  <2>2. CASE d # c
    <3>1. app'[d] = app[d] /\ conn'[d] = conn[d] /\ peer'[d] = peer[d]
      BY <1>1, <2>2
    <3> QED  BY <2>2, <3>1
  <2> QED  BY <2>1, <2>2
<1> QED  BY <1>2, <1>3 DEF Inv

\* Nothing changes for a connection that a step does not touch.
LEMMA Untouched ==
  ASSUME Inv, NEW c \in Conns
  PROVE  /\ app = [app EXCEPT ![c] = app[c]] /\ conn = [conn EXCEPT ![c] = conn[c]]
         /\ peer = [peer EXCEPT ![c] = peer[c]]
  BY DEF Inv, Typed

\* The next command is handled.
LEMMA CommandStep ==
  ASSUME Inv, Command
  PROVE  Inv'
<1> DEFINE c == Head(cmds)
           n == Tail(cmds)
           a == app[c]
           s == conn[c]
<1>1. /\ cmds # << >> /\ stack # "ended" /\ stack' = "turn" /\ cmds' = n
      /\ peer' = peer /\ dataIn' = dataIn /\ inbound' = inbound
  BY DEF Command, InboundIdle
<1>2. /\ cmds \in Seq(Conns) /\ dataIn \in Seq(Messages) /\ inbound \in Seq(Packets)
      /\ app \in [Conns -> Apps] /\ conn \in [Conns -> Sockets] /\ AskedOnce
  BY DEF Inv, Typed
<1>3. /\ Len(cmds) \in Nat \ {0} /\ c = cmds[1] /\ c \in Conns /\ n \in Seq(Conns)
      /\ Len(n) = Len(cmds) - 1
      /\ \A x \in 1 .. Len(cmds) - 1 : n[x] = cmds[x + 1] /\ x + 1 \in 1 .. Len(cmds)
  BY <1>1, <1>2
<1>4. Has(cmds, c) /\ ~Has(n, c)
  BY <1>2, <1>3 DEF Has, AskedOnce
<1>5. ASSUME NEW d \in Conns, d # c PROVE Has(n, d) <=> Has(cmds, d)
  <2>1. ASSUME NEW x \in 1 .. Len(cmds), cmds[x] = d PROVE x - 1 \in 1 .. Len(n) /\ n[x - 1] = d
    <3>1. x # 1
      BY <1>3, <1>5, <2>1
    <3>2. x - 1 \in 1 .. Len(cmds) - 1 /\ (x - 1) + 1 = x
      BY <1>3, <3>1
    <3> QED  BY <1>3, <2>1, <3>2
  <2> QED  BY <1>3, <2>1 DEF Has
<1>6. AskedOnce'
  <2>1. ASSUME NEW x \in 1 .. Len(n), NEW y \in 1 .. Len(n), n[x] = n[y] PROVE x = y
    <3>1. x + 1 \in 1 .. Len(cmds) /\ y + 1 \in 1 .. Len(cmds) /\ cmds[x + 1] = cmds[y + 1]
      BY <1>3, <2>1
    <3>2. x + 1 = y + 1
      BY <1>2, <3>1 DEF AskedOnce
    <3> QED  BY <1>3, <3>2
  <2> QED  BY <1>1, <2>1 DEF AskedOnce
<1>7. /\ a \in Apps /\ s \in Sockets /\ peer[c] \in Ends
      /\ Ok(c, a, s, peer[c], dataIn, inbound, cmds, "turn")
  BY <1>1, <1>3, Parts, TaskOk
<1>8. PICK b, t : /\ app' = [app EXCEPT ![c] = b] /\ conn' = [conn EXCEPT ![c] = t]
                  /\ \/ b = a /\ t = [NoConn EXCEPT !.st = "SynSent"]
                     \/ b = [a EXCEPT !.is = IF @ = "asking" THEN "refused" ELSE @] /\ t = s
  <2>1. CASE conn' = [conn EXCEPT ![c] = [NoConn EXCEPT !.st = "SynSent"]] /\ app' = app
    <3>1. app' = [app EXCEPT ![c] = a]
      BY <1>2, <1>3, <2>1
    <3> QED  BY <2>1, <3>1
  <2>2. CASE /\ app' = [app EXCEPT ![c].is = IF @ = "asking" THEN "refused" ELSE @]
             /\ conn' = conn
    <3>1. app' = [app EXCEPT ![c] = [a EXCEPT !.is = IF @ = "asking" THEN "refused" ELSE @]]
      BY <2>2
    <3>2. conn' = [conn EXCEPT ![c] = s]
      BY <1>2, <1>3, <2>2
    <3> QED  BY <3>1, <3>2
  <2> QED  BY <2>1, <2>2 DEF Command
<1>9. peer' = [peer EXCEPT ![c] = peer[c]]
  BY <1>1, <1>3, Untouched
<1> HIDE DEF c, n, a, s
<1>10. b \in Apps /\ t \in Sockets /\ Ok(c, b, t, peer[c], dataIn, inbound, n, "turn")
  BY <1>2, <1>4, <1>7, <1>8, CommandOk
<1>11. ASSUME NEW d \in Conns, d # c
       PROVE  Ok(d, app[d], conn[d], peer[d], dataIn, inbound, n, "turn")
  <2>1. Ok(d, app[d], conn[d], peer[d], dataIn, inbound, cmds, "turn")
    BY <1>1, Parts, TaskOk
  <2> QED  BY <1>5, <1>11, <2>1, OthersCommand
<1> QED  BY <1>1, <1>2, <1>3, <1>6, <1>7, <1>8, <1>9, <1>10, <1>11, OneStep

\* A step that leaves the channels, the connections and their ends alone.
LEMMA IdleStep ==
  ASSUME Inv, stack # "ended" \/ stack' = "ended", UNCHANGED <<channels, app, conn, peer>>
  PROVE  Inv'
<1>1. /\ app' = app /\ conn' = conn /\ peer' = peer /\ dataIn' = dataIn /\ inbound' = inbound
      /\ cmds' = cmds
  BY DEF channels
<1>2. ASSUME NEW c \in Conns
      PROVE  Ok(c, app[c], conn[c], peer[c], dataIn, inbound, cmds, stack')
  <2>1. Ok(c, app[c], conn[c], peer[c], dataIn, inbound, cmds, stack)
    BY Parts
  <2> QED  BY <2>1, TaskOk
<1> QED  BY <1>1, <1>2 DEF Inv, Typed, AskedOnce

-----------------------------------------------------------------------------
(* The applications.                                                       *)

\* open_tcp: the command is on its way, or the task has ended.
LEMMA AskOk ==
  ASSUME NEW c, NEW a \in Apps, NEW s, NEW p, NEW q, NEW i, NEW m, NEW n, NEW k, NEW b,
         Ok(c, a, s, p, q, i, m, k), a.is = "none",
         NEW is \in {"asking", "refused"}, b = [a EXCEPT !.is = is], is = "asking" <=> Has(n, c)
  PROVE  b \in Apps /\ Ok(c, b, s, p, q, i, n, k)
<1>1. /\ b \in Apps /\ b.wrote = a.wrote /\ b.shut = a.shut /\ b.read = a.read /\ b.eof = a.eof
      /\ b.is = is
  BY DEF Apps
<1>2. s = NoConn /\ ~a.eof /\ (Live(b) => Live(a)) /\ Live(a)
  BY <1>1 DEF Ok, Born, Live
<1>3. Born(c, b, s, p, q, i, n)
  BY <1>1, <1>2 DEF Ok, Born, NoConn
<1>4. Said(c, b, s, q) /\ Agreed(c, b, s, p, i)
  BY <1>1, <1>2 DEF Ok, Said, Agreed
<1>5. Upload(c, b, s, p, q, i)
  BY <1>1, <1>2 DEF Ok, Upload
<1>6. ~Finished(b, s)
  BY <1>1, <1>2 DEF Finished, NoConn, Over
<1>7. Download(c, b, s, p, i, n, k)
  BY <1>1, <1>2, <1>6 DEF Ok, Download
<1> QED  BY <1>1, <1>3, <1>4, <1>5, <1>7 DEF Ok

\* An application that goes away leaves what it has not read.
LEMMA GoneOk ==
  ASSUME NEW c, NEW a \in Apps, NEW s \in Sockets, NEW p, NEW q, NEW i, NEW m, NEW k, NEW b, NEW t,
         Ok(c, a, s, p, q, i, m, k), b = [a EXCEPT !.is = "gone"],
         a.is \in {"asking", "open"}, a.is = "open" \/ t = s,
         t.st = s.st, t.established = s.established, t.half = s.half,
         t.pending = s.pending, t.tx = s.tx, t.rx = s.rx, t.slow = s.slow
  PROVE  b \in Apps /\ Ok(c, b, t, p, q, i, m, k)
<1>1. /\ b \in Apps /\ b.wrote = a.wrote /\ b.shut = a.shut /\ b.read = a.read /\ b.eof = a.eof
      /\ b.is = "gone" /\ ~Live(b)
  BY DEF Apps, Live
<1>3. Born(c, b, t, p, q, i, m)
  BY <1>1 DEF Ok, Born
<1>4. Said(c, b, t, q) /\ Agreed(c, b, t, p, i)
  BY <1>1 DEF Ok, Said, Agreed
<1>5. Upload(c, b, t, p, q, i)
  BY <1>1 DEF Ok, Upload
<1>6. Download(c, b, t, p, i, m, k)
  BY <1>1 DEF Ok, Download
<1> QED  BY <1>1, <1>3, <1>4, <1>5, <1>6 DEF Ok

Balanced(c, a, s, p, q, i) ==
    a.wrote + Acks(i, c) = Queued(q, c) + s.pending + s.tx + p.got

\* What is written is queued.
LEMMA StillBalanced ==
  ASSUME NEW c, NEW a, NEW b, NEW s, NEW p, NEW q, NEW r, NEW i, NEW d \in Nat,
         a.wrote \in Nat, s.pending \in Nat, s.tx \in Nat, p.got \in Nat,
         Queued(q, c) \in Nat, Acks(i, c) \in Nat,
         b.wrote = a.wrote + d, Queued(r, c) = Queued(q, c) + d,
         Balanced(c, a, s, p, q, i)
  PROVE  Balanced(c, b, s, p, r, i)
  BY DEF Balanced

\* An application writes a byte, or closes its half.
LEMMA TellOk ==
  ASSUME NEW c \in Conns, NEW a \in Apps, NEW s \in Sockets, NEW p \in Ends, NEW q \in Seq(Messages),
         NEW i, NEW m, NEW k, NEW b \in Apps, NEW kind \in {"data", "close"}, Acks(i, c) \in Nat,
         Ok(c, a, s, p, q, i, m, k), a.is = "open", ~a.shut,
         b.is = "open", b.read = a.read, b.eof = a.eof,
         b.wrote = a.wrote + (IF kind = "data" THEN 1 ELSE 0), b.shut <=> kind = "close"
  PROVE  /\ Append(q, Msg(c, kind)) \in Seq(Messages)
         /\ Ok(c, b, s, p, Append(q, Msg(c, kind)), i, m, k)
<1> DEFINE e == Msg(c, kind)
           r == Append(q, e)
<1>1. e \in Messages /\ e.of = c /\ e.kind = kind /\ (e = Msg(c, "data") <=> kind = "data")
      /\ (e = Msg(c, "close") <=> kind = "close")
  BY DEF Messages, Msg
<1> HIDE DEF e
<1>2. /\ r \in Seq(Messages) /\ Len(r) = Len(q) + 1 /\ Len(q) \in Nat /\ r[Len(q) + 1] = e
      /\ \A x \in 1 .. Len(q) : r[x] = q[x]
  BY <1>1
<1>3. Queued(r, c) = Queued(q, c) + (IF kind = "data" THEN 1 ELSE 0) /\ Queued(q, c) \in Nat
  <2>1. Queued(r, c) = Queued(q, c) + (IF e = Msg(c, "data") THEN 1 ELSE 0)
    BY <1>1, CountAppend DEF Queued
  <2>2. Queued(q, c) \in Nat
    BY CountsType
  <2> QED  BY <1>1, <2>1, <2>2
<1>4. ~s.half /\ \A x \in 1 .. Len(q) : q[x] # Msg(c, "close")
  <2>1. ~s.half
    BY DEF Ok, Said
  <2>2. ASSUME NEW x \in 1 .. Len(q), q[x] = Msg(c, "close") PROVE FALSE
    <3>1. q[x].of = c
      BY <2>2 DEF Msg
    <3> QED  BY <2>2, <3>1 DEF Ok, Said
  <2> QED  BY <2>1, <2>2
<1>5. Said(c, b, s, r)
  <2>1. ASSUME NEW x \in 1 .. Len(r), NEW y \in 1 .. Len(r), r[x] = Msg(c, "close")
        PROVE  b.shut /\ y <= x
    <3>1. x = Len(q) + 1
      BY <1>2, <1>4, <2>1
    <3>2. kind = "close"
      BY <1>1, <1>2, <2>1, <3>1
    <3> QED  BY <1>2, <3>1, <3>2
  <2> QED  BY <1>4, <2>1 DEF Said
<1> HIDE DEF r
<1>6. Born(c, b, s, p, r, i, m)
  BY DEF Ok, Born
<1>7. Agreed(c, b, s, p, i)
  BY DEF Ok, Agreed
<1>8. Live(a) /\ Live(b)
  BY DEF Live
<1>9. Upload(c, b, s, p, r, i)
  <2>1. a.wrote \in Nat /\ s.pending \in Nat /\ s.tx \in Nat /\ p.got \in Nat
    BY ConstantsAssumption DEF Apps, Sockets, Ends
  <2>2. ASSUME s.st # "none" PROVE b.wrote + Acks(i, c) = Queued(r, c) + s.pending + s.tx + p.got
    <3>1. Balanced(c, a, s, p, q, i)
      BY <1>8, <2>2 DEF Ok, Upload, Balanced
    <3>2. PICK d \in Nat : b.wrote = a.wrote + d /\ Queued(r, c) = Queued(q, c) + d
      BY <1>3
    <3>3. Balanced(c, b, s, p, r, i)
      BY <1>3, <2>1, <3>1, <3>2, StillBalanced
    <3> QED  BY <3>3 DEF Balanced
  <2>3. ~p.fin => s.st # "FinWait1" /\ ~p.gotFin
    BY <1>4, <1>8 DEF Ok, Upload
  <2>4. s.st # "none" => Acks(i, c) <= s.tx
    BY DEF Ok, Upload
  <2> QED  BY <2>2, <2>3, <2>4 DEF Upload
<1>10. Finished(b, s) <=> Finished(a, s)
  BY DEF Finished
<1>11. Download(c, b, s, p, i, m, k)
  BY <1>8, <1>10 DEF Ok, Download
<1> QED  BY <1>2, <1>5, <1>6, <1>7, <1>9, <1>11 DEF Ok, r, e

\* An application reads a chunk.
LEMMA ReadOk ==
  ASSUME NEW c, NEW a \in Apps, NEW s \in Sockets, NEW p \in Ends, NEW q, NEW i, NEW m, NEW k,
         Coming(i, c) \in Nat,
         Ok(c, a, s, p, q, i, m, k), a.is = "open", ~a.eof, s.toApp # << >>
  PROVE  LET b == [a EXCEPT !.read = a.read + Head(s.toApp)]
             t == [s EXCEPT !.toApp = Tail(s.toApp)] IN
         b \in Apps /\ t \in Sockets /\ Ok(c, b, t, p, q, i, m, k)
<1> DEFINE b == [a EXCEPT !.read = a.read + Head(s.toApp)]
           t == [s EXCEPT !.toApp = Tail(s.toApp)]
<1>0. MaxDown \in Nat
  BY ConstantsAssumption
<1>1. s.toApp \in Seq(1 .. MaxDown) /\ a.read \in Nat /\ s.rx \in Nat
  BY <1>0 DEF Sockets, Apps
<1>2. Tail(s.toApp) \in Seq(1 .. MaxDown) /\ Head(s.toApp) \in Nat
  <2>1. Tail(s.toApp) \in Seq(1 .. MaxDown) /\ Head(s.toApp) \in 1 .. MaxDown
    BY <1>1, HeadTailProperties
  <2> QED  BY <1>0, <2>1
<1>3. PICK f \in Seq(1 .. MaxDown), h \in Nat : f = Tail(s.toApp) /\ h = Head(s.toApp)
  BY <1>2
<1>4. Bytes(s.toApp) = Bytes(f) + h /\ Bytes(f) \in Nat
  <2>1. Bytes(s.toApp) = Bytes(Tail(s.toApp)) + Head(s.toApp)
    BY <1>0, <1>1, BytesTail
  <2>2. Bytes(f) \in Nat
    BY <1>0, BytesType
  <2> QED  BY <1>3, <2>1, <2>2
<1>5. b = [a EXCEPT !.read = a.read + h] /\ t = [s EXCEPT !.toApp = f]
  BY <1>3
<1> HIDE DEF b, t
<1>6. /\ b \in Apps /\ b.is = "open" /\ b.wrote = a.wrote /\ b.shut = a.shut /\ b.eof = a.eof
      /\ b.read = a.read + h
  BY <1>1, <1>5 DEF Apps
<1>7. /\ t \in Sockets /\ t.st = s.st /\ t.established = s.established /\ t.half = s.half
      /\ t.pending = s.pending /\ t.tx = s.tx /\ t.rx = s.rx /\ t.slow = s.slow /\ t.toApp = f
  BY <1>5 DEF Sockets
<1>8. Live(a) /\ Live(b) /\ (Finished(b, t) <=> Finished(a, s))
  BY <1>6, <1>7 DEF Live, Finished
<1>9. Born(c, b, t, p, q, i, m)
  BY <1>6 DEF Ok, Born
<1>10. Said(c, b, t, q) /\ Agreed(c, b, t, p, i)
  BY <1>6, <1>7 DEF Ok, Said, Agreed
<1>11. Upload(c, b, t, p, q, i)
  BY <1>6, <1>7, <1>8 DEF Ok, Upload
<1>12. Coming(i, c) + t.rx + Bytes(t.toApp) + b.read = Coming(i, c) + s.rx + Bytes(s.toApp) + a.read
  BY <1>1, <1>4, <1>6, <1>7
<1>13. Download(c, b, t, p, i, m, k)
  BY <1>6, <1>7, <1>8, <1>12 DEF Ok, Download
<1> QED  BY <1>6, <1>7, <1>9, <1>10, <1>11, <1>13 DEF Ok, b, t

\* An application reads the end.
LEMMA EndOfFileOk ==
  ASSUME NEW c, NEW a \in Apps, NEW s \in Sockets, NEW p \in Ends, NEW q, NEW i, NEW m, NEW k,
         Ok(c, a, s, p, q, i, m, k), a.is = "open", s.toApp = << >>, s.st = "none"
  PROVE  LET b == [a EXCEPT !.eof = TRUE] IN b \in Apps /\ Ok(c, b, s, p, q, i, m, k)
<1> DEFINE b == [a EXCEPT !.eof = TRUE]
<1>1. /\ b \in Apps /\ b.is = "open" /\ b.wrote = a.wrote /\ b.shut = a.shut /\ b.read = a.read
      /\ b.eof = TRUE /\ a.read \in Nat
  BY DEF Apps
<1> HIDE DEF b
<1>2. Bytes(s.toApp) = 0
  <2>1. s.toApp \in Seq(1 .. MaxDown) /\ MaxDown \in Nat
    BY ConstantsAssumption DEF Sockets
  <2> QED  BY <2>1, BytesType
<1>3. Live(a) /\ Live(b) /\ Finished(a, s) /\ ~Has(m, c)
  BY <1>1 DEF Ok, Born, Live, Finished
<1>4. ~p.rst /\ k # "ended" /\ ~s.slow => a.read = p.sent
  <2>1. s.rx = 0
    BY DEF Ok, Download
  <2>2. ASSUME ~p.rst, k # "ended", ~s.slow PROVE a.read = p.sent
    <3>1. Coming(i, c) = 0
      BY <1>3, <2>2 DEF Ok, Download
    <3>2. p.sent = Coming(i, c) + s.rx + Bytes(s.toApp) + a.read
      BY <1>3, <2>2 DEF Ok, Download
    <3> QED  BY <1>1, <1>2, <2>1, <3>1, <3>2
  <2> QED  BY <2>2
<1>5. Born(c, b, s, p, q, i, m)
  BY <1>1, <1>3 DEF Born
<1>6. Said(c, b, s, q) /\ Agreed(c, b, s, p, i)
  BY <1>1 DEF Ok, Said, Agreed
<1>7. Upload(c, b, s, p, q, i)
  BY <1>1, <1>3 DEF Ok, Upload
<1>8. Download(c, b, s, p, i, m, k)
  BY <1>1, <1>3, <1>4 DEF Ok, Download
<1> QED  BY <1>1, <1>5, <1>6, <1>7, <1>8 DEF Ok, b

\* open_tcp.
LEMMA AskStep ==
  ASSUME Inv, NEW c \in Conns, Ask(c)
  PROVE  Inv'
<1>1. /\ app[c].is = "none" /\ stack' = stack /\ inbound' = inbound /\ dataIn' = dataIn
      /\ conn' = conn /\ peer' = peer
  BY DEF Ask
<1>2. /\ cmds \in Seq(Conns) /\ dataIn \in Seq(Messages) /\ inbound \in Seq(Packets) /\ AskedOnce
      /\ app \in [Conns -> Apps]
  BY DEF Inv, Typed
<1>3. /\ app[c] \in Apps /\ conn[c] \in Sockets /\ peer[c] \in Ends
      /\ Ok(c, app[c], conn[c], peer[c], dataIn, inbound, cmds, stack)
  BY Parts
<1>4. ~Has(cmds, c)
  BY <1>1, <1>3 DEF Ok, Born
<1>5. conn' = [conn EXCEPT ![c] = conn[c]] /\ peer' = [peer EXCEPT ![c] = peer[c]]
  BY <1>1, Untouched
<1>6. CASE stack = "ended"
  <2> DEFINE b == [app[c] EXCEPT !.is = "refused"]
  <2>1. app' = [app EXCEPT ![c] = b] /\ cmds' = cmds
    BY <1>6 DEF Ask
  <2>a. b = [app[c] EXCEPT !.is = "refused"]
    OBVIOUS
  <2> HIDE DEF b
  <2>2. b \in Apps /\ Ok(c, b, conn[c], peer[c], dataIn, inbound, cmds, stack)
    BY <1>1, <1>3, <1>4, <2>a, AskOk
  <2>3. AskedOnce'
    BY <1>2, <2>1 DEF AskedOnce
  <2>4. \A d \in Conns : d # c => Ok(d, app[d], conn[d], peer[d], dataIn, inbound, cmds, stack)
    BY Parts
  <2>5. dataIn' \in Seq(Messages) /\ inbound' \in Seq(Packets) /\ cmds' \in Seq(Conns)
    BY <1>1, <1>2, <2>1
  <2>6. Ok(c, b, conn[c], peer[c], dataIn', inbound', cmds', stack')
    BY <1>1, <2>1, <2>2
  <2>7. \A d \in Conns : d # c => Ok(d, app[d], conn[d], peer[d], dataIn', inbound', cmds', stack')
    BY <1>1, <2>1, <2>4
  <2>8. b \in Apps /\ app' = [app EXCEPT ![c] = b]
    BY <2>1, <2>2
  <2> QED  BY <1>3, <1>5, <2>3, <2>5, <2>6, <2>7, <2>8, OneStep
<1>7. CASE stack # "ended"
  <2> DEFINE b == [app[c] EXCEPT !.is = "asking"]
             n == Append(cmds, c)
  <2>1. app' = [app EXCEPT ![c] = b] /\ cmds' = n
    BY <1>7 DEF Ask
  <2>2. /\ n \in Seq(Conns) /\ Len(n) = Len(cmds) + 1 /\ Len(cmds) \in Nat /\ n[Len(cmds) + 1] = c
        /\ \A x \in 1 .. Len(cmds) : n[x] = cmds[x]
    BY <1>2
  <2>3. \A d : Has(n, d) <=> Has(cmds, d) \/ c = d
    BY <1>2, HasAppend
  <2>4. AskedOnce'
    <3>1. ASSUME NEW x \in 1 .. Len(n), NEW y \in 1 .. Len(n), n[x] = n[y] PROVE x = y
      <4>1. CASE x = Len(cmds) + 1
        BY <1>4, <2>2, <3>1, <4>1 DEF Has
      <4>2. CASE y = Len(cmds) + 1
        BY <1>4, <2>2, <3>1, <4>2 DEF Has
      <4>3. CASE x # Len(cmds) + 1 /\ y # Len(cmds) + 1
        <5>1. x \in 1 .. Len(cmds) /\ y \in 1 .. Len(cmds) /\ cmds[x] = cmds[y]
          BY <2>2, <3>1, <4>3
        <5> QED  BY <1>2, <5>1 DEF AskedOnce
      <4> QED  BY <4>1, <4>2, <4>3
    <3> QED  BY <2>1, <3>1 DEF AskedOnce
  <2> HIDE DEF n
  <2>5. b \in Apps /\ Ok(c, b, conn[c], peer[c], dataIn, inbound, n, stack)
    <3>1. b = [app[c] EXCEPT !.is = "asking"]
      OBVIOUS
    <3>2. Has(n, c)
      BY <2>3
    <3> HIDE DEF b
    <3> QED  BY <1>1, <1>3, <3>1, <3>2, AskOk
  <2> HIDE DEF b
  <2>6. ASSUME NEW d \in Conns, d # c PROVE Ok(d, app[d], conn[d], peer[d], dataIn, inbound, n, stack)
    <3>1. Ok(d, app[d], conn[d], peer[d], dataIn, inbound, cmds, stack)
      BY Parts
    <3>2. Has(n, d) <=> Has(cmds, d)
      BY <2>3, <2>6
    <3> QED  BY <3>1, <3>2, OthersCommand
  <2>7. dataIn' \in Seq(Messages) /\ inbound' \in Seq(Packets) /\ cmds' \in Seq(Conns)
    BY <1>1, <1>2, <2>1, <2>2
  <2>8. Ok(c, b, conn[c], peer[c], dataIn', inbound', cmds', stack')
    BY <1>1, <2>1, <2>5
  <2>9. \A d \in Conns : d # c => Ok(d, app[d], conn[d], peer[d], dataIn', inbound', cmds', stack')
    BY <1>1, <2>1, <2>6
  <2>10. b \in Apps /\ app' = [app EXCEPT ![c] = b]
    BY <2>1, <2>5
  <2> QED  BY <1>3, <1>5, <2>4, <2>7, <2>8, <2>9, <2>10, OneStep
<1> QED  BY <1>6, <1>7

\* A step of an application that leaves the channels alone.
LEMMA AppStep ==
  ASSUME Inv, NEW c \in Conns, NEW b \in Apps, NEW t \in Sockets,
         app' = [app EXCEPT ![c] = b], conn' = [conn EXCEPT ![c] = t],
         UNCHANGED <<stack, channels, peer>>,
         Ok(c, b, t, peer[c], dataIn, inbound, cmds, stack)
  PROVE  Inv'
<1>1. stack' = stack /\ inbound' = inbound /\ dataIn' = dataIn /\ cmds' = cmds /\ peer' = peer
  BY DEF channels
<1>2. /\ cmds \in Seq(Conns) /\ dataIn \in Seq(Messages) /\ inbound \in Seq(Packets)
  BY DEF Inv, Typed
<1>3. AskedOnce'
  BY <1>1 DEF Inv, AskedOnce
<1>4. peer' = [peer EXCEPT ![c] = peer[c]] /\ peer[c] \in Ends
  BY <1>1, Untouched, Parts
<1>5. \A d \in Conns : d # c => Ok(d, app[d], conn[d], peer[d], dataIn, inbound, cmds, stack)
  BY Parts
<1>6. dataIn' \in Seq(Messages) /\ inbound' \in Seq(Packets) /\ cmds' \in Seq(Conns)
  BY <1>1, <1>2
<1>7. /\ Ok(c, b, t, peer[c], dataIn', inbound', cmds', stack')
      /\ \A d \in Conns :
           d # c => Ok(d, app[d], conn[d], peer[d], dataIn', inbound', cmds', stack')
  BY <1>1, <1>5
<1> QED  BY <1>3, <1>4, <1>6, <1>7, OneStep

\* Giving up on a connection, and leaving it.
LEMMA GoneStep ==
  ASSUME Inv, NEW c \in Conns, GiveUp(c) \/ Leave(c)
  PROVE  Inv'
<1>1. /\ app[c] \in Apps /\ conn[c] \in Sockets
      /\ Ok(c, app[c], conn[c], peer[c], dataIn, inbound, cmds, stack)
  BY Parts
<1>2. PICK b : b = [app[c] EXCEPT !.is = "gone"]
  OBVIOUS
<1>3. app' = [app EXCEPT ![c] = b] /\ UNCHANGED <<stack, channels, peer>>
  BY <1>2 DEF GiveUp, Leave
<1>4. CASE GiveUp(c)
  <2>1. conn' = conn /\ app[c].is = "asking"
    BY <1>4 DEF GiveUp
  <2>2. conn' = [conn EXCEPT ![c] = conn[c]]
    BY <2>1, Untouched
  <2>3. b \in Apps /\ Ok(c, b, conn[c], peer[c], dataIn, inbound, cmds, stack)
    BY <1>1, <1>2, <2>1, GoneOk
  <2> QED  BY <1>1, <1>3, <2>2, <2>3, AppStep
<1>5. CASE Leave(c)
  <2>1. PICK t : t = [conn[c] EXCEPT !.toApp = << >>]
    OBVIOUS
  <2>2. conn' = [conn EXCEPT ![c] = t] /\ app[c].is = "open"
    BY <1>5, <2>1 DEF Leave
  <2>3. << >> \in Seq(1 .. MaxDown)
    OBVIOUS
  <2>4. /\ t \in Sockets /\ t.st = conn[c].st /\ t.established = conn[c].established
        /\ t.half = conn[c].half /\ t.pending = conn[c].pending /\ t.tx = conn[c].tx
        /\ t.rx = conn[c].rx /\ t.slow = conn[c].slow
    BY <1>1, <2>1, <2>3 DEF Sockets
  <2>5. b \in Apps /\ Ok(c, b, t, peer[c], dataIn, inbound, cmds, stack)
    BY <1>1, <1>2, <2>2, <2>4, GoneOk
  <2> QED  BY <1>3, <2>2, <2>4, <2>5, AppStep
<1> QED  BY <1>4, <1>5

\* from_stack.recv().
LEMMA ReadStep ==
  ASSUME Inv, NEW c \in Conns, Read(c)
  PROVE  Inv'
<1> DEFINE a == app[c]
           s == conn[c]
<1>1. /\ a \in Apps /\ s \in Sockets /\ peer[c] \in Ends /\ Coming(inbound, c) \in Nat
      /\ Ok(c, a, s, peer[c], dataIn, inbound, cmds, stack)
  BY Parts
<1>2. a.is = "open" /\ ~a.eof /\ UNCHANGED <<stack, channels, peer>>
  BY DEF Read
<1>3. CASE s.toApp # << >>
  <2> DEFINE b == [a EXCEPT !.read = a.read + Head(s.toApp)]
             t == [s EXCEPT !.toApp = Tail(s.toApp)]
  <2>1. app' = [app EXCEPT ![c] = b] /\ conn' = [conn EXCEPT ![c] = t]
    BY <1>3 DEF Read
  <2>2. b \in Apps /\ t \in Sockets /\ Ok(c, b, t, peer[c], dataIn, inbound, cmds, stack)
    <3> HIDE DEF a, s
    <3> QED  BY <1>1, <1>2, <1>3, ReadOk
  <2> HIDE DEF b, t
  <2> QED  BY <1>2, <2>1, <2>2, AppStep
<1>4. CASE s.toApp = << >>
  <2> DEFINE b == [a EXCEPT !.eof = TRUE]
  <2>1. app' = [app EXCEPT ![c] = b] /\ conn' = conn /\ s.st = "none"
    BY <1>4 DEF Read
  <2>2. b \in Apps /\ Ok(c, b, s, peer[c], dataIn, inbound, cmds, stack)
    <3> HIDE DEF a, s
    <3> QED  BY <1>1, <1>2, <1>4, <2>1, EndOfFileOk
  <2>3. conn' = [conn EXCEPT ![c] = s]
    BY <2>1, Untouched
  <2> HIDE DEF b, s
  <2> QED  BY <1>1, <1>2, <2>1, <2>2, <2>3, AppStep
<1> QED  BY <1>3, <1>4

\* TcpSender::send and ::close.
LEMMA TellStep ==
  ASSUME Inv, NEW c \in Conns, Write(c) \/ Shut(c)
  PROVE  Inv'
<1> DEFINE a == app[c]
<1>1. /\ a \in Apps /\ conn[c] \in Sockets /\ peer[c] \in Ends /\ Acks(inbound, c) \in Nat
      /\ Ok(c, a, conn[c], peer[c], dataIn, inbound, cmds, stack)
  BY Parts
<1>2. /\ cmds \in Seq(Conns) /\ dataIn \in Seq(Messages) /\ inbound \in Seq(Packets) /\ AskedOnce
      /\ app \in [Conns -> Apps]
  BY DEF Inv, Typed
<1>3. /\ a.is = "open" /\ ~a.shut /\ stack' = stack /\ inbound' = inbound /\ cmds' = cmds
      /\ conn' = conn /\ peer' = peer
  BY DEF Write, Shut, Tell
<1>4. PICK kind \in {"data", "close"}, b \in Apps :
        /\ dataIn' = Append(dataIn, Msg(c, kind)) /\ app' = [app EXCEPT ![c] = b]
        /\ b.is = "open" /\ b.read = a.read /\ b.eof = a.eof
        /\ b.wrote = a.wrote + (IF kind = "data" THEN 1 ELSE 0) /\ (b.shut <=> kind = "close")
  <2>1. CASE Write(c)
    <3> DEFINE b == [a EXCEPT !.wrote = a.wrote + 1]
    <3>1. dataIn' = Append(dataIn, Msg(c, "data")) /\ app' = [app EXCEPT ![c] = b]
      BY <2>1 DEF Write, Tell, Msg
    <3>2. /\ b \in Apps /\ b.is = "open" /\ b.read = a.read /\ b.eof = a.eof
          /\ b.wrote = a.wrote + 1 /\ ~b.shut
      <4> HIDE DEF a
      <4> QED  BY <1>1, <1>3 DEF Apps
    <3> HIDE DEF b, a
    <3> QED  BY <3>1, <3>2
  <2>2. CASE Shut(c)
    <3> DEFINE b == [a EXCEPT !.shut = TRUE]
    <3>1. dataIn' = Append(dataIn, Msg(c, "close")) /\ app' = [app EXCEPT ![c] = b]
      BY <2>2 DEF Shut, Tell, Msg
    <3>2. /\ b \in Apps /\ b.is = "open" /\ b.read = a.read /\ b.eof = a.eof
          /\ b.wrote = a.wrote + 0 /\ b.shut = TRUE
      <4> HIDE DEF a
      <4>1. /\ b \in Apps /\ b.is = "open" /\ b.read = a.read /\ b.eof = a.eof
            /\ b.wrote = a.wrote /\ b.shut = TRUE /\ a.wrote \in Nat
        BY <1>1, <1>3 DEF Apps
      <4>2. a.wrote + 0 = a.wrote
        BY <4>1
      <4> QED  BY <4>1, <4>2
    <3> HIDE DEF b, a
    <3> QED  BY <3>1, <3>2
  <2> QED  BY <2>1, <2>2
<1> HIDE DEF a
<1>5. /\ dataIn' \in Seq(Messages)
      /\ Ok(c, b, conn[c], peer[c], dataIn', inbound, cmds, stack)
  BY <1>1, <1>2, <1>3, <1>4, TellOk
<1>6. ASSUME NEW d \in Conns, d # c
      PROVE  Ok(d, app[d], conn[d], peer[d], dataIn', inbound, cmds, stack)
  <2>1. Ok(d, app[d], conn[d], peer[d], dataIn, inbound, cmds, stack)
    BY Parts
  <2>2. Msg(c, kind) \in Messages /\ Msg(c, kind).of # d
    BY <1>6 DEF Msg, Messages
  <2> QED  BY <1>2, <1>4, <2>1, <2>2, DataForOther
<1>7. conn' = [conn EXCEPT ![c] = conn[c]] /\ peer' = [peer EXCEPT ![c] = peer[c]]
  BY <1>3, Untouched
<1>8. AskedOnce'
  BY <1>2, <1>3 DEF AskedOnce
<1>9. inbound' \in Seq(Packets) /\ cmds' \in Seq(Conns) /\ app' = [app EXCEPT ![c] = b]
  BY <1>2, <1>3, <1>4
<1> QED  BY <1>1, <1>3, <1>5, <1>6, <1>7, <1>8, <1>9, OneStep

-----------------------------------------------------------------------------
(* The peers.                                                              *)

InOrder(c, i) == \A x, y \in 1 .. Len(i) : i[x] = Msg(c, "fin") /\ x < y => i[y] # Msg(c, "data")

\* What c knows of the inbound channel i when a packet of the given kind has been
\* sent to it and made it j.
Added(c, kind, i, j) ==
    /\ \A z : Has(j, Msg(c, z)) <=> Has(i, Msg(c, z)) \/ z = kind
    /\ Coming(i, c) \in Nat /\ Acks(i, c) \in Nat
    /\ Coming(j, c) = Coming(i, c) + (IF kind = "data" THEN 1 ELSE 0)
    /\ Acks(j, c) = Acks(i, c) + (IF kind = "ack" THEN 1 ELSE 0)
    /\ kind = "data" => ~Has(i, Msg(c, "fin"))
    /\ InOrder(c, j)

\* A send to the inbound channel; bytes come before the FIN.
LEMMA PacketAdded ==
  ASSUME NEW c \in Conns, NEW i \in Seq(Packets), InOrder(c, i),
         NEW kind \in {"synack", "rst", "data", "fin", "ack", "finack"},
         kind = "data" => ~Has(i, Msg(c, "fin"))
  PROVE  /\ Append(i, Msg(c, kind)) \in Seq(Packets)
         /\ Added(c, kind, i, Append(i, Msg(c, kind)))
<1> DEFINE e == Msg(c, kind)
           j == Append(i, e)
<1>1. e \in Packets /\ \A z : e = Msg(c, z) <=> z = kind
  BY DEF Packets, Msg
<1> HIDE DEF e
<1>2. /\ j \in Seq(Packets) /\ Len(j) = Len(i) + 1 /\ Len(i) \in Nat /\ j[Len(i) + 1] = e
      /\ \A x \in 1 .. Len(i) : j[x] = i[x]
  BY <1>1
<1>3. \A z : Has(j, Msg(c, z)) <=> Has(i, Msg(c, z)) \/ z = kind
  <2>1. \A z : Has(j, Msg(c, z)) <=> Has(i, Msg(c, z)) \/ e = Msg(c, z)
    BY <1>1, HasAppend
  <2> QED  BY <1>1, <2>1
<1>4. /\ Coming(i, c) \in Nat /\ Acks(i, c) \in Nat
      /\ Coming(j, c) = Coming(i, c) + (IF kind = "data" THEN 1 ELSE 0)
      /\ Acks(j, c) = Acks(i, c) + (IF kind = "ack" THEN 1 ELSE 0)
  <2>1. /\ Coming(j, c) = Coming(i, c) + (IF e = Msg(c, "data") THEN 1 ELSE 0)
        /\ Acks(j, c) = Acks(i, c) + (IF e = Msg(c, "ack") THEN 1 ELSE 0)
    BY <1>1, CountAppend DEF Coming, Acks
  <2>2. Coming(i, c) \in Nat /\ Acks(i, c) \in Nat
    BY CountsType
  <2> QED  BY <1>1, <2>1, <2>2
<1>5. InOrder(c, j)
  <2>1. ASSUME NEW x \in 1 .. Len(j), NEW y \in 1 .. Len(j), j[x] = Msg(c, "fin"), x < y,
               j[y] = Msg(c, "data")
        PROVE  FALSE
    <3>1. x \in 1 .. Len(i) /\ i[x] = Msg(c, "fin")
      BY <1>2, <2>1
    <3>2. CASE y = Len(i) + 1
      <4>1. kind = "data"
        BY <1>1, <1>2, <2>1, <3>2
      <4> QED  BY <3>1, <4>1 DEF Has
    <3>3. CASE y # Len(i) + 1
      <4>1. y \in 1 .. Len(i) /\ i[y] = Msg(c, "data")
        BY <1>2, <2>1, <3>3
      <4> QED  BY <2>1, <3>1, <4>1 DEF InOrder
    <3> QED  BY <3>2, <3>3
  <2> QED  BY <2>1 DEF InOrder
<1> HIDE DEF j
<1> QED  BY <1>2, <1>3, <1>4, <1>5 DEF Added, j, e

\* The answer to the SYN, or a reset.
LEMMA AnswerOk ==
  ASSUME NEW c, NEW a, NEW s, NEW p \in Ends, NEW q, NEW i, NEW j, NEW m, NEW k, NEW kind,
         NEW e \in Ends, Ok(c, a, s, p, q, i, m, k), s.st # "none", Added(c, kind, i, j),
         kind \in {"synack", "rst"}, e.rst <=> p.rst \/ kind = "rst",
         e.got = p.got, e.gotFin = p.gotFin, e.sent = p.sent, e.fin = p.fin
  PROVE  Ok(c, a, s, e, q, j, m, k)
<1>1. ~(a.is = "none" \/ Has(m, c))
  BY DEF Ok, Born, NoConn
<1>2. Coming(j, c) = Coming(i, c) /\ Acks(j, c) = Acks(i, c)
  BY DEF Added
<1>3. Born(c, a, s, e, q, j, m)
  BY <1>1 DEF Ok, Born
<1>4. Said(c, a, s, q)
  BY DEF Ok
<1>5. Agreed(c, a, s, e, j)
  BY DEF Ok, Agreed, Added
<1>6. Upload(c, a, s, e, q, j)
  BY <1>2 DEF Ok, Upload
<1>7. Download(c, a, s, e, j, m, k)
  BY <1>2 DEF Ok, Download, Added, InOrder
<1> QED  BY <1>3, <1>4, <1>5, <1>6, <1>7 DEF Ok

\* The peer sends a byte.
LEMMA SendOk ==
  ASSUME NEW c, NEW a \in Apps, NEW s \in Sockets, NEW p \in Ends, NEW q, NEW i, NEW j, NEW m, NEW k,
         NEW e \in Ends, Ok(c, a, s, p, q, i, m, k), s.st \notin {"none", "SynSent"},
         Added(c, "data", i, j), ~p.fin,
         e.sent = p.sent + 1, e.rst = p.rst, e.got = p.got, e.gotFin = p.gotFin, e.fin = p.fin
  PROVE  Ok(c, a, s, e, q, j, m, k)
<1>1. ~(a.is = "none" \/ Has(m, c)) /\ ~a.eof
  BY DEF Ok, Born, Download, NoConn
<1>2. Coming(j, c) = Coming(i, c) + 1 /\ Acks(j, c) = Acks(i, c) /\ Coming(i, c) \in Nat
  BY DEF Added
<1>3. s.rx \in Nat /\ p.sent \in Nat
  BY ConstantsAssumption DEF Sockets, Ends
<1>4. Born(c, a, s, e, q, j, m)
  BY <1>1 DEF Ok, Born
<1>5. Agreed(c, a, s, e, j)
  BY DEF Ok, Agreed, Added
<1>6. Upload(c, a, s, e, q, j)
  BY <1>2 DEF Ok, Upload
<1>7. Download(c, a, s, e, j, m, k)
  <2>1. s.rx + Coming(j, c) <= e.sent
    <3>1. s.rx + Coming(i, c) <= p.sent
      BY DEF Ok, Download
    <3> QED  BY <1>2, <1>3, <3>1
  <2>2. ~(Live(a) /\ k # "ended" /\ ~p.rst /\ Finished(a, s))
    BY DEF Ok, Download
  <2>3. ASSUME Live(a), k # "ended", ~p.rst, ~s.slow
        PROVE  e.sent = Coming(j, c) + s.rx + Bytes(s.toApp) + a.read
    <3>1. p.sent = Coming(i, c) + s.rx + Bytes(s.toApp) + a.read
      BY <2>3 DEF Ok, Download
    <3>2. Bytes(s.toApp) \in Nat /\ a.read \in Nat
      <4>1. s.toApp \in Seq(1 .. MaxDown) /\ MaxDown \in Nat /\ a.read \in Nat
        BY ConstantsAssumption DEF Sockets, Apps
      <4> QED  BY <4>1, BytesType
    <3> QED  BY <1>2, <1>3, <3>1, <3>2
  <2>4. InOrder(c, j)
    BY DEF Added
  <2> QED  BY <1>1, <2>1, <2>2, <2>3, <2>4 DEF Ok, Download, InOrder
<1> QED  BY <1>4, <1>5, <1>6, <1>7 DEF Ok

\* The peer closes.
LEMMA FinOk ==
  ASSUME NEW c, NEW a, NEW s, NEW p \in Ends, NEW q, NEW i, NEW j, NEW m, NEW k,
         NEW e \in Ends, Ok(c, a, s, p, q, i, m, k), s.st \notin {"none", "SynSent"},
         Added(c, "fin", i, j), ~p.fin, e.fin = TRUE,
         e.sent = p.sent, e.rst = p.rst, e.got = p.got, e.gotFin = p.gotFin
  PROVE  Ok(c, a, s, e, q, j, m, k)
<1>1. ~(a.is = "none" \/ Has(m, c))
  BY DEF Ok, Born, NoConn
<1>2. Coming(j, c) = Coming(i, c) /\ Acks(j, c) = Acks(i, c)
  BY DEF Added
<1>3. Born(c, a, s, e, q, j, m)
  BY <1>1 DEF Ok, Born
<1>4. Agreed(c, a, s, e, j)
  BY DEF Ok, Agreed, Added
<1>5. Upload(c, a, s, e, q, j)
  BY <1>2 DEF Ok, Upload
<1>6. Download(c, a, s, e, j, m, k)
  BY <1>2 DEF Ok, Download, Added, InOrder
<1> QED  BY <1>3, <1>4, <1>5, <1>6 DEF Ok

\* What is acknowledged is taken.
LEMMA AckBalanced ==
  ASSUME NEW c, NEW a, NEW s, NEW p, NEW e, NEW q, NEW i, NEW j,
         a.wrote \in Nat, s.pending \in Nat, s.tx \in Nat, p.got \in Nat, Queued(q, c) \in Nat,
         Acks(i, c) = 0, Acks(j, c) = 1, e.got = p.got + 1,
         Balanced(c, a, s, p, q, i)
  PROVE  Balanced(c, a, s, e, q, j)
  BY DEF Balanced

\* The peer takes a byte, or the FIN behind the last of them.
LEMMA TakeOk ==
  ASSUME NEW c, NEW a \in Apps, NEW s \in Sockets, NEW p \in Ends, NEW q \in Seq(Messages), NEW i, NEW j,
         NEW m, NEW k, NEW kind, NEW e \in Ends,
         Ok(c, a, s, p, q, i, m, k), s.st # "none", Added(c, kind, i, j), ~Has(i, Msg(c, "ack")),
         Acks(i, c) = 0,
         e.sent = p.sent, e.rst = p.rst, e.fin = p.fin,
         \/ kind = "ack" /\ s.tx > 0 /\ e.got = p.got + 1 /\ e.gotFin = p.gotFin
         \/ kind = "finack" /\ FinDue(s) /\ e.got = p.got /\ e.gotFin = TRUE
  PROVE  Ok(c, a, s, e, q, j, m, k)
<1>1. ~(a.is = "none" \/ Has(m, c))
  BY DEF Ok, Born, NoConn
<1>2. Coming(j, c) = Coming(i, c) /\ Acks(j, c) = IF kind = "ack" THEN 1 ELSE 0
  BY DEF Added
<1>3. /\ a.wrote \in Nat /\ s.pending \in Nat /\ s.tx \in Nat /\ p.got \in Nat
      /\ Queued(q, c) \in Nat
  BY ConstantsAssumption, CountsType DEF Sockets, Ends, Apps
<1>4. Born(c, a, s, e, q, j, m)
  BY <1>1 DEF Ok, Born
<1>5. Agreed(c, a, s, e, j)
  BY DEF Ok, Agreed, Added
<1>6. Download(c, a, s, e, j, m, k)
  BY <1>2 DEF Ok, Download, Added, InOrder
<1>7. Live(a) => a.wrote + 0 = Queued(q, c) + s.pending + s.tx + p.got
  BY DEF Ok, Upload
<1>8. Live(a) /\ ~p.fin /\ s.st = "FinWait1" => s.half /\ s.pending = 0
  BY DEF Ok, Upload
<1>9. CASE kind = "ack" /\ s.tx > 0 /\ e.got = p.got + 1 /\ e.gotFin = p.gotFin
  <2>1. Acks(j, c) = 1 /\ Acks(j, c) <= s.tx
    BY <1>2, <1>3, <1>9
  <2>2. ASSUME Live(a) PROVE Balanced(c, a, s, e, q, j)
    <3>1. Balanced(c, a, s, p, q, i)
      BY <2>2 DEF Ok, Upload, Balanced
    <3> QED  BY <1>3, <1>9, <2>1, <3>1, AckBalanced
  <2>3. p.gotFin /\ Live(a) => p.fin
    BY <1>3, <1>9 DEF Ok, Upload
  <2>4. Upload(c, a, s, e, q, j)
    BY <1>8, <1>9, <2>1, <2>2, <2>3 DEF Upload, Balanced
  <2> QED  BY <1>4, <1>5, <1>6, <2>4 DEF Ok
<1>10. CASE kind = "finack" /\ FinDue(s) /\ e.got = p.got /\ e.gotFin = TRUE
  <2>1. Acks(j, c) = 0 /\ s.tx = 0 /\ Acks(j, c) <= s.tx
    BY <1>2, <1>3, <1>10 DEF FinDue
  <2>2. ASSUME Live(a), ~p.fin
        PROVE  a.shut /\ Queued(q, c) = 0 /\ s.pending = 0 /\ s.tx = 0 /\ p.got = a.wrote
    <3>1. s.st = "FinWait1"
      BY <1>10, <2>2 DEF Ok, Agreed, FinDue, Over
    <3>2. s.half /\ s.pending = 0
      BY <1>8, <2>2, <3>1
    <3>3. a.shut /\ ~Mine(q, c)
      BY <3>2 DEF Ok, Said
    <3>4. ~Has(q, Msg(c, "data"))
      BY <3>3 DEF Has, Mine, Msg
    <3>5. Queued(q, c) = 0
      BY <3>4, CountHas DEF Queued
    <3> QED  BY <1>3, <1>7, <2>1, <2>2, <3>2, <3>3, <3>5
  <2>3. Upload(c, a, s, e, q, j)
    BY <1>7, <1>8, <1>10, <2>1, <2>2 DEF Upload
  <2> QED  BY <1>4, <1>5, <1>6, <2>3 DEF Ok
<1> QED  BY <1>9, <1>10

\* A step of the peer of c.
LEMMA PeerStep ==
  ASSUME Inv, NEW c \in Conns, NEW kind \in {"synack", "rst", "data", "fin", "ack", "finack"},
         NEW e \in Ends, peer' = [peer EXCEPT ![c] = e], UNCHANGED peerIdle, Send(c, kind),
         Ok(c, app[c], conn[c], e, dataIn, Append(inbound, Msg(c, kind)), cmds, stack)
  PROVE  Inv'
<1>1. /\ stack' = stack /\ cmds' = cmds /\ dataIn' = dataIn /\ app' = app /\ conn' = conn
      /\ inbound' = Append(inbound, Msg(c, kind))
  BY DEF peerIdle, Send, Msg
<1>2. cmds \in Seq(Conns) /\ dataIn \in Seq(Messages) /\ inbound \in Seq(Packets)
  BY DEF Inv, Typed
<1>3. Msg(c, kind) \in Packets /\ Msg(c, kind).of = c
  BY DEF Packets, Msg
<1>4. inbound' \in Seq(Packets)
  BY <1>1, <1>2, <1>3
<1>5. AskedOnce'
  BY <1>1 DEF Inv, AskedOnce
<1>6. ASSUME NEW d \in Conns, d # c
      PROVE  Ok(d, app[d], conn[d], peer[d], dataIn, inbound', cmds, stack)
  <2>1. Ok(d, app[d], conn[d], peer[d], dataIn, inbound, cmds, stack)
    BY Parts
  <2> QED  BY <1>1, <1>2, <1>3, <1>6, <2>1, PacketForOther
<1>7. /\ app' = [app EXCEPT ![c] = app[c]] /\ conn' = [conn EXCEPT ![c] = conn[c]]
      /\ app[c] \in Apps /\ conn[c] \in Sockets
  BY <1>1, Untouched, Parts
<1>8. dataIn' \in Seq(Messages) /\ cmds' \in Seq(Conns)
  BY <1>1, <1>2
<1>9. /\ Ok(c, app[c], conn[c], e, dataIn', inbound', cmds', stack')
      /\ \A d \in Conns :
           d # c => Ok(d, app[d], conn[d], peer[d], dataIn', inbound', cmds', stack')
  BY <1>1, <1>6
<1> QED  BY <1>4, <1>5, <1>7, <1>8, <1>9, OneStep

\* What a peer finds, and what it makes of the channel.
LEMMA PeerFinds ==
  ASSUME Inv, NEW c \in Conns, NEW kind \in {"synack", "rst", "data", "fin", "ack", "finack"},
         kind = "data" => ~peer[c].fin
  PROVE  Added(c, kind, inbound, Append(inbound, Msg(c, kind)))
<1>1. Ok(c, app[c], conn[c], peer[c], dataIn, inbound, cmds, stack)
  BY Parts
<1>2. inbound \in Seq(Packets)
  BY DEF Inv, Typed
<1>3. InOrder(c, inbound)
  BY <1>1 DEF Ok, Download, InOrder
<1>4. kind = "data" => ~Has(inbound, Msg(c, "fin"))
  BY <1>1 DEF Ok, Agreed
<1> QED  BY <1>2, <1>3, <1>4, PacketAdded

\* The peers keep the invariant.
LEMMA PeersStep ==
  ASSUME Inv, NEW c \in Conns,
         PeerAnswers(c) \/ PeerSends(c) \/ PeerCloses(c) \/ PeerTakes(c) \/ PeerResets(c)
  PROVE  Inv'
<1> DEFINE a == app[c]
           s == conn[c]
           p == peer[c]
           J(kind) == Append(inbound, Msg(c, kind))
           O(e, kind) == Ok(c, a, s, e, dataIn, J(kind), cmds, stack)
<1>1. /\ a \in Apps /\ s \in Sockets /\ p \in Ends
      /\ Ok(c, a, s, p, dataIn, inbound, cmds, stack)
  BY Parts
<1>2. dataIn \in Seq(Messages) /\ peer \in [Conns -> Ends] /\ inbound \in Seq(Packets)
  BY DEF Inv, Typed
<1>3. UNCHANGED peerIdle
  BY DEF PeerAnswers, PeerSends, PeerCloses, PeerTakes, PeerResets
<1>4. CASE s.st # "none" /\ Send(c, "synack") /\ peer' = peer
  <2>1. Added(c, "synack", inbound, J("synack")) /\ peer' = [peer EXCEPT ![c] = p]
    BY <1>4, PeerFinds, Untouched
  <2> HIDE DEF a, s, p, J
  <2>2. O(p, "synack")
    BY <1>1, <1>4, <2>1, AnswerOk
  <2> QED  BY <1>1, <1>3, <1>4, <2>1, <2>2, PeerStep DEF a, s, J
<1>5. CASE s.st # "none" /\ Send(c, "rst") /\ peer' = [peer EXCEPT ![c].rst = TRUE]
  <2>1. PICK e : e = [p EXCEPT !.rst = TRUE]
    OBVIOUS
  <2>2. Added(c, "rst", inbound, J("rst")) /\ peer' = [peer EXCEPT ![c] = e]
    BY <1>5, <2>1, PeerFinds
  <2> HIDE DEF a, s, p, J
  <2>3. /\ e \in Ends /\ e.rst = TRUE /\ e.got = p.got /\ e.gotFin = p.gotFin
        /\ e.sent = p.sent /\ e.fin = p.fin
    BY <1>1, <2>1 DEF Ends
  <2>4. O(e, "rst")
    BY <1>1, <1>5, <2>2, <2>3, AnswerOk
  <2> QED  BY <1>3, <1>5, <2>2, <2>3, <2>4, PeerStep DEF a, s, J
<1>6. CASE PeerSends(c)
  <2>1. /\ s.st \notin {"none", "SynSent"} /\ ~p.fin /\ p.sent < MaxDown /\ Send(c, "data")
        /\ peer' = [peer EXCEPT ![c] = [p EXCEPT !.sent = p.sent + 1]]
    BY <1>6 DEF PeerSends, Connected
  <2>2. PICK e : e = [p EXCEPT !.sent = p.sent + 1]
    OBVIOUS
  <2>3. Added(c, "data", inbound, J("data")) /\ peer' = [peer EXCEPT ![c] = e]
    BY <2>1, <2>2, PeerFinds
  <2> HIDE DEF a, s, p, J
  <2>4. p.sent + 1 \in 0 .. MaxDown
    BY <1>1, <2>1, ConstantsAssumption DEF Ends
  <2>5. /\ e \in Ends /\ e.sent = p.sent + 1 /\ e.rst = p.rst /\ e.got = p.got
        /\ e.gotFin = p.gotFin /\ e.fin = p.fin
    BY <1>1, <2>2, <2>4 DEF Ends
  <2>6. O(e, "data")
    BY <1>1, <2>1, <2>3, <2>5, SendOk
  <2> QED  BY <1>3, <2>1, <2>3, <2>5, <2>6, PeerStep DEF a, s, J
<1>7. CASE PeerCloses(c)
  <2>1. /\ s.st \notin {"none", "SynSent"} /\ ~p.fin /\ Send(c, "fin")
        /\ peer' = [peer EXCEPT ![c] = [p EXCEPT !.fin = TRUE]]
    BY <1>7 DEF PeerCloses, Connected
  <2>2. PICK e : e = [p EXCEPT !.fin = TRUE]
    OBVIOUS
  <2>3. Added(c, "fin", inbound, J("fin")) /\ peer' = [peer EXCEPT ![c] = e]
    BY <2>1, <2>2, PeerFinds
  <2> HIDE DEF a, s, p, J
  <2>4. /\ e \in Ends /\ e.fin = TRUE /\ e.sent = p.sent /\ e.rst = p.rst /\ e.got = p.got
        /\ e.gotFin = p.gotFin
    BY <1>1, <2>2 DEF Ends
  <2>5. O(e, "fin")
    BY <1>1, <2>1, <2>3, <2>4, FinOk
  <2> QED  BY <1>3, <2>1, <2>3, <2>4, <2>5, PeerStep DEF a, s, J
<1>8. CASE PeerTakes(c)
  <2>1. s.st # "none" /\ ~InFlight(c, {"ack", "finack"})
    BY <1>8 DEF PeerTakes, Connected
  <2>2. ~Has(inbound, Msg(c, "ack"))
    BY <1>2, <2>1 DEF InFlight, Has, Msg
  <2>3. Acks(inbound, c) = 0
    BY <1>2, <2>2, CountHas DEF Acks
  <2>4. CASE /\ s.tx > 0 /\ Send(c, "ack")
             /\ peer' = [peer EXCEPT ![c] = [p EXCEPT !.got = p.got + 1]]
    <3>1. PICK e : e = [p EXCEPT !.got = p.got + 1]
      OBVIOUS
    <3>2. Added(c, "ack", inbound, J("ack")) /\ peer' = [peer EXCEPT ![c] = e]
      BY <2>4, <3>1, PeerFinds
    <3> HIDE DEF a, s, p, J
    <3>3. /\ e \in Ends /\ e.got = p.got + 1 /\ e.sent = p.sent /\ e.rst = p.rst /\ e.fin = p.fin
          /\ e.gotFin = p.gotFin
      BY <1>1, <3>1 DEF Ends
    <3>4. O(e, "ack")
      BY <1>1, <1>2, <2>1, <2>2, <2>3, <2>4, <3>2, <3>3, TakeOk
    <3> QED  BY <1>3, <2>4, <3>2, <3>3, <3>4, PeerStep DEF a, s, J
  <2>5. CASE /\ FinDue(s) /\ Send(c, "finack")
             /\ peer' = [peer EXCEPT ![c] = [p EXCEPT !.gotFin = TRUE]]
    <3>1. PICK e : e = [p EXCEPT !.gotFin = TRUE]
      OBVIOUS
    <3>2. Added(c, "finack", inbound, J("finack")) /\ peer' = [peer EXCEPT ![c] = e]
      BY <2>5, <3>1, PeerFinds
    <3> HIDE DEF a, s, p, J
    <3>3. /\ e \in Ends /\ e.gotFin = TRUE /\ e.got = p.got /\ e.sent = p.sent /\ e.rst = p.rst
          /\ e.fin = p.fin
      BY <1>1, <3>1 DEF Ends
    <3>4. O(e, "finack")
      BY <1>1, <1>2, <2>1, <2>2, <2>3, <2>5, <3>2, <3>3, TakeOk
    <3> QED  BY <1>3, <2>5, <3>2, <3>3, <3>4, PeerStep DEF a, s, J
  <2> QED  BY <1>8, <2>4, <2>5 DEF PeerTakes
<1>9. CASE PeerAnswers(c)
  <2>1. s.st # "none"
    BY <1>9 DEF PeerAnswers
  <2> QED  BY <1>4, <1>5, <1>9, <2>1 DEF PeerAnswers
<1>10. CASE PeerResets(c)
  BY <1>5, <1>10 DEF PeerResets, Connected
<1> QED  BY <1>6, <1>7, <1>8, <1>9, <1>10

\* The timer of TIME-WAIT.
LEMMA TimeWaitStep ==
  ASSUME Inv, NEW c \in Conns, TimeWaitEnds(c)
  PROVE  Inv'
<1> DEFINE a == app[c]
           s == conn[c]
           p == peer[c]
<1>1. a \in Apps /\ s \in Sockets /\ Ok(c, a, s, p, dataIn, inbound, cmds, stack)
  BY Parts
<1>2. PICK t : t = [s EXCEPT !.st = "Closed"]
  OBVIOUS
<1>3. /\ conn' = [conn EXCEPT ![c] = t] /\ UNCHANGED <<stack, channels, peer>>
      /\ s.st = "TimeWait" /\ app' = app
  BY <1>2 DEF TimeWaitEnds
<1>4. app' = [app EXCEPT ![c] = a]
  BY <1>3, Untouched
<1> HIDE DEF a, s, p
<1>5. /\ t \in Sockets /\ t.st = "Closed" /\ t.established = s.established /\ t.half = s.half
      /\ t.pending = s.pending /\ t.tx = s.tx /\ t.rx = s.rx /\ t.toApp = s.toApp /\ t.slow = s.slow
  BY <1>1, <1>2 DEF Sockets, States
<1>6. ~(a.is = "none" \/ Has(cmds, c)) /\ ~a.eof
  BY <1>1, <1>3 DEF Ok, Born, Download, NoConn
<1>7. Born(c, a, t, p, dataIn, inbound, cmds)
  BY <1>1, <1>5, <1>6 DEF Ok, Born
<1>8. Said(c, a, t, dataIn) /\ Agreed(c, a, t, p, inbound)
  BY <1>1, <1>3, <1>5 DEF Ok, Said, Agreed, Over
<1>9. Upload(c, a, t, p, dataIn, inbound)
  BY <1>1, <1>3, <1>5 DEF Ok, Upload
<1>10. Finished(a, s)
  BY <1>3 DEF Finished, Over
<1>11. Download(c, a, t, p, inbound, cmds, stack)
  BY <1>1, <1>5, <1>6, <1>10 DEF Ok, Download
<1>12. Ok(c, a, t, p, dataIn, inbound, cmds, stack)
  BY <1>7, <1>8, <1>9, <1>11 DEF Ok
<1> QED  BY <1>1, <1>3, <1>4, <1>5, <1>12, AppStep DEF p

\* A stranger's packet.
LEMMA OtherStep ==
  ASSUME Inv, OtherTraffic
  PROVE  Inv'
<1> DEFINE e == [of |-> Noise, kind |-> "any"]
<1>1. /\ stack' = stack /\ cmds' = cmds /\ dataIn' = dataIn /\ app' = app /\ conn' = conn
      /\ peer' = peer /\ inbound' = Append(inbound, e)
  BY DEF OtherTraffic, Send
<1>2. e \in Packets /\ \A c \in Conns : e.of # c
  BY ConstantsAssumption DEF Packets
<1>3. inbound \in Seq(Packets)
  BY DEF Inv, Typed
<1> HIDE DEF e
<1>4. ASSUME NEW c \in Conns
      PROVE  Ok(c, app[c], conn[c], peer[c], dataIn, inbound', cmds, stack)
  <2>1. Ok(c, app[c], conn[c], peer[c], dataIn, inbound, cmds, stack)
    BY Parts
  <2> QED  BY <1>1, <1>2, <1>3, <2>1, PacketForOther
<1>5. inbound' \in Seq(Packets)
  BY <1>1, <1>2, <1>3
<1> QED  BY <1>1, <1>4, <1>5 DEF Inv, Typed, AskedOnce

-----------------------------------------------------------------------------
(* The theorems.                                                           *)

\* Nothing has been asked for, written or sent.
LEMMA Initially ==
  ASSUME Init
  PROVE  Inv
<1> DEFINE a == [is |-> "none", wrote |-> 0, shut |-> FALSE, read |-> 0, eof |-> FALSE]
<1>1. /\ stack = "turn" /\ inbound = << >> /\ cmds = << >> /\ dataIn = << >>
      /\ app = [c \in Conns |-> a] /\ conn = [c \in Conns |-> NoConn] /\ peer = [c \in Conns |-> NewEnd]
  BY DEF Init, NewEnd
<1>2. /\ \A c : ~Mine(<< >>, c) /\ ~Has(<< >>, c)
      /\ \A c : Queued(<< >>, c) = 0 /\ Coming(<< >>, c) = 0 /\ Acks(<< >>, c) = 0
  <2>1. << >> \in Seq(Packets) /\ Len(<< >>) = 0
    OBVIOUS
  <2>2. \A c : ~Mine(<< >>, c) /\ ~Has(<< >>, c)
    BY <2>1 DEF Mine, Has
  <2>3. \A c : Count(<< >>, c) = 0
    BY <2>1, <2>2, CountHas
  <2> QED  BY <2>2, <2>3 DEF Queued, Coming, Acks
<1>3. << >> \in Seq(1 .. MaxDown) /\ MaxDown \in Nat /\ 0 \in 0 .. MaxDown /\ 0 \in 0 .. TxBuffer
  BY ConstantsAssumption
<1>4. Bytes(<< >>) = 0
  BY <1>3, BytesType
<1>5. a \in Apps /\ NoConn \in Sockets /\ NewEnd \in Ends
  BY <1>3 DEF Apps, Sockets, Ends, NoConn, NewEnd, States
<1>6. Typed
  BY <1>1, <1>5 DEF Typed
<1>7. AskedOnce
  BY <1>1 DEF AskedOnce
<1>8. ASSUME NEW c \in Conns
      PROVE  Ok(c, a, NoConn, NewEnd, << >>, << >>, << >>, "turn")
  <2>1. Born(c, a, NoConn, NewEnd, << >>, << >>, << >>)
    BY <1>2 DEF Born
  <2>2. Said(c, a, NoConn, << >>) /\ Agreed(c, a, NoConn, NewEnd, << >>)
    BY <1>2 DEF Said, Agreed, NoConn, Over
  <2>3. Upload(c, a, NoConn, NewEnd, << >>, << >>)
    BY <1>2 DEF Upload, NoConn, NewEnd
  <2>4. Download(c, a, NoConn, NewEnd, << >>, << >>, "turn")
    BY <1>2, <1>4 DEF Download, NoConn, NewEnd, Finished, Over
  <2> QED  BY <2>1, <2>2, <2>3, <2>4 DEF Ok
<1>9. ASSUME NEW c \in Conns
      PROVE  Ok(c, app[c], conn[c], peer[c], dataIn, inbound, cmds, stack)
  <2>1. app[c] = a /\ conn[c] = NoConn /\ peer[c] = NewEnd
    BY <1>1
  <2> QED  BY <1>1, <1>8, <2>1
<1> QED  BY <1>6, <1>7, <1>9 DEF Inv

\* Every step of the task, of an application, of a peer and of the tunnel keeps the
\* invariant.
LEMMA Steps ==
  ASSUME Inv, [Next]_vars
  PROVE  Inv'
<1>1. CASE UNCHANGED vars
  BY <1>1, IdleStep DEF vars, channels
<1>2. CASE Turn
  BY <1>2, TurnStep
<1>3. CASE Ingest
  BY <1>3, IngestStep
<1>4. CASE IngestDone \/ DataDone \/ Tick \/ TunnelEnds \/ DropHandles
  <2>1. UNCHANGED <<channels, app, conn, peer>>
    BY <1>4 DEF IngestDone, DataDone, Tick, TunnelEnds, DropHandles
  <2>2. stack # "ended" \/ stack' = "ended"
    BY <1>4 DEF IngestDone, DataDone, Tick, CommandsIdle, InboundIdle, TunnelEnds, DropHandles
  <2> QED  BY <2>1, <2>2, IdleStep
<1>5. CASE TunnelGone \/ HandlesGone
  BY <1>5, EndStep DEF TunnelGone, HandlesGone
<1>6. CASE Command
  BY <1>6, CommandStep
<1>7. CASE Data
  BY <1>7, DataStep
<1>8. CASE OtherTraffic
  BY <1>8, OtherStep
<1>9. ASSUME NEW c \in Conns,
             \/ Ask(c) \/ GiveUp(c) \/ Write(c) \/ Shut(c) \/ Read(c) \/ Leave(c)
             \/ Peer(c) \/ PeerSends(c) \/ PeerCloses(c) \/ PeerResets(c)
      PROVE  Inv'
  BY <1>9, AskStep, GoneStep, TellStep, ReadStep, PeersStep, TimeWaitStep DEF Peer
<1> QED  BY <1>1, <1>2, <1>3, <1>4, <1>5, <1>6, <1>7, <1>8, <1>9 DEF Next, Stack

\* The bytes of every connection are accounted for in every state, whatever the
\* sizes of the buffers and of the channels.
THEOREM StackInvariant == Spec => []Inv
<1>1. Init => Inv
  BY Initially
<1>2. Inv /\ [Next]_vars => Inv'
  BY Steps
<1> QED  BY <1>1, <1>2, PTL DEF Spec

\* An upload that nobody cut short is complete when the peer sees its end:
\* service_tcp closes the socket behind the last pending byte.
THEOREM UploadSafe == Spec => []UploadIntact
<1>1. ASSUME Inv PROVE UploadIntact
  <2>1. SUFFICES ASSUME NEW c \in Conns, peer[c].gotFin, app[c].is = "open", ~peer[c].fin
                 PROVE  peer[c].got = app[c].wrote
    BY DEF UploadIntact
  <2>2. Ok(c, app[c], conn[c], peer[c], dataIn, inbound, cmds, stack)
    BY <1>1, Parts
  <2> QED  BY <2>1, <2>2 DEF Ok, Upload, Live
<1>2. Inv => UploadIntact
  BY <1>1
<1> QED  BY <1>2, StackInvariant, PTL

\* An application that keeps up has read all that the peer sent when it reads the
\* end: service_tcp drains the socket before it forgets the connection.
THEOREM DownloadSafe == Spec => []DownloadIntact
<1>1. ASSUME Inv PROVE DownloadIntact
  <2>1. SUFFICES ASSUME NEW c \in Conns, app[c].eof, ~peer[c].rst, stack # "ended", ~conn[c].slow
                 PROVE  app[c].read = peer[c].sent
    BY DEF DownloadIntact
  <2>2. Ok(c, app[c], conn[c], peer[c], dataIn, inbound, cmds, stack)
    BY <1>1, Parts
  <2> QED  BY <2>1, <2>2 DEF Ok, Download
<1>2. Inv => DownloadIntact
  BY <1>1
<1> QED  BY <1>2, StackInvariant, PTL
=============================================================================
