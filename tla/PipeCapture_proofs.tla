------------------------ MODULE PipeCapture_proofs ------------------------
(***************************************************************************)
(* For every size of a read, of a pipe and of the garbage in the buffer,   *)
(* and whichever call fails: execute() of pipe.cpp captures all that the   *)
(* command wrote, in order, with the echo that a short last read leaves.   *)
(***************************************************************************)
EXTENDS PipeCapture, FiniteSetTheorems, TLAPS
-----------------------------------------------------------------------------
\* The length of the buffer in the model.
CapSize == CapMaxGarbage + CapChunk + 1

\* What is captured when n bytes are read.
CapExpected(s, n) == CapBytes(s, 1, n) \o CapEcho(s, n)

CapTypeOK ==
  /\ capTotal \in [CapStreams -> 0 .. CapMaxTotal]
  /\ capWritten \in [CapStreams -> Nat] /\ capRead \in [CapStreams -> Nat]
  /\ \A s \in CapStreams : capRead[s] <= capWritten[s] /\ capWritten[s] <= capTotal[s]
  /\ capText \in [CapStreams -> Seq(Int)]
  /\ capBuffer \in [1 .. CapSize -> Int]
  /\ capChild \in {"none", "exec", "running"} \cup CapEnded

\* The child has ended before anything is read, out before err, all of it.
CapOrder ==
  /\ capParent \in {"pipe_in", "pipe_out", "pipe_err", "fork", "wait",
                    "out", "err", "finish", "returned"}
  /\ capParent \in {"pipe_in", "pipe_out", "pipe_err", "fork"} => capChild = "none"
  /\ capParent \in {"out", "err", "finish", "returned"} => capChild \in CapEnded \cup {"none"}
  /\ capChild = "none" => \A s \in CapStreams : capWritten[s] = 0
  /\ capParent \notin {"out", "err", "finish", "returned"} => capRead["out"] = 0
  /\ capParent \notin {"err", "finish", "returned"} => capRead["err"] = 0
  /\ capParent \in {"err", "finish", "returned"} => capRead["out"] = capWritten["out"]
  /\ capParent \in {"finish", "returned"} => capRead["err"] = capWritten["err"]
  /\ capParent # "returned" => capStatus = 0
  /\ capParent = "returned" => capFds = {} /\ (capStatus # 0 => capChild = "exit_2")

\* A zero ends what is in a buffer.
CapEnds(b, k) == \A i \in 1 .. CapSize : b[i] # 0 <=> i <= k

\* There is nothing of a stream in a buffer.
CapFree(s, b) == \A i \in 1 .. CapSize : b[i] \notin CapOwn(s)

\* When r bytes were read, a buffer holds the chunk read last, the q-th, and
\* nothing else of the stream.
CapHolds(s, b, r, q) ==
  /\ r = CapChunk * q
  /\ q = 0 => CapFree(s, b)
  /\ q # 0 => \A i \in 1 .. CapSize :
                IF i <= CapChunk THEN b[i] = CapByte(s, r - CapChunk + i)
                                 ELSE b[i] \notin CapOwn(s)

CapBufferOK ==
  /\ \E k \in 0 .. CapSize - 1 : CapEnds(capBuffer, k)
  /\ \A s \in CapStreams :
       /\ capRead[s] = 0 => CapFree(s, capBuffer)
       /\ capParent = s /\ capRead[s] < capWritten[s] =>
            \E q \in Nat : CapHolds(s, capBuffer, capRead[s], q)

\* What is read is captured.
CapSoFar == \A s \in CapStreams : CapIs(s, capText[s], CapExpected(s, capRead[s]))

CapIInv == CapTypeOK /\ CapOrder /\ CapBufferOK /\ CapSoFar

-----------------------------------------------------------------------------
\* The remainder of a division is what is left of it.
LEMMA Remainder ==
  ASSUME NEW b \in Nat \ {0}, NEW q \in Nat, NEW n \in Nat, n < b
  PROVE  (b * q + n) % b = n
<1>1. PICK x \in Nat : x = b * q + n
  OBVIOUS
<1>2. PICK d \in Int, r \in Int : d = x \div b /\ r = x % b
  BY <1>1
<1>3. x = b * d + r /\ 0 <= r /\ r < b
  BY <1>1, <1>2
<1>4. b * (q - d) = r - n
  BY <1>1, <1>3
<1>5. CASE q - d >= 1
  <2>1. b * (q - d) >= b
    BY <1>5
  <2> QED BY <1>3, <1>4, <2>1
<1>6. CASE q - d <= -1
  <2>1. b * (q - d) <= -b
    BY <1>6
  <2> QED BY <1>3, <1>4, <2>1
<1>7. CASE q = d
  BY <1>1, <1>2, <1>3, <1>7
<1> QED BY <1>5, <1>6, <1>7

\* Bytes i to j of a stream, element by element.
LEMMA Bytes ==
  ASSUME NEW s \in CapStreams, NEW i \in Nat \ {0}, NEW n \in Nat
  PROVE  /\ CapBytes(s, i, i + n - 1) \in Seq(Int) /\ Len(CapBytes(s, i, i + n - 1)) = n
         /\ \A k \in 1 .. n : CapBytes(s, i, i + n - 1)[k] = CapByte(s, i + k - 1)
<1>1. CapBytes(s, i, i + n - 1) = [k \in 1 .. n |-> CapByte(s, i + k - 1)]
  <2>1. (i + n - 1) - i + 1 = n
    OBVIOUS
  <2> QED BY <2>1 DEF CapBytes, CapByte
<1>2. \A k \in 1 .. n : CapByte(s, i + k - 1) \in Int
  BY DEF CapByte
<1>3. PICK f : f = [k \in 1 .. n |-> CapByte(s, i + k - 1)]
  OBVIOUS
<1>4. f \in [1 .. n -> Int] /\ DOMAIN f = 1 .. n /\ \A k \in 1 .. n : f[k] = CapByte(s, i + k - 1)
  BY <1>2, <1>3
<1>5. f \in Seq(Int) /\ Len(f) = n
  BY <1>4
<1> QED BY <1>1, <1>3, <1>4, <1>5, Zenon

\* What a text has of a stream, after a piece that has m of its bytes in front.
LEMMA Added ==
  ASSUME NEW s \in CapStreams, NEW t \in Seq(Int), NEW e \in Seq(Int), CapIs(s, t, e),
         NEW c \in Seq(Int), NEW m \in 0 .. Len(c),
         \A i \in 1 .. Len(c) : c[i] \in CapOwn(s) <=> i <= m,
         NEW g \in Seq(Int), Len(g) = Len(e) + m,
         \A i \in 1 .. Len(e) : g[i] = e[i],
         \A i \in 1 .. m : g[Len(e) + i] = c[i]
  PROVE  CapIs(s, t \o c, g)
<1>a. PICK L \in Nat : L = Len(t)
  OBVIOUS
<1>b. PICK E \in Nat : E = Len(e)
  OBVIOUS
<1>c. PICK C \in Nat : C = Len(c)
  OBVIOUS
<1>d. PICK O : O = CapOwn(s)
  OBVIOUS
<1>e. PICK P : P = CapPlaces(s, t)
  OBVIOUS
<1>f. PICK u : u = t \o c
  OBVIOUS
<1>g. PICK Q : Q = CapPlaces(s, u)
  OBVIOUS
<1>2. /\ u \in Seq(Int) /\ Len(u) = L + C
      /\ \A i \in 1 .. L : u[i] = t[i]
      /\ \A i \in 1 .. C : u[L + i] = c[i]
  BY <1>a, <1>c, <1>f
<1>3. P = {i \in 1 .. L : t[i] \in O} /\ Q = {i \in 1 .. L + C : u[i] \in O}
  <2>1. DOMAIN t = 1 .. L /\ DOMAIN u = 1 .. L + C
    BY <1>2, <1>a
  <2> QED BY <2>1, <1>d, <1>e, <1>g DEF CapPlaces
<1>4. IsFiniteSet(P)
  <2>1. IsFiniteSet(1 .. L)
    BY 1 \in Int, L \in Int, FS_Interval, Zenon
  <2>2. P \subseteq 1 .. L
    BY <1>3
  <2> QED BY <2>1, <2>2, FS_Subset, Zenon
<1>5. Cardinality(P) = E /\ \A i \in P : t[i] = e[Cardinality({j \in P : j <= i})]
  BY <1>b, <1>e, Zenon DEF CapIs
<1>6. /\ m \in 0 .. C
      /\ \A i \in 1 .. C : c[i] \in O <=> i <= m
      /\ Len(g) = E + m
      /\ \A i \in 1 .. E : g[i] = e[i]
      /\ \A i \in 1 .. m : g[E + i] = c[i]
  BY <1>b, <1>c, <1>d
<1>7. Q = P \cup (L + 1 .. L + m)
  <2>1. ASSUME NEW i \in Q PROVE i \in P \cup (L + 1 .. L + m)
    <3>1. CASE i <= L
      BY <1>2, <1>3, <2>1, <3>1
    <3>2. CASE i > L
      <4>1. PICK x \in 1 .. C : i = L + x
        <5>1. i \in 1 .. L + C
          BY <1>3
        <5> QED BY <3>2, <5>1
      <4>2. u[i] \in O /\ u[L + x] = c[x]
        BY <1>2, <1>3, <4>1
      <4>3. x <= m
        BY <1>6, <4>1, <4>2
      <4> QED BY <4>1, <4>3
    <3>3. i \in Int
      BY <1>3
    <3> QED BY <3>1, <3>2, <3>3
  <2>2. ASSUME NEW i \in P PROVE i \in Q
    BY <1>2, <1>3
  <2>3. ASSUME NEW i \in L + 1 .. L + m PROVE i \in Q
    <3>1. PICK x \in 1 .. m : i = L + x
      <4>1. i - L \in 1 .. m /\ i = L + (i - L)
        BY <1>6
      <4> QED BY <4>1
    <3>2. x \in 1 .. C /\ x <= m
      BY <1>6, <3>1
    <3>3. c[x] \in O /\ u[i] = c[x]
      BY <1>2, <1>6, <3>1, <3>2
    <3>4. i \in 1 .. L + C /\ u[i] \in O
      <4>1. i \in 1 .. L + C
        BY <3>1, <3>2
      <4> QED BY <3>3, <4>1, Zenon
    <3> QED BY <1>3, <3>4, Zenon
  <2> QED BY <2>1, <2>2, <2>3, Zenon
<1>8. ASSUME NEW x \in 0 .. m
      PROVE  Cardinality(P \cup (L + 1 .. L + x)) = E + x
  <2>1. PICK a \in Int : a = L + 1
    OBVIOUS
  <2>2. PICK z \in Int : z = L + x
    OBVIOUS
  <2>3. IsFiniteSet(a .. z) /\ Cardinality(a .. z) = IF a > z THEN 0 ELSE z - a + 1
    BY FS_Interval, Zenon
  <2>4. (IF a > z THEN 0 ELSE z - a + 1) = x
    BY <1>6, <2>1, <2>2
  <2>5. P \cap (a .. z) = {}
    BY <1>3, <2>1
  <2>6. Cardinality(P \cup (a .. z)) =
          Cardinality(P) + Cardinality(a .. z) - Cardinality(P \cap (a .. z))
    BY <1>4, <2>3, FS_Union, Zenon
  <2>7. Cardinality(P \cap (a .. z)) = 0
    BY <2>5, FS_EmptySet, Zenon
  <2>8. Cardinality(P \cup (a .. z)) = E + x - 0
    BY <1>5, <2>3, <2>4, <2>6, <2>7, Zenon
  <2>9. E + x - 0 = E + x
    BY <1>6
  <2> QED BY <2>1, <2>2, <2>8, <2>9, Zenon
<1>9. Cardinality(Q) = Len(g)
  <2>1. m \in 0 .. m
    BY <1>6
  <2> QED BY <1>6, <1>7, <1>8, <2>1, Zenon
<1>10. ASSUME NEW i \in P
       PROVE  u[i] = g[Cardinality({j \in Q : j <= i})]
  <2>1. {j \in Q : j <= i} = {j \in P : j <= i}
    <3>1. i \in 1 .. L
      BY <1>3
    <3>2. \A j \in L + 1 .. L + m : ~ j <= i
      BY <1>6, <3>1
    <3> QED BY <1>7, <3>2, Zenon
  <2>2. PICK k : k = Cardinality({j \in P : j <= i})
    OBVIOUS
  <2>3. k \in 1 .. E
    <3>1. {j \in P : j <= i} \in SUBSET P
      OBVIOUS
    <3>2. IsFiniteSet({j \in P : j <= i}) /\ k <= E
      BY <1>4, <1>5, <2>2, <3>1, FS_Subset, Zenon
    <3>3. k \in Nat
      BY <2>2, <3>2, FS_CardinalityType, Zenon
    <3>4. i \in {j \in P : j <= i}
      BY <1>3
    <3>5. k # 0
      BY <2>2, <3>2, <3>4, FS_EmptySet, Zenon
    <3> QED BY <3>2, <3>3, <3>5
  <2>4. u[i] = t[i]
    BY <1>2, <1>3
  <2>5. t[i] = e[k]
    BY <1>5, <2>2, Zenon
  <2>6. g[k] = e[k]
    BY <1>6, <2>3
  <2> QED BY <2>1, <2>2, <2>4, <2>5, <2>6, Zenon
<1>11. ASSUME NEW i \in L + 1 .. L + m
       PROVE  u[i] = g[Cardinality({j \in Q : j <= i})]
  <2>1. PICK x \in 1 .. m : i = L + x
    <3>1. i - L \in 1 .. m /\ i = L + (i - L)
      BY <1>6
    <3> QED BY <3>1
  <2>2. {j \in Q : j <= i} = P \cup (L + 1 .. L + x)
    <3>1. \A j \in P : j <= i
      BY <1>3, <1>6
    <3>2. \A j \in L + 1 .. L + m : j <= i <=> j \in L + 1 .. L + x
      BY <1>6, <2>1
    <3>3. \A j \in L + 1 .. L + x : j \in L + 1 .. L + m
      BY <1>6, <2>1
    <3> QED BY <1>7, <3>1, <3>2, <3>3, Zenon
  <2>3. x \in 1 .. C /\ x \in 0 .. m
    BY <1>6, <2>1
  <2>6. u[L + x] = c[x] /\ g[E + x] = c[x]
    BY <1>2, <1>6, <2>3
  <2>4. Cardinality({j \in Q : j <= i}) = E + x
    BY <1>8, <2>2, <2>3, Zenon
  <2> QED BY <2>1, <2>4, <2>6, Zenon
<1>12. \A i \in Q : u[i] = g[Cardinality({j \in Q : j <= i})]
  BY <1>7, <1>10, <1>11, Zenon
<1> QED BY <1>f, <1>g, <1>9, <1>12, Zenon DEF CapIs

\* The length of what is in a buffer.
LEMMA Strlen ==
  ASSUME NEW b \in [1 .. CapSize -> Int], NEW k \in 0 .. CapSize - 1, CapEnds(b, k)
  PROVE  CapStrlen(b) = k
<1>0. PICK z \in Nat \ {0} : z = CapSize
  BY CapAssumption DEF CapSize
<1>1. Len(b) = z /\ b \in [1 .. z -> Int] /\ k \in 0 .. z - 1
  BY <1>0
<1>2. \A i \in 1 .. z : b[i] # 0 <=> i <= k
  BY <1>0 DEF CapEnds
<1>3. \A j \in 0 .. z - 1 : (b[j + 1] = 0 /\ \A i \in 1 .. j : b[i] # 0) <=> j = k
  <2>1. ASSUME NEW j \in 0 .. z - 1, j = k
        PROVE  b[j + 1] = 0 /\ \A i \in 1 .. j : b[i] # 0
    BY <1>1, <1>2, <2>1
  <2>2. ASSUME NEW j \in 0 .. z - 1, b[j + 1] = 0, \A i \in 1 .. j : b[i] # 0
        PROVE  j = k
    <3>1. j + 1 \in 1 .. z /\ ~ j + 1 <= k
      BY <1>2, <2>2
    <3>2. CASE j = 0
      BY <1>1, <3>1, <3>2
    <3>3. CASE j # 0
      <4>1. j \in 1 .. z /\ b[j] # 0
        BY <2>2, <3>3
      <4>2. j <= k
        BY <1>2, <4>1
      <4> QED BY <1>1, <3>1, <4>2
    <3> QED BY <3>2, <3>3
  <2> QED BY <2>1, <2>2, Zenon
<1>4. CapStrlen(b) = CHOOSE j \in 0 .. z - 1 : b[j + 1] = 0 /\ \A i \in 1 .. j : b[i] # 0
  BY <1>1, Zenon DEF CapStrlen
<1> QED BY <1>1, <1>3, <1>4, Zenon

\* The first bytes of a stream, element by element.
LEMMA FirstBytes ==
  ASSUME NEW s \in CapStreams, NEW w \in Nat
  PROVE  /\ CapBytes(s, 1, w) \in Seq(Int) /\ Len(CapBytes(s, 1, w)) = w
         /\ \A i \in 1 .. w : CapBytes(s, 1, w)[i] = CapByte(s, i)
<1>1. 1 + w - 1 = w /\ 1 \in Nat \ {0} /\ \A i \in 1 .. w : 1 + i - 1 = i
  OBVIOUS
<1>2. /\ CapBytes(s, 1, 1 + w - 1) \in Seq(Int) /\ Len(CapBytes(s, 1, 1 + w - 1)) = w
      /\ \A k \in 1 .. w : CapBytes(s, 1, 1 + w - 1)[k] = CapByte(s, 1 + k - 1)
  BY <1>1, Bytes
<1> QED BY <1>1, <1>2, Zenon

\* A sequence after another, element by element.
LEMMA Joined ==
  ASSUME NEW f \in Seq(Int), NEW e \in Seq(Int), NEW w \in Nat, w = Len(f),
         NEW l \in Nat, l = Len(e)
  PROVE  /\ f \o e \in Seq(Int) /\ Len(f \o e) = w + l
         /\ \A i \in 1 .. w : (f \o e)[i] = f[i]
         /\ \A i \in 1 .. l : (f \o e)[w + i] = e[i]
OBVIOUS

\* What is captured of r + n bytes, m of it in the last round: those n read in
\* it, and the rest of the chunk before them.
CapRound(s, r, n, m) ==
  /\ CapExpected(s, r + n) \in Seq(Int) /\ Len(CapExpected(s, r + n)) = r + m
  /\ \A i \in 1 .. r + n : CapExpected(s, r + n)[i] = CapByte(s, i)
  /\ \A i \in n + 1 .. m : CapExpected(s, r + n)[r + i] = CapByte(s, r - CapChunk + i)

\* A short read is captured with the rest of the chunk before it, if there was one.
LEMMA Expected ==
  ASSUME NEW s \in CapStreams, NEW q \in Nat, NEW r \in Nat, r = CapChunk * q,
         NEW n \in 0 .. CapChunk,
         NEW m \in Nat, q # 0 /\ n # 0 => m = CapChunk, q = 0 \/ n = 0 => m = n
  PROVE  CapRound(s, r, n, m)
<1>a. PICK b \in Nat \ {0} : b = CapChunk
  BY CapAssumption
<1>b. PICK w \in Nat : w = r + n
  OBVIOUS
<1>c. PICK f : f = CapBytes(s, 1, w)
  OBVIOUS
<1>d. PICK e : e = CapEcho(s, w)
  OBVIOUS
<1>1. f \in Seq(Int) /\ Len(f) = w /\ \A i \in 1 .. w : f[i] = CapByte(s, i)
  BY <1>c, FirstBytes, Zenon
<1>2. CapExpected(s, r + n) = f \o e
  BY <1>b, <1>c, <1>d, Zenon DEF CapExpected
<1>3. CASE q = 0 \/ n = 0 \/ n = b
  <2>1. e = <<>>
    <3>1. CASE n = 0
      <4>1. (b * q + n) % b = n
        BY <3>1, Remainder
      <4>2. w % b = 0
        BY <1>a, <1>b, <3>1, <4>1
      <4> QED BY <1>a, <1>d, <4>2 DEF CapEcho
    <3>2. CASE n = b
      <4>1. PICK p \in Nat : p = q + 1
        OBVIOUS
      <4>2. (b * p + 0) % b = 0
        BY Remainder
      <4>3. w = b * p + 0
        BY <1>a, <1>b, <3>2, <4>1
      <4> QED BY <1>a, <1>d, <4>2, <4>3 DEF CapEcho
    <3>3. CASE q = 0 /\ n # b
      <4>1. (b * q + n) % b = n
        BY <1>a, <3>3, Remainder
      <4>2. w = n /\ w % b = w
        BY <1>a, <1>b, <3>3, <4>1
      <4> QED BY <1>a, <1>d, <4>2 DEF CapEcho
    <3> QED BY <1>3, <3>1, <3>2, <3>3
  <2>2. m = n
    BY <1>3, <1>a
  <2>3. f \o e = f
    BY <1>1, <2>1
  <2>4. Len(f) = r + m
    BY <1>1, <1>b, <2>2
  <2>5. \A i \in n + 1 .. m : FALSE
    BY <2>2
  <2> QED BY <1>1, <1>2, <1>b, <2>3, <2>4, <2>5, Zenon DEF CapRound
<1>4. CASE q # 0 /\ n # 0 /\ n # b
  <2>1. w % b = n
    BY <1>4, <1>a, <1>b, Remainder
  <2>2. r >= b
    BY <1>4, <1>a
  <2>3. PICK j \in Nat \ {0} : j = r - b + n + 1
    BY <2>2
  <2>4. PICK l \in Nat : l = b - n
    BY <1>a
  <2>5. e = CapBytes(s, j, j + l - 1)
    <3>1. w - n = r /\ w - n - b + n + 1 = j /\ j + l - 1 = r /\ r # 0
      BY <1>a, <1>b, <2>2, <2>3, <2>4
    <3> QED BY <1>4, <1>a, <1>d, <2>1, <3>1 DEF CapEcho
  <2>6. e \in Seq(Int) /\ Len(e) = l /\ \A i \in 1 .. l : e[i] = CapByte(s, j + i - 1)
    BY <2>5, Bytes, Zenon
  <2>7. m = b
    BY <1>4, <1>a
  <2>j. /\ f \o e \in Seq(Int) /\ Len(f \o e) = w + l
        /\ \A i \in 1 .. w : (f \o e)[i] = f[i]
        /\ \A i \in 1 .. l : (f \o e)[w + i] = e[i]
    <3>1. w = Len(f) /\ l = Len(e) /\ f \in Seq(Int) /\ e \in Seq(Int)
      BY <1>1, <2>6, Zenon
    <3> QED BY <3>1, Joined
  <2>8. f \o e \in Seq(Int) /\ Len(f \o e) = r + m
    <3>1. w + l = r + m
      BY <1>b, <2>4, <2>7
    <3> QED BY <3>1, <2>j, Zenon
  <2>9. \A i \in 1 .. w : (f \o e)[i] = CapByte(s, i)
    BY <1>1, <2>j, Zenon
  <2>10. ASSUME NEW i \in n + 1 .. m PROVE (f \o e)[r + i] = CapByte(s, r - b + i)
    <3>1. PICK x \in Int : x = i - n
      OBVIOUS
    <3>2. x \in 1 .. l /\ r + i = w + x /\ j + x - 1 = r - b + i
      BY <1>b, <2>3, <2>4, <2>7, <3>1
    <3>3. (f \o e)[w + x] = e[x]
      BY <2>j, <3>2, Zenon
    <3> QED BY <2>6, <3>2, <3>3, Zenon
  <2> QED BY <1>2, <1>a, <1>b, <2>8, <2>9, <2>10, Zenon DEF CapRound
<1> QED BY <1>3, <1>4

\* The bytes of a stream are its own.
LEMMA Owned ==
  ASSUME NEW s \in CapStreams, NEW i \in Nat \ {0}
  PROVE  /\ CapByte(s, i) \in CapOwn(s) /\ CapByte(s, i) \in Int /\ CapByte(s, i) # 0
         /\ \A x \in CapStreams : x # s => CapByte(s, i) \notin CapOwn(x)
<1>1. CASE s = "out"
  BY <1>1 DEF CapStreams, CapByte, CapOwn
<1>2. CASE s = "err"
  BY <1>2 DEF CapStreams, CapByte, CapOwn
<1> QED BY <1>1, <1>2 DEF CapStreams

\* The front of a buffer, element by element.
LEMMA Front ==
  ASSUME NEW S \in Nat, NEW f \in [1 .. S -> Int], NEW z \in 0 .. S
  PROVE  /\ SubSeq(f, 1, z) \in Seq(Int) /\ Len(SubSeq(f, 1, z)) = z
         /\ \A i \in 1 .. z : SubSeq(f, 1, z)[i] = f[i]
OBVIOUS

\* A buffer with n bytes read over it, and the text with what is in a buffer.
CapOver(s, r, n, b) ==
  [i \in 1 .. CapSize |-> IF i <= n THEN CapByte(s, r + i) ELSE b[i]]

CapCopied(s, t, f, e) ==
  \E z \in 0 .. CapSize - 1 :
    CapEnds(f, z) /\ SubSeq(f, 1, z) \in Seq(Int) /\ CapIs(s, t \o SubSeq(f, 1, z), e)

\* A round of a read loop: n bytes are read over the buffer b, and what is then
\* in it is captured.
LEMMA Round ==
  ASSUME NEW s \in CapStreams, NEW q \in Nat, NEW r \in Nat,
         NEW n \in 1 .. CapChunk,
         NEW b \in [1 .. CapSize -> Int], NEW k \in 0 .. CapSize - 1, CapEnds(b, k),
         CapHolds(s, b, r, q),
         NEW t \in Seq(Int), CapIs(s, t, CapExpected(s, r)),
         NEW f, f = CapOver(s, r, n, b)
  PROVE  f \in [1 .. CapSize -> Int] /\ CapCopied(s, t, f, CapExpected(s, r + n))
<1>a. PICK B \in Nat \ {0} : B = CapChunk
  BY CapAssumption
<1>b. PICK S \in Nat : S = CapSize /\ S > B
  BY <1>a, CapAssumption DEF CapSize
<1>c. PICK O : O = CapOwn(s)
  OBVIOUS
<1>r. r = B * q
  BY <1>a, Zenon DEF CapHolds
<1>0. n \in 1 .. B /\ b \in [1 .. S -> Int] /\ k \in 0 .. S - 1
  BY <1>a, <1>b
<1>1. \A i \in Nat \ {0} : CapByte(s, i) \in O /\ CapByte(s, i) \in Int /\ CapByte(s, i) # 0
  BY <1>c, Owned, Zenon
<1>2. \A i \in 1 .. n : r + i \in Nat \ {0}
  OBVIOUS
<1>3. /\ f \in [1 .. S -> Int]
      /\ \A i \in 1 .. S : i <= n => f[i] = CapByte(s, r + i)
      /\ \A i \in 1 .. S : ~ i <= n => f[i] = b[i]
  <2>1. f = [i \in 1 .. S |-> IF i <= n THEN CapByte(s, r + i) ELSE b[i]]
    BY <1>b, Zenon DEF CapOver
  <2>2. ASSUME NEW i \in 1 .. S PROVE (IF i <= n THEN CapByte(s, r + i) ELSE b[i]) \in Int
    <3>1. CASE i <= n
      <4>1. i \in 1 .. n
        BY <3>1
      <4> QED BY <1>1, <1>2, <3>1, <4>1, Zenon
    <3>2. CASE ~ i <= n
      BY <1>0, <3>2
    <3> QED BY <3>1, <3>2
  <2> QED BY <2>1, <2>2, Zenon
<1>4. \A i \in 1 .. S : b[i] # 0 <=> i <= k
  BY <1>b, Zenon DEF CapEnds
<1>5. PICK z \in 0 .. S - 1 : z = IF n <= k THEN k ELSE n
  BY <1>0, <1>b
<1>6. \A i \in 1 .. S : f[i] # 0 <=> i <= z
  <2>1. ASSUME NEW i \in 1 .. S, i <= n PROVE f[i] # 0 /\ i <= z
    <3>1. f[i] # 0
      <4>1. i \in 1 .. n
        BY <2>1
      <4> QED BY <1>1, <1>2, <1>3, <2>1, <4>1, Zenon
    <3>2. i <= z
      BY <1>0, <1>5, <2>1
    <3> QED BY <3>1, <3>2
  <2>2. ASSUME NEW i \in 1 .. S, ~ i <= n PROVE f[i] # 0 <=> i <= z
    <3>1. i <= k <=> i <= z
      BY <1>0, <1>5, <2>2
    <3> QED BY <1>3, <1>4, <2>2, <3>1, Zenon
  <2> QED BY <2>1, <2>2, Zenon
<1>7. CapEnds(f, z)
  BY <1>b, <1>6, Zenon DEF CapEnds
<1>8. PICK m \in Nat : m = IF q # 0 THEN B ELSE n
  BY <1>0
<1>9. m <= z
  <2>1. CASE q = 0
    BY <1>0, <1>5, <1>8, <2>1
  <2>2. CASE q # 0
    <3>1. B \in 1 .. S /\ B <= CapChunk /\ r - CapChunk + B = r /\ r >= B
      BY <1>r, <1>a, <1>b, <2>2
    <3>2. b[B] = CapByte(s, r)
      BY <1>b, <2>2, <3>1, Zenon DEF CapHolds
    <3>3. r \in Nat \ {0}
      BY <1>0, <3>1
    <3>4. B <= k
      BY <1>1, <1>4, <3>1, <3>2, <3>3, Zenon
    <3> QED BY <1>0, <1>5, <1>8, <2>2, <3>4
  <2> QED BY <2>1, <2>2
<1>10. /\ \A i \in 1 .. S : f[i] \in O <=> i <= m
       /\ \A i \in n + 1 .. m : f[i] = CapByte(s, r - B + i)
  <2>1. ASSUME NEW i \in 1 .. S, i <= n PROVE f[i] \in O /\ i <= m
    <3>1. i \in 1 .. n /\ i <= m
      BY <1>0, <1>8, <2>1
    <3> QED BY <1>1, <1>2, <1>3, <2>1, <3>1, Zenon
  <2>2. CASE q = 0
    <3>1. ASSUME NEW i \in 1 .. S, ~ i <= n PROVE f[i] \notin O /\ ~ i <= m
      <4>1. f[i] = b[i] /\ b[i] \notin O
        BY <1>3, <1>b, <1>c, <2>2, <3>1, Zenon DEF CapHolds, CapFree
      <4> QED BY <1>8, <2>2, <3>1, <4>1
    <3>2. \A i \in n + 1 .. m : FALSE
      BY <1>0, <1>8, <2>2
    <3> QED BY <2>1, <3>1, <3>2, Zenon
  <2>3. CASE q # 0
    <3>1. m = B /\ r >= B
      BY <1>r, <1>8, <2>3
    <3>2. \A i \in 1 .. S : IF i <= B THEN b[i] = CapByte(s, r - B + i) ELSE b[i] \notin O
      BY <1>a, <1>b, <1>c, <2>3, Zenon DEF CapHolds
    <3>3. ASSUME NEW i \in 1 .. S, ~ i <= n PROVE f[i] \in O <=> i <= m
      <4>1. CASE i <= B
        <5>1. r - B + i \in Nat \ {0}
          BY <1>0, <3>1, <4>1
        <5>2. b[i] = CapByte(s, r - B + i)
          BY <3>2, <4>1, Zenon
        <5> QED BY <1>1, <1>3, <3>1, <3>3, <4>1, <5>1, <5>2, Zenon
      <4>2. CASE ~ i <= B
        BY <1>3, <3>1, <3>2, <3>3, <4>2, Zenon
      <4> QED BY <4>1, <4>2
    <3>4. ASSUME NEW i \in n + 1 .. m PROVE f[i] = CapByte(s, r - B + i)
      <4>1. i \in 1 .. S /\ ~ i <= n /\ i <= B
        BY <1>0, <1>b, <3>1
      <4> QED BY <1>3, <3>2, <4>1, Zenon
    <3> QED BY <2>1, <3>3, <3>4, Zenon
  <2> QED BY <2>2, <2>3
<1>11. PICK c : c = SubSeq(f, 1, z)
  OBVIOUS
<1>12. c \in Seq(Int) /\ Len(c) = z /\ \A i \in 1 .. z : c[i] = f[i]
  <2>1. z \in 0 .. S
    BY <1>5
  <2>2. /\ SubSeq(f, 1, z) \in Seq(Int) /\ Len(SubSeq(f, 1, z)) = z
        /\ \A i \in 1 .. z : SubSeq(f, 1, z)[i] = f[i]
    BY <1>3, <2>1, Front
  <2> QED BY <1>11, <2>2, Zenon
<1>13. PICK e : e = CapExpected(s, r)
  OBVIOUS
<1>14. PICK g : g = CapExpected(s, r + n)
  OBVIOUS
<1>15. e \in Seq(Int) /\ Len(e) = r /\ \A i \in 1 .. r : e[i] = CapByte(s, i)
  <2>1. r = CapChunk * q /\ 0 \in 0 .. CapChunk /\ 0 \in Nat /\ r + 0 = r
    BY <1>r, <1>a
  <2>2. (q # 0 /\ 0 # 0 => 0 = CapChunk) /\ (q = 0 \/ 0 = 0 => 0 = 0)
    OBVIOUS
  <2>3. CapRound(s, r, 0, 0)
    BY <2>1, <2>2, Expected
  <2> QED BY <1>13, <2>1, <2>3, Zenon DEF CapRound
<1>16. /\ g \in Seq(Int) /\ Len(g) = r + m
       /\ \A i \in 1 .. r + n : g[i] = CapByte(s, i)
       /\ \A i \in n + 1 .. m : g[r + i] = CapByte(s, r - B + i)
  <2>1. r = CapChunk * q /\ n \in 0 .. CapChunk
    BY <1>0, <1>r, <1>a
  <2>2. (q # 0 /\ n # 0 => m = CapChunk) /\ (q = 0 \/ n = 0 => m = n)
    BY <1>0, <1>8, <1>a
  <2>3. CapRound(s, r, n, m)
    BY <2>1, <2>2, Expected
  <2> QED BY <1>14, <1>a, <2>3, Zenon DEF CapRound
<1>17. CapIs(s, t \o c, g)
  <2>1. CapIs(s, t, e)
    BY <1>13, Zenon
  <2>2. m \in 0 .. Len(c)
    BY <1>9, <1>12
  <2>3. \A i \in 1 .. Len(c) : c[i] \in CapOwn(s) <=> i <= m
    <3>1. \A i \in 1 .. z : i \in 1 .. S
      OBVIOUS
    <3>2. \A i \in 1 .. z : f[i] \in O <=> i <= m
      BY <1>10, <3>1, Zenon
    <3>3. ASSUME NEW i \in 1 .. z PROVE c[i] \in O <=> i <= m
      BY <1>12, <3>2, Zenon
    <3> QED BY <1>12, <1>c, <3>3, Zenon
  <2>4. Len(g) = Len(e) + m
    BY <1>15, <1>16, Zenon
  <2>5. \A i \in 1 .. Len(e) : g[i] = e[i]
    <3>1. \A i \in 1 .. r : i \in 1 .. r + n
      OBVIOUS
    <3> QED BY <1>15, <1>16, <3>1, Zenon
  <2>6. ASSUME NEW i \in 1 .. m PROVE g[Len(e) + i] = c[i]
    <3>1. i \in 1 .. z /\ i \in 1 .. S
      BY <1>5, <1>9
    <3>2. CASE i <= n
      <4>1. r + i \in 1 .. r + n
        BY <3>2
      <4>2. c[i] = CapByte(s, r + i)
        BY <1>3, <1>12, <3>1, <3>2, Zenon
      <4> QED BY <1>15, <1>16, <4>1, <4>2, Zenon
    <3>3. CASE ~ i <= n
      <4>1. i \in n + 1 .. m
        BY <3>3
      <4>2. c[i] = CapByte(s, r - B + i)
        BY <1>10, <1>12, <3>1, <4>1, Zenon
      <4> QED BY <1>15, <1>16, <4>1, <4>2, Zenon
    <3> QED BY <3>2, <3>3
  <2> QED BY <1>12, <1>15, <1>16, <2>1, <2>2, <2>3, <2>4, <2>5, <2>6, Added, Zenon
<1> QED BY <1>3, <1>5, <1>7, <1>11, <1>12, <1>14, <1>17, <1>b, Zenon DEF CapCopied

\* What a read finds, and the buffer after it.
LEMMA Filled ==
  ASSUME CapTypeOK, NEW s \in CapStreams
  PROVE  /\ CapCount(s) \in 0 .. CapChunk /\ capRead[s] \in Nat /\ capWritten[s] \in Nat
         /\ capRead[s] + CapCount(s) <= capWritten[s]
         /\ CapCount(s) # CapChunk => capRead[s] + CapCount(s) = capWritten[s]
         /\ CapFilled(s) = [i \in 1 .. CapSize |->
                              IF i <= CapCount(s) THEN CapByte(s, capRead[s] + i)
                                                  ELSE capBuffer[i]]
         /\ CapCount(s) = 0 => CapFilled(s) = capBuffer
<1>1. PICK r \in Nat : r = capRead[s]
  BY DEF CapTypeOK
<1>2. PICK w \in Nat : w = capWritten[s]
  BY DEF CapTypeOK
<1>3. r <= w
  <2>1. PICK a \in 0 .. CapMaxTotal : a = capTotal[s]
    BY DEF CapTypeOK
  <2>2. r <= w /\ w <= a
    BY <1>1, <1>2, <2>1, Zenon DEF CapTypeOK
  <2> QED BY <2>1, <2>2, CapAssumption
<1>4. PICK n : n = CapCount(s)
  OBVIOUS
<1>5. n = IF w - r < CapChunk THEN w - r ELSE CapChunk
  BY <1>1, <1>2, <1>4, Zenon DEF CapCount
<1>6. n \in 0 .. CapChunk /\ r + n <= w /\ (n # CapChunk => r + n = w)
  BY <1>3, <1>5, CapAssumption
<1>7. DOMAIN capBuffer = 1 .. CapSize /\ capBuffer = [i \in 1 .. CapSize |-> capBuffer[i]]
  BY DEF CapTypeOK
<1>8. CapFilled(s) = [i \in 1 .. CapSize |->
                        IF i <= n THEN CapByte(s, r + i) ELSE capBuffer[i]]
  <2>1. PICK h : h = CapBytes(s, r + 1, r + n)
    OBVIOUS
  <2>2. \A i \in 1 .. n : h[i] = CapByte(s, r + i)
    <3>1. r + 1 \in Nat \ {0} /\ n \in Nat /\ (r + 1) + n - 1 = r + n
      BY <1>6
    <3>2. \A i \in 1 .. n : CapBytes(s, r + 1, (r + 1) + n - 1)[i] = CapByte(s, (r + 1) + i - 1)
      BY <3>1, Bytes, Zenon
    <3>3. \A i \in 1 .. n : (r + 1) + i - 1 = r + i
      BY <1>6
    <3> QED BY <2>1, <3>1, <3>2, <3>3, Zenon
  <2>3. CapFilled(s) = [i \in 1 .. CapSize |-> IF i <= n THEN h[i] ELSE capBuffer[i]]
    BY <1>1, <1>4, <1>7, <2>1, Zenon DEF CapFilled
  <2>4. ASSUME NEW i \in 1 .. CapSize
        PROVE  (IF i <= n THEN h[i] ELSE capBuffer[i]) =
               (IF i <= n THEN CapByte(s, r + i) ELSE capBuffer[i])
    <3>1. CASE i <= n
      <4>1. i \in 1 .. n
        BY <1>6, <3>1
      <4> QED BY <2>2, <4>1, Zenon
    <3>2. CASE ~ i <= n
      BY <3>2, Zenon
    <3> QED BY <3>1, <3>2
  <2> QED BY <2>3, <2>4, Zenon
<1>9. ASSUME n = 0 PROVE CapFilled(s) = capBuffer
  <2>1. ASSUME NEW i \in 1 .. CapSize
        PROVE  (IF i <= n THEN CapByte(s, r + i) ELSE capBuffer[i]) = capBuffer[i]
    BY <1>9
  <2> QED BY <1>7, <1>8, <2>1, Zenon
<1> QED BY <1>1, <1>2, <1>3, <1>4, <1>6, <1>8, <1>9, Zenon

\* What a read loop does, in terms of the text it copies.
LEMMA Loop ==
  ASSUME CapTypeOK, NEW s \in CapStreams, NEW next, CapReadLoop(s, next)
  PROVE  /\ capParent = s /\ capBuffer' = CapFilled(s)
         /\ capRead' = [capRead EXCEPT ![s] = capRead[s] + CapCount(s)]
         /\ \/ capText' = capText /\ CapCount(s) = 0 /\ capParent' = next
            \/ /\ capText' = [capText EXCEPT ![s] =
                                capText[s] \o SubSeq(CapFilled(s), 1, CapStrlen(CapFilled(s)))]
               /\ \/ capChild = "none" /\ capParent' = next
                  \/ CapCount(s) # 0 /\ capParent' = s
         /\ UNCHANGED <<capTotal, capWritten, capChild, capFds, capStatus>>
<1>1. CapCount(s) > 0 => CapCount(s) # 0
  OBVIOUS
<1>2. CapReadLoop(s, next)
  OBVIOUS
<1> QED BY <1>1, <1>2, Zenon DEF CapReadLoop

\* A round of a read loop keeps all of the invariant.
LEMMA ReadKeeps ==
  ASSUME CapIInv, NEW s \in CapStreams, NEW next, CapReadLoop(s, next),
         \/ s = "out" /\ next = "err"
         \/ s = "err" /\ next = "finish"
  PROVE  CapIInv'
<1>1. CapTypeOK /\ CapOrder /\ CapBufferOK /\ CapSoFar
  BY DEF CapIInv
<1>2. PICK r \in Nat : r = capRead[s]
  BY <1>1, Filled
<1>3. PICK w \in Nat : w = capWritten[s]
  BY <1>1, Filled
<1>4. PICK n \in 0 .. CapChunk : n = CapCount(s)
  BY <1>1, Filled
<1>5. PICK f : f = CapFilled(s)
  OBVIOUS
<1>6. /\ r + n <= w /\ (n # CapChunk => r + n = w)
      /\ f = [i \in 1 .. CapSize |-> IF i <= n THEN CapByte(s, r + i) ELSE capBuffer[i]]
      /\ (n = 0 => f = capBuffer)
  BY <1>1, <1>2, <1>3, <1>4, <1>5, Filled, Zenon
<1>7. /\ capParent = s /\ capBuffer' = f
      /\ capRead' = [capRead EXCEPT ![s] = r + n]
      /\ \/ capText' = capText /\ n = 0 /\ capParent' = next
         \/ /\ capText' = [capText EXCEPT ![s] = capText[s] \o SubSeq(f, 1, CapStrlen(f))]
            /\ (capChild = "none" /\ capParent' = next) \/ (n # 0 /\ capParent' = s)
      /\ UNCHANGED <<capTotal, capWritten, capChild, capFds, capStatus>>
  BY <1>1, <1>2, <1>4, <1>5, Loop, Zenon
<1>8. capChild = "none" => w = 0
  BY <1>1, <1>3, Zenon DEF CapOrder
<1>9. capChild = "none" => n = 0 /\ r = 0
  BY <1>6, <1>8
<1>10. PICK k \in 0 .. CapSize - 1 : CapEnds(capBuffer, k)
  BY <1>1, Zenon DEF CapBufferOK
<1>11. capBuffer \in [1 .. CapSize -> Int] /\ capText \in [CapStreams -> Seq(Int)]
       /\ capRead \in [CapStreams -> Nat] /\ capWritten \in [CapStreams -> Nat]
  BY <1>1, Zenon DEF CapTypeOK
<1>12. capText[s] \in Seq(Int) /\ CapIs(s, capText[s], CapExpected(s, r))
  BY <1>1, <1>2, <1>11, Zenon DEF CapSoFar
\* What the round leaves in the buffer and adds to the text.
<1>13. /\ f \in [1 .. CapSize -> Int]
       /\ \E z \in 0 .. CapSize - 1 : CapEnds(f, z)
       /\ capText' \in [CapStreams -> Seq(Int)]
       /\ CapIs(s, capText'[s], CapExpected(s, r + n))
       /\ \A x \in CapStreams : x # s => capText'[x] = capText[x]
  <2>1. CASE n = 0 /\ capText' = capText
    <3>1. r + n = r
      BY <2>1
    <3> QED BY <1>6, <1>10, <1>11, <1>12, <2>1, <3>1, Zenon
  <2>2. ASSUME capText' # capText \/ n # 0
        PROVE  capText' = [capText EXCEPT ![s] = capText[s] \o SubSeq(f, 1, CapStrlen(f))]
    BY <1>7, <2>2, Zenon
  <2>3. ASSUME NEW c \in Seq(Int), capText' = [capText EXCEPT ![s] = capText[s] \o c]
        PROVE  /\ capText' \in [CapStreams -> Seq(Int)]
               /\ capText'[s] = capText[s] \o c
               /\ \A x \in CapStreams : x # s => capText'[x] = capText[x]
    <3>1. capText[s] \o c \in Seq(Int)
      BY <1>12
    <3> QED BY <1>11, <2>3, <3>1, Zenon
  <2>4. CASE n = 0 /\ capText' # capText
    <3>1. capChild = "none" /\ r = 0 /\ f = capBuffer
      BY <1>6, <1>7, <1>9, <2>4, Zenon
    <3>2. CapStrlen(f) = k
      BY <1>10, <1>11, <3>1, Strlen, Zenon
    <3>3. CapFree(s, f)
      BY <1>1, <1>2, <3>1, Zenon DEF CapBufferOK
    <3>4. PICK c : c = SubSeq(f, 1, k)
      OBVIOUS
    <3>5. PICK S \in Nat : S = CapSize
      BY CapAssumption DEF CapSize
    <3>6. k \in 0 .. S /\ f \in [1 .. S -> Int]
      BY <1>11, <3>1, <3>5
    <3>7. c \in Seq(Int) /\ Len(c) = k /\ \A i \in 1 .. k : c[i] = f[i]
      <4>1. /\ SubSeq(f, 1, k) \in Seq(Int) /\ Len(SubSeq(f, 1, k)) = k
            /\ \A i \in 1 .. k : SubSeq(f, 1, k)[i] = f[i]
        BY <3>6, Front
      <4> QED BY <3>4, <4>1, Zenon
    <3>8. PICK e : e = CapExpected(s, r)
      OBVIOUS
    <3>9. e \in Seq(Int) /\ Len(e) = 0
      <4>1. r = CapChunk * 0 /\ 0 \in 0 .. CapChunk /\ 0 \in Nat /\ r + 0 = r
        BY <3>1, CapAssumption
      <4>2. CapRound(s, r, 0, 0)
        BY <4>1, Expected
      <4>3. e \in Seq(Int) /\ Len(e) = r + 0
        BY <3>8, <4>1, <4>2, Zenon DEF CapRound
      <4> QED BY <3>1, <4>3
    <3>10. CapIs(s, capText[s] \o c, e)
      <4>1. CapIs(s, capText[s], e)
        BY <1>12, <3>8, Zenon
      <4>2. \A i \in 1 .. Len(c) : c[i] \in CapOwn(s) <=> i <= 0
        <5>1. ASSUME NEW i \in 1 .. k PROVE c[i] \notin CapOwn(s) /\ ~ i <= 0
          <6>1. i \in 1 .. CapSize
            BY <3>5, <3>6
          <6>2. c[i] \notin CapOwn(s)
            BY <3>3, <3>7, <6>1, Zenon DEF CapFree
          <6>3. ~ i <= 0
            OBVIOUS
          <6> QED BY <6>2, <6>3
        <5> QED BY <3>7, <5>1, Zenon
      <4>3. 0 \in 0 .. Len(c) /\ Len(e) = Len(e) + 0
        BY <3>7, <3>9
      <4>4. (\A i \in 1 .. Len(e) : e[i] = e[i]) /\ \A i \in 1 .. 0 : e[Len(e) + i] = c[i]
        OBVIOUS
      <4> QED BY <1>12, <3>7, <3>9, <4>1, <4>2, <4>3, <4>4, Added, Zenon
    <3>11. capText' = [capText EXCEPT ![s] = capText[s] \o c]
      BY <2>2, <2>4, <3>2, <3>4, Zenon
    <3>12. r + n = r
      BY <2>4
    <3> QED BY <1>10, <1>11, <2>3, <3>1, <3>7, <3>8, <3>10, <3>11, <3>12, Zenon
  <2>5. CASE n # 0
    <3>1. n \in 1 .. CapChunk /\ r < w
      BY <1>6, <2>5
    <3>2. PICK q \in Nat : CapHolds(s, capBuffer, r, q)
      BY <1>1, <1>2, <1>3, <1>7, <3>1, Zenon DEF CapBufferOK
    <3>3. PICK b \in [1 .. CapSize -> Int] : b = capBuffer
      BY <1>11, Zenon
    <3>4. PICK t \in Seq(Int) : t = capText[s]
      BY <1>12, Zenon
    <3>7. f \in [1 .. CapSize -> Int] /\ CapCopied(s, t, f, CapExpected(s, r + n))
      <4>1. CapEnds(b, k) /\ CapHolds(s, b, r, q) /\ CapIs(s, t, CapExpected(s, r))
        BY <1>10, <1>12, <3>2, <3>3, <3>4, Zenon
      <4>2. f = CapOver(s, r, n, b)
        BY <1>6, <3>3, Zenon DEF CapOver
      <4> QED BY <3>1, <4>1, <4>2, Round
    <3>8. PICK z \in 0 .. CapSize - 1 :
               /\ CapEnds(f, z) /\ SubSeq(f, 1, z) \in Seq(Int)
               /\ CapIs(s, capText[s] \o SubSeq(f, 1, z), CapExpected(s, r + n))
      BY <3>4, <3>7, Zenon DEF CapCopied
    <3>5. CapStrlen(f) = z
      BY <3>7, <3>8, Strlen, Zenon
    <3>6. capText' = [capText EXCEPT ![s] = capText[s] \o SubSeq(f, 1, z)]
      BY <2>2, <2>5, <3>5, Zenon
    <3> QED BY <2>3, <3>6, <3>7, <3>8, Zenon
  <2> QED BY <2>1, <2>4, <2>5, Zenon
<1>14. /\ capRead' \in [CapStreams -> Nat] /\ capRead'[s] = r + n
       /\ \A x \in CapStreams : x # s => capRead'[x] = capRead[x]
  <2>1. r + n \in Nat
    BY <1>4
  <2> QED BY <1>7, <1>11, <2>1, Zenon
<1>15. CapTypeOK'
  <2>1. \A x \in CapStreams : capRead'[x] <= capWritten'[x] /\ capWritten'[x] <= capTotal'[x]
    BY <1>1, <1>3, <1>6, <1>7, <1>14, Zenon DEF CapTypeOK
  <2> QED BY <1>1, <1>7, <1>11, <1>13, <1>14, <2>1, Zenon DEF CapTypeOK
<1>16. capParent' = s \/ (capParent' = next /\ r + n = w)
  <2>1. capParent' = next => n = 0
    BY <1>7, <1>9, CapAssumption
  <2>2. n = 0 => r + n = w
    BY <1>6, CapAssumption
  <2> QED BY <1>7, <2>1, <2>2, Zenon
<1>17. CapOrder'
  <2>1. CASE s = "out"
    BY <1>1, <1>3, <1>7, <1>14, <1>16, <2>1 DEF CapOrder, CapStreams
  <2>2. CASE s = "err"
    BY <1>1, <1>3, <1>7, <1>14, <1>16, <2>2 DEF CapOrder, CapStreams
  <2> QED BY <2>1, <2>2 DEF CapStreams
<1>18. CapBufferOK'
  <2>1. \E z \in 0 .. CapSize - 1 : CapEnds(capBuffer', z)
    BY <1>7, <1>13, Zenon
  <2>2. ASSUME NEW i \in 1 .. n PROVE r + i \in Nat \ {0}
    BY <1>6
  <2>3. ASSUME NEW x \in CapStreams, capRead'[x] = 0 PROVE CapFree(x, f)
    <3>1. ASSUME NEW i \in 1 .. CapSize PROVE f[i] \notin CapOwn(x)
      <4>1. capBuffer[i] \notin CapOwn(x)
        <5>1. capRead[x] = 0
          BY <1>2, <1>4, <1>14, <2>3
        <5> QED BY <1>1, <5>1, Zenon DEF CapBufferOK, CapFree
      <4>2. CASE i <= n
        <5>1. f[i] = CapByte(s, r + i) /\ i \in 1 .. n
          BY <1>6, <4>2
        <5>2. x # s
          BY <1>14, <2>3, <5>1
        <5> QED BY <2>2, <5>1, <5>2, Owned, Zenon
      <4>3. CASE ~ i <= n
        BY <1>6, <4>1, <4>3
      <4> QED BY <4>2, <4>3
    <3> QED BY <3>1, Zenon DEF CapFree
  <2>4. ASSUME NEW x \in CapStreams, capParent' = x, capRead'[x] < capWritten'[x]
        PROVE  \E q \in Nat : CapHolds(x, f, capRead'[x], q)
    <3>1. CASE x # s
      <4>1. x = "err" /\ s = "out"
        BY <1>16, <2>4, <3>1, Zenon DEF CapStreams
      <4>2. capRead'[x] = 0
        BY <1>1, <1>7, <1>14, <3>1, <4>1 DEF CapOrder
      <4>3. CapFree(x, f) /\ 0 = CapChunk * 0 /\ 0 \in Nat
        BY <2>3, <4>2, CapAssumption
      <4>4. CapHolds(x, f, 0, 0)
        BY <4>3, Zenon DEF CapHolds
      <4> QED BY <4>2, <4>3, <4>4, Zenon
    <3>2. CASE x = s
      <4>1. n = CapChunk /\ r < w
        BY <1>6, <1>7, <1>3, <1>14, <2>4, <3>2, CapAssumption
      <4>2. PICK q \in Nat : CapHolds(s, capBuffer, r, q)
        BY <1>1, <1>2, <1>3, <1>7, <4>1, Zenon DEF CapBufferOK
      <4>3. PICK p \in Nat : p = q + 1
        OBVIOUS
      <4>4. r = CapChunk * q
        BY <4>2, Zenon DEF CapHolds
      <4>5. r + n = CapChunk * p /\ p # 0
        BY <4>1, <4>3, <4>4, CapAssumption
      <4>6. ASSUME NEW i \in 1 .. CapSize
            PROVE  IF i <= CapChunk THEN f[i] = CapByte(s, (r + n) - CapChunk + i)
                                    ELSE f[i] \notin CapOwn(s)
        <5>1. CASE i <= CapChunk
          <6>1. (r + n) - CapChunk + i = r + i
            BY <4>1, CapAssumption
          <6>2. f[i] = CapByte(s, r + i)
            BY <1>6, <4>1, <5>1, Zenon
          <6> QED BY <5>1, <6>1, <6>2, Zenon
        <5>2. CASE ~ i <= CapChunk
          <6>1. capBuffer[i] \notin CapOwn(s)
            BY <4>2, <5>2, Zenon DEF CapHolds, CapFree
          <6>2. f[i] = capBuffer[i]
            BY <1>6, <4>1, <5>2, Zenon
          <6> QED BY <5>2, <6>1, <6>2, Zenon
        <5> QED BY <5>1, <5>2
      <4>7. CapHolds(s, f, r + n, p)
        BY <4>5, <4>6, Zenon DEF CapHolds
      <4> QED BY <1>14, <3>2, <4>7, Zenon
    <3> QED BY <3>1, <3>2
  <2> QED BY <1>7, <2>1, <2>3, <2>4, Zenon DEF CapBufferOK
<1>19. CapSoFar'
  <2>1. ASSUME NEW x \in CapStreams PROVE CapIs(x, capText'[x], CapExpected(x, capRead'[x]))
    BY <1>1, <1>13, <1>14, Zenon DEF CapSoFar
  <2> QED BY <2>1, Zenon DEF CapSoFar
<1> QED BY <1>15, <1>17, <1>18, <1>19, Zenon DEF CapIInv

\* Buffer and text stay right while nothing is read.
LEMMA NothingRead ==
  ASSUME CapIInv, UNCHANGED <<capBuffer, capRead, capText>>,
         \A s \in CapStreams :
           capParent' = s /\ capRead[s] < capWritten'[s] =>
             \/ capParent = s /\ capWritten' = capWritten
             \/ capRead[s] = 0
  PROVE  CapBufferOK' /\ CapSoFar'
<1>1. CapBufferOK /\ CapSoFar
  BY DEF CapIInv
<1>2. CapSoFar'
  BY <1>1, Zenon DEF CapSoFar
<1>3. ASSUME NEW s \in CapStreams, capParent' = s, capRead[s] < capWritten'[s]
      PROVE  \E q \in Nat : CapHolds(s, capBuffer, capRead[s], q)
  <2>1. CASE capParent = s /\ capWritten' = capWritten
    BY <1>1, <1>3, <2>1, Zenon DEF CapBufferOK
  <2>2. CASE capRead[s] = 0
    <3>1. 0 = CapChunk * 0 /\ 0 \in Nat
      BY CapAssumption
    <3>2. CapFree(s, capBuffer)
      BY <1>1, <2>2, Zenon DEF CapBufferOK
    <3>3. CapHolds(s, capBuffer, 0, 0)
      BY <3>1, <3>2, Zenon DEF CapHolds
    <3> QED BY <2>2, <3>1, <3>3, Zenon
  <2> QED BY <1>3, <2>1, <2>2, Zenon
<1>4. capBuffer' = capBuffer /\ capRead' = capRead
  BY Zenon
<1>5. CapBufferOK'
  BY <1>1, <1>3, <1>4, Zenon DEF CapBufferOK
<1> QED BY <1>2, <1>5

\* The invariant holds initially.
LEMMA CapStarts == CapInit => CapIInv
<1> SUFFICES ASSUME CapInit PROVE CapIInv
  OBVIOUS
<1>1. PICK g \in 0 .. CapMaxGarbage :
        capBuffer = [i \in 1 .. CapSize |-> IF i <= g THEN -1 ELSE 0]
  BY Zenon DEF CapInit, CapSize
<1>2. capBuffer \in [1 .. CapSize -> Int]
      /\ \A i \in 1 .. CapSize : capBuffer[i] = IF i <= g THEN -1 ELSE 0
  BY <1>1
<1>3. CapTypeOK
  BY <1>2, CapAssumption DEF CapInit, CapTypeOK
<1>4. CapOrder
  BY DEF CapInit, CapOrder, CapStreams
<1>5. CapBufferOK
  <2>1. g \in 0 .. CapSize - 1 /\ CapEnds(capBuffer, g)
    BY <1>2, CapAssumption DEF CapEnds, CapSize
  <2>2. ASSUME NEW s \in CapStreams PROVE CapFree(s, capBuffer)
    <3>1. -1 \notin CapOwn(s) /\ 0 \notin CapOwn(s)
      BY DEF CapOwn
    <3> QED BY <1>2, <3>1, Zenon DEF CapFree
  <2>3. capParent \notin CapStreams
    BY DEF CapInit, CapStreams
  <2> QED BY <2>1, <2>2, <2>3, Zenon DEF CapBufferOK
<1>6. ASSUME NEW s \in CapStreams PROVE CapIs(s, capText[s], CapExpected(s, capRead[s]))
  <2>1. capText[s] = <<>> /\ capRead[s] = 0
    BY DEF CapInit
  <2>2. CapPlaces(s, <<>>) = {}
    BY DEF CapPlaces
  <2>3. Len(CapExpected(s, 0)) = 0
    <3>1. 0 = CapChunk * 0 /\ 0 \in 0 .. CapChunk /\ 0 \in Nat /\ 0 + 0 = 0
      BY CapAssumption
    <3>2. CapRound(s, 0, 0, 0)
      BY <3>1, Expected
    <3> QED BY <3>1, <3>2, Zenon DEF CapRound
  <2>4. CapIs(s, <<>>, CapExpected(s, 0))
    BY <2>2, <2>3, FS_EmptySet, Zenon DEF CapIs
  <2> QED BY <2>1, <2>4, Zenon
<1> QED BY <1>3, <1>4, <1>5, <1>6, Zenon DEF CapIInv, CapSoFar

\* The other actions leave the buffer and the text alone.
LEMMA CapOthersKeep ==
  ASSUME CapIInv, CapNext, ~ CapReadLoop("out", "err"), ~ CapReadLoop("err", "finish")
  PROVE  CapIInv'
<1>1. CapTypeOK /\ CapOrder
  BY DEF CapIInv
<1> USE DEF CapStreams, CapEnded
<1>2. ASSUME NEW here, NEW p, NEW next, CapPipe(here, p, next),
             here \in {"pipe_in", "pipe_out", "pipe_err"},
             next \in {"pipe_out", "pipe_err", "fork"}
      PROVE  CapIInv'
  <2>1. /\ capParent = here /\ capParent' \in {next, "returned"}
        /\ (capParent' = "returned" => capFds' = {})
        /\ UNCHANGED <<capTotal, capWritten, capChild, capRead, capBuffer, capText, capStatus>>
    BY <1>2 DEF CapPipe
  <2>2. CapTypeOK'
    BY <1>1, <2>1, Zenon DEF CapTypeOK
  <2>3. CapOrder'
    BY <1>1, <1>2, <2>1 DEF CapOrder
  <2>4. capParent' \notin CapStreams
    BY <1>2, <2>1
  <2>5. CapBufferOK' /\ CapSoFar'
    BY <2>1, <2>4, NothingRead, Zenon
  <2> QED BY <2>2, <2>3, <2>5, Zenon DEF CapIInv
<1>3. CASE CapFork
  <2>1. /\ capParent = "fork" /\ capParent' = "wait" /\ capChild' \in {"exec", capChild}
        /\ UNCHANGED <<capTotal, capWritten, capRead, capBuffer, capText, capStatus>>
    BY <1>3 DEF CapFork
  <2>2. CapTypeOK'
    BY <1>1, <2>1, Zenon DEF CapTypeOK
  <2>3. CapOrder'
    BY <1>1, <2>1 DEF CapOrder
  <2>4. capParent' \notin CapStreams
    BY <2>1
  <2>5. CapBufferOK' /\ CapSoFar'
    BY <2>1, <2>4, NothingRead, Zenon
  <2> QED BY <2>2, <2>3, <2>5, Zenon DEF CapIInv
<1>4. CASE CapWait
  <2>1. /\ capParent = "wait" /\ capParent' = "out" /\ capChild \in CapEnded \cup {"none"}
        /\ UNCHANGED <<capTotal, capWritten, capChild, capRead, capBuffer, capText, capStatus>>
    BY <1>4 DEF CapWait, CapWaitGoesOn
  <2>2. CapTypeOK'
    BY <1>1, <2>1, Zenon DEF CapTypeOK
  <2>3. CapOrder'
    BY <1>1, <2>1 DEF CapOrder
  <2>4. \A s \in CapStreams : capParent' = s => capRead[s] = 0
    BY <1>1, <2>1 DEF CapOrder
  <2>5. CapBufferOK' /\ CapSoFar'
    BY <2>1, <2>4, NothingRead, Zenon
  <2> QED BY <2>2, <2>3, <2>5, Zenon DEF CapIInv
<1>5. CASE CapFinish
  <2>1. /\ capParent = "finish" /\ capParent' = "returned" /\ capFds' = {}
        /\ (capStatus' # 0 => capChild = "exit_2")
        /\ UNCHANGED <<capTotal, capWritten, capChild, capRead, capBuffer, capText>>
    BY <1>5 DEF CapFinish
  <2>2. CapTypeOK'
    BY <1>1, <2>1, Zenon DEF CapTypeOK
  <2>3. CapOrder'
    BY <1>1, <2>1 DEF CapOrder
  <2>4. capParent' \notin CapStreams
    BY <2>1
  <2>5. CapBufferOK' /\ CapSoFar'
    BY <2>1, <2>4, NothingRead, Zenon
  <2> QED BY <2>2, <2>3, <2>5, Zenon DEF CapIInv
<1>6. ASSUME NEW to \in {"running"} \cup CapEnded, CapChildGoes(to),
             capChild \in {"exec", "running"}
      PROVE  CapIInv'
  <2>1. /\ capChild' = to
        /\ UNCHANGED <<capTotal, capWritten, capParent, capFds, capRead, capBuffer,
                       capText, capStatus>>
    BY <1>6 DEF CapChildGoes
  <2>2. CapTypeOK'
    BY <1>1, <1>6, <2>1, Zenon DEF CapTypeOK
  <2>3. capParent = "wait"
    BY <1>1, <1>6 DEF CapOrder
  <2>4. CapOrder'
    BY <1>1, <1>6, <2>1, <2>3 DEF CapOrder
  <2>5. CapBufferOK' /\ CapSoFar'
    BY <2>1, NothingRead, Zenon
  <2> QED BY <2>2, <2>4, <2>5, Zenon DEF CapIInv
<1>7. ASSUME NEW s \in CapStreams, CapWrite(s) PROVE CapIInv'
  <2>1. /\ capChild = "running" /\ capWritten[s] < capTotal[s]
        /\ capWritten' = [capWritten EXCEPT ![s] = capWritten[s] + 1]
        /\ UNCHANGED <<capTotal, capChild, capParent, capFds, capRead, capBuffer,
                       capText, capStatus>>
    BY <1>7, Zenon DEF CapWrite
  <2>2. capParent = "wait"
    BY <1>1, <2>1 DEF CapOrder
  <2>3. PICK w \in Nat, r \in Nat, a \in Nat :
          w = capWritten[s] /\ r = capRead[s] /\ a = capTotal[s]
    <3>1. capTotal[s] \in 0 .. CapMaxTotal
      BY <1>1, Zenon DEF CapTypeOK
    <3>2. capTotal[s] \in Nat
      BY <3>1
    <3> QED BY <1>1, <3>2, Zenon DEF CapTypeOK
  <2>4. w + 1 \in Nat /\ w + 1 <= a /\ r <= w + 1
    <3>1. r <= w /\ w < a
      BY <1>1, <2>1, <2>3, Zenon DEF CapTypeOK
    <3> QED BY <3>1
  <2>5. CapTypeOK'
    <3>1. capWritten' \in [CapStreams -> Nat]
      BY <1>1, <2>1, <2>3, <2>4, Zenon DEF CapTypeOK
    <3>2. capWritten'[s] = w + 1 /\ \A x \in CapStreams : x # s => capWritten'[x] = capWritten[x]
      BY <1>1, <2>1, <2>3, Zenon DEF CapTypeOK
    <3>3. ASSUME NEW x \in CapStreams
          PROVE  capRead[x] <= capWritten'[x] /\ capWritten'[x] <= capTotal[x]
      BY <1>1, <2>3, <2>4, <3>2, Zenon DEF CapTypeOK
    <3> QED BY <1>1, <2>1, <3>1, <3>3, Zenon DEF CapTypeOK
  <2>6. CapOrder'
    BY <1>1, <2>1, <2>2 DEF CapOrder
  <2>7. capParent' \notin CapStreams
    BY <2>1, <2>2
  <2>8. CapBufferOK' /\ CapSoFar'
    BY <2>1, <2>7, NothingRead, Zenon
  <2> QED BY <2>5, <2>6, <2>8, Zenon DEF CapIInv
<1>8. CASE CapExec
  BY <1>6, <1>8 DEF CapExec
<1>9. CASE CapExit
  BY <1>6, <1>9 DEF CapExit
<1>10. CASE CapKill
  BY <1>6, <1>10 DEF CapKill
<1> QED
  BY <1>2, <1>3, <1>4, <1>5, <1>7, <1>8, <1>9, <1>10
     DEF CapNext, CapParentStep, CapChildStep

\* Every step keeps the invariant.
LEMMA CapInductive == CapSpec => []CapIInv
<1>1. CapIInv /\ [CapNext]_capVars => CapIInv'
  <2> SUFFICES ASSUME CapIInv, [CapNext]_capVars PROVE CapIInv'
    OBVIOUS
  <2>1. CASE CapReadLoop("out", "err")
    BY <2>1, ReadKeeps DEF CapStreams
  <2>2. CASE CapReadLoop("err", "finish")
    BY <2>2, ReadKeeps DEF CapStreams
  <2>3. CASE CapNext /\ ~ CapReadLoop("out", "err") /\ ~ CapReadLoop("err", "finish")
    BY <2>3, CapOthersKeep, Zenon
  <2>4. CASE UNCHANGED capVars
    BY <2>4, Zenon
       DEF CapIInv, CapTypeOK, CapOrder, CapBufferOK, CapSoFar, capVars
  <2> QED BY <2>1, <2>2, <2>3, <2>4, Zenon
<1> QED BY CapStarts, <1>1, PTL DEF CapSpec

\* When execute() returns, whichever call failed, all that the command wrote
\* has been captured in order, no pipe is left open, and a failure reported is
\* the command's own: CapResult, for every size of the reads, of the pipes and
\* of the garbage in the buffer.
THEOREM Captured == CapSpec => []CapResult
<1>1. CapIInv => CapResult
  <2> SUFFICES ASSUME CapIInv, capParent = "returned" PROVE CapResult
    BY Zenon DEF CapResult
  <2>1. CapOrder /\ CapSoFar /\ CapTypeOK
    BY DEF CapIInv
  <2>2. \A s \in CapStreams : capRead[s] = capWritten[s]
    BY <2>1 DEF CapOrder, CapStreams
  <2>3. CapCaptured
    BY <2>1, <2>2, Zenon DEF CapSoFar, CapCaptured, CapExpected
  <2>4. /\ capFds = {} /\ (capStatus # 0 => capChild = "exit_2")
        /\ capChild \in CapEnded \cup {"none"}
    BY <2>1 DEF CapOrder
  <2> QED BY <2>3, <2>4, Zenon DEF CapResult
<1> QED BY CapInductive, <1>1, PTL
=============================================================================
