-------------------------- MODULE BarAccess_proofs ---------------------------
(***************************************************************************)
(* Proofs about the splitting of an access to a BAR into bus transactions, *)
(* for BARs of every size, at every offset, for every width of the build.  *)
(*                                                                         *)
(* The invariant says how far the call has come: what has been issued      *)
(* covers the bytes up to the current address, and, where nothing may be   *)
(* read in advance, follows on without a gap.  That the transactions are   *)
(* aligned rests on the split point: no access before it ends beyond, and  *)
(* none after it begins before, a boundary that the access is aligned to.  *)
(***************************************************************************)
EXTENDS BarAccess, Arithmetic, SequenceTheorems

Po2Lens == {4, 8, 16, 32}

\* The bytes of the call may be read in advance, and read twice.
Ahead == op.read /\ Bar[op.bar].is_prefetchable

\* Index in the bounce buffer of the first byte.
First == op.offset % (IF Bar[op.bar].is_hprxm THEN 32 ELSE 4)

\* A call has passed the checks; it is over, but for the copy to the user.
Accepted == op.count > 0
Through == pc \in {"copy", "return"} /\ Accepted

CallOK ==
  /\ op.count <= 64 /\ op.offset + op.count <= Bar[op.bar].len
  /\ Granular(op.bar, op.read, op.offset, op.count)
  /\ addr + count + rest = op.offset + op.count
  /\ addr >= op.offset /\ data = First + (addr - op.offset)

\* Transaction t is one the IP behind BAR b takes, and stays in the buffer.
Fits(b, t) ==
  /\ t.at % t.len = 0
  /\ Bar[b].is_hprxm => t.len >= 4
  /\ t.at + t.len <= Bar[b].len
  /\ t.data + t.n <= BufferSize

AllFit(b, ts) == \A i \in 1 .. Len(ts) : Fits(b, ts[i])

\* Transaction t moves the byte at an address from or to a buffer index.
Carries(t, a, d) ==
  /\ t.data <= d /\ d < t.data + t.n
  /\ t.from + (d - t.data) = a
  /\ t.at <= a /\ a < t.at + t.len

\* The transactions move m bytes, from address a and buffer index d on.
Covers(ts, a, d, m) ==
  \A k \in 0 .. m - 1 : \E i \in 1 .. Len(ts) : Carries(ts[i], a + k, d + k)

\* The transactions follow one another from address a to address b.
Chain(ts, a, b) ==
  IF ts = <<>> THEN a = b
  ELSE /\ ts[1].at = a
       /\ \A i \in 1 .. Len(ts) - 1 : ts[i + 1].at = ts[i].at + ts[i].len
       /\ ts[Len(ts)].at + ts[Len(ts)].len = b

\* What follows is aligned: m bytes from a on, m bytes up to e.
AlignedFrom(a, m) == \A p \in Po2Lens : p <= m => a % p = 0
AlignedTo(e, m) == \A p \in Po2Lens : p <= m => e % p = 0

\* Where the call is.
Stage ==
  /\ pc \in {"prefetch", "hprxm", "rxm"} =>
       addr = op.offset /\ count = op.count /\ rest = 0 /\ trans = <<>>
  /\ pc = "prefetch" => Bar[op.bar].is_hprxm /\ Ahead
  /\ pc \in {"hprxm", "left", "right"} => Bar[op.bar].is_hprxm /\ ~Ahead
  /\ pc \in {"rxm", "rxm_mid"} => ~Bar[op.bar].is_hprxm
  /\ pc = "rxm_mid" => rest = 0 /\ (addr % 4 = 0 \/ (addr % 4) + count <= 4)
  /\ pc = "left" =>
       /\ po2 \in Po2Lens \cup {64} /\ count < 2 * po2
       /\ count % 4 = 0 /\ rest = 0
       /\ \A p \in Po2Lens : p <= po2 /\ p <= count => addr % p = 0
  /\ pc = "right" =>
       /\ po2 \in Po2Lens \cup {2, 64, 128, 256} /\ count % (po2 \div 2) = 0
       /\ count % 4 = 0 /\ rest % 4 = 0
       /\ AlignedTo(addr + count, count) /\ AlignedFrom(addr + count, rest)

\* When there is a call, and what it returned.
CallInv ==
  /\ pc \notin {"idle", "return"} => Accepted
  /\ pc = "idle" => ~Accepted /\ rest = 0
  /\ ~Accepted => trans = <<>>
  /\ ret > 0 => pc = "return" /\ Accepted /\ ret = op.count
  /\ Accepted => CallOK /\ Stage
  /\ Through /\ ~Ahead => addr = op.offset + op.count

\* What has been issued.
IssuedInv ==
  /\ AllFit(op.bar, trans)
  /\ Accepted => Covers(trans, op.offset, First,
                        IF Through THEN op.count ELSE addr - op.offset)
  /\ Accepted /\ ~Ahead => Chain(trans, op.offset, addr)

BarInv == TypeOK /\ CallInv /\ IssuedInv

-----------------------------------------------------------------------------
(* Series of transactions.                                                  *)

\* A series of transactions that moves n bytes, in order and with no gap.
Piece(b, ts, a, d, n) ==
  /\ ts \in Seq(Trans) /\ AllFit(b, ts)
  /\ Covers(ts, a, d, n) /\ Chain(ts, a, a + n)

\* What is said of two series in a row.
LEMMA JoinFits ==
  ASSUME NEW b, NEW s \in Seq(Trans), NEW t \in Seq(Trans), AllFit(b, s), AllFit(b, t)
  PROVE  s \o t \in Seq(Trans) /\ AllFit(b, s \o t)
<1>1. /\ s \o t \in Seq(Trans) /\ Len(s \o t) = Len(s) + Len(t)
      /\ Len(s) \in Nat /\ Len(t) \in Nat
      /\ \A i \in 1 .. Len(s) + Len(t) :
           (s \o t)[i] = IF i <= Len(s) THEN s[i] ELSE t[i - Len(s)]
  BY ConcatProperties, LenProperties
<1>2. ASSUME NEW i \in 1 .. Len(s \o t) PROVE Fits(b, (s \o t)[i])
  <2>1. CASE i <= Len(s)
    <3>1. i \in 1 .. Len(s) /\ (s \o t)[i] = s[i]
      BY <1>1, <2>1
    <3> QED BY <3>1 DEF AllFit
  <2>2. CASE i > Len(s)
    <3>1. i - Len(s) \in 1 .. Len(t) /\ (s \o t)[i] = t[i - Len(s)]
      BY <1>1, <2>2
    <3> QED BY <3>1 DEF AllFit
  <2> QED BY <1>1, <2>1, <2>2
<1> QED BY <1>1, <1>2 DEF AllFit

LEMMA JoinCovers ==
  ASSUME NEW s \in Seq(Trans), NEW t \in Seq(Trans), NEW a \in Nat, NEW d \in Nat,
         NEW m \in Nat, NEW n \in Nat,
         Covers(s, a, d, m), Covers(t, a + m, d + m, n)
  PROVE  Covers(s \o t, a, d, m + n)
<1>1. /\ Len(s \o t) = Len(s) + Len(t) /\ Len(s) \in Nat /\ Len(t) \in Nat
      /\ \A i \in 1 .. Len(s) + Len(t) :
           (s \o t)[i] = IF i <= Len(s) THEN s[i] ELSE t[i - Len(s)]
  BY ConcatProperties, LenProperties
<1> SUFFICES ASSUME NEW k \in 0 .. m + n - 1
             PROVE  \E i \in 1 .. Len(s \o t) : Carries((s \o t)[i], a + k, d + k)
  BY DEF Covers
<1>2. CASE k < m
  <2>1. PICK i \in 1 .. Len(s) : Carries(s[i], a + k, d + k)
    BY <1>2 DEF Covers
  <2>2. i \in 1 .. Len(s \o t) /\ (s \o t)[i] = s[i]
    BY <1>1, <2>1
  <2> QED BY <2>1, <2>2
<1>3. CASE k >= m
  <2>1. k - m \in 0 .. n - 1 /\ a + m + (k - m) = a + k /\ d + m + (k - m) = d + k
    BY <1>3
  <2>2. PICK i \in 1 .. Len(t) : Carries(t[i], a + m + (k - m), d + m + (k - m))
    BY <2>1 DEF Covers
  <2>3. Len(s) + i \in 1 .. Len(s \o t) /\ (s \o t)[Len(s) + i] = t[i]
    <3>1. /\ Len(s) + i \in 1 .. Len(s) + Len(t) /\ ~ (Len(s) + i <= Len(s))
          /\ Len(s) + i - Len(s) = i
      BY <1>1, <2>2
    <3>2. (s \o t)[Len(s) + i] = t[Len(s) + i - Len(s)]
      BY <1>1, <3>1
    <3> QED BY <1>1, <3>1, <3>2
  <2> QED BY <2>1, <2>2, <2>3
<1> QED BY <1>2, <1>3

LEMMA JoinChain ==
  ASSUME NEW s \in Seq(Trans), NEW t \in Seq(Trans), NEW x \in Nat, NEW y \in Nat,
         NEW z \in Nat, Chain(s, x, y), Chain(t, y, z)
  PROVE  Chain(s \o t, x, z)
<1>1. /\ s \o t \in Seq(Trans)
      /\ Len(s \o t) = Len(s) + Len(t) /\ Len(s) \in Nat /\ Len(t) \in Nat
      /\ \A i \in 1 .. Len(s) + Len(t) :
           (s \o t)[i] = IF i <= Len(s) THEN s[i] ELSE t[i - Len(s)]
  BY ConcatProperties, LenProperties
<1>2. CASE s = <<>>
  <2>1. s \o t = t /\ x = y
    BY <1>2, ConcatEmptySeq DEF Chain
  <2> QED BY <2>1
<1>3. CASE t = <<>>
  <2>1. s \o t = s /\ y = z
    BY <1>3, ConcatEmptySeq DEF Chain
  <2> QED BY <2>1
<1>4. CASE s # <<>> /\ t # <<>>
  <2>1. Len(s) >= 1 /\ Len(t) >= 1 /\ s \o t # <<>>
    BY <1>1, <1>4, EmptySeq
  <2>2. (s \o t)[1] = s[1] /\ (s \o t)[Len(s \o t)] = t[Len(t)]
    BY <1>1, <2>1
  <2>3. ASSUME NEW i \in 1 .. Len(s \o t) - 1
        PROVE  (s \o t)[i + 1].at = (s \o t)[i].at + (s \o t)[i].len
    <3>1. CASE i < Len(s)
      <4>1. i \in 1 .. Len(s) - 1 /\ (s \o t)[i] = s[i] /\ (s \o t)[i + 1] = s[i + 1]
        BY <1>1, <3>1
      <4> QED BY <1>4, <4>1 DEF Chain
    <3>2. CASE i = Len(s)
      <4>1. (s \o t)[i] = s[Len(s)] /\ (s \o t)[i + 1] = t[1]
        BY <1>1, <2>1, <3>2
      <4> QED BY <1>4, <4>1 DEF Chain
    <3>3. CASE i > Len(s)
      <4> DEFINE j == i - Len(s)
      <4>1. j \in 1 .. Len(t) - 1 /\ (s \o t)[i] = t[j] /\ (s \o t)[i + 1] = t[j + 1]
        BY <1>1, <3>3
      <4> QED BY <1>4, <4>1 DEF Chain
    <3> QED BY <1>1, <3>1, <3>2, <3>3
  <2> QED BY <1>4, <2>1, <2>2, <2>3 DEF Chain
<1> QED BY <1>2, <1>3, <1>4

LEMMA JoinPieces ==
  ASSUME NEW b, NEW s, NEW t, NEW a \in Nat, NEW d \in Nat, NEW m \in Nat, NEW n \in Nat,
         Piece(b, s, a, d, m), Piece(b, t, a + m, d + m, n)
  PROVE  Piece(b, s \o t, a, d, m + n)
<1>1. a + m \in Nat /\ a + (m + n) \in Nat /\ a + m + n = a + (m + n)
  OBVIOUS
<1>2. s \in Seq(Trans) /\ t \in Seq(Trans) /\ Chain(s, a, a + m)
      /\ Chain(t, a + m, a + (m + n))
  BY <1>1 DEF Piece
<1> QED BY <1>1, <1>2, JoinFits, JoinCovers, JoinChain DEF Piece

\* The width of one transaction divides the size and the address.
LEMMA Widths ==
  ASSUME BarAssumption, NEW n \in {1, 2, 4, 8, 16, 32, 64}, NEW a \in Nat,
         a % Least(n, 32) = 0
  PROVE  LET w == Least(n, Width)
         IN  /\ w \in {1, 2, 4, 8, 16, 32} /\ n \div w \in 1 .. 64
             /\ n = (n \div w) * w /\ a % w = 0 /\ (n >= 4 => w >= 4)
<1> DEFINE w == Least(n, Width)
<1>1. Width \in {4, 8, 16, 32}
  BY DEF BarAssumption
<1>2. /\ w \in {1, 2, 4, 8, 16, 32} /\ n \div w \in 1 .. 64
      /\ n = (n \div w) * w /\ (n >= 4 => w >= 4)
  BY <1>1 DEF Least
<1>3. a % w = 0
  BY <1>1 DEF Least
<1> QED BY <1>2, <1>3

\* custom_ioread256_x86 and its kin, for sizes that are powers of two.
LEMMA MovesPiece ==
  ASSUME BarAssumption, NEW b \in Bars, NEW n \in {1, 2, 4, 8, 16, 32, 64},
         NEW a \in Nat, NEW d \in Nat, a % Least(n, 32) = 0,
         Bar[b].is_hprxm => n >= 4, a + n <= Bar[b].len, d + n <= BufferSize
  PROVE  Piece(b, Moves(a, d, n), a, d, n)
<1> DEFINE w == Least(n, Width)
           q == n \div w
           e(i) == [at |-> a + (i - 1) * w, len |-> w, data |-> d + (i - 1) * w,
                    from |-> a + (i - 1) * w, n |-> w]
           ts == Moves(a, d, n)
<1>1. /\ w \in {1, 2, 4, 8, 16, 32} /\ q \in 1 .. 64
      /\ n = q * w /\ a % w = 0 /\ (n >= 4 => w >= 4)
  BY Widths
<1>2. Bar[b].len \in Nat
  BY DEF BarAssumption
<1> HIDE DEF w, q
<1>3. ts = [i \in 1 .. q |-> e(i)]
  BY DEF Moves, w, q
<1>4. ASSUME NEW i \in 1 .. q
      PROVE  /\ a + (i - 1) * w \in Nat /\ d + (i - 1) * w \in Nat
             /\ (a + (i - 1) * w) % w = 0 /\ (i - 1) * w + w <= n
  <2>1. CASE w = 1
    BY <1>1, <2>1
  <2>2. CASE w = 2
    BY <1>1, <2>2
  <2>3. CASE w = 4
    BY <1>1, <2>3
  <2>4. CASE w = 8
    BY <1>1, <2>4
  <2>5. CASE w = 16
    BY <1>1, <2>5
  <2>6. CASE w = 32
    BY <1>1, <2>6
  <2> QED BY <1>1, <2>1, <2>2, <2>3, <2>4, <2>5, <2>6
<1>5. ASSUME NEW i \in 1 .. q PROVE e(i) \in Trans
  BY <1>1, <1>4 DEF Trans
<1> HIDE DEF e
<1>6. ts \in Seq(Trans) /\ Len(ts) = q /\ \A i \in 1 .. q : ts[i] = e(i)
  <2>1. q \in Nat /\ ts \in [1 .. q -> Trans]
    BY <1>1, <1>3, <1>5
  <2>2. ts \in Seq(Trans)
    BY <2>1 DEF Seq
  <2>3. Len(ts) \in Nat /\ DOMAIN ts = 1 .. Len(ts) /\ DOMAIN ts = 1 .. q
    BY <2>1, <2>2, LenProperties
  <2> QED BY <1>1, <1>3, <2>2, <2>3
<1> HIDE DEF ts
<1>7. AllFit(b, ts)
  <2> SUFFICES ASSUME NEW i \in 1 .. q PROVE Fits(b, e(i))
    BY <1>6 DEF AllFit
  <2>1. /\ e(i).at = a + (i - 1) * w /\ e(i).len = w
        /\ e(i).data = d + (i - 1) * w /\ e(i).n = w
    BY DEF e
  <2>2. /\ (i - 1) * w + w <= n /\ (i - 1) * w \in Int /\ w \in Int
        /\ (a + (i - 1) * w) % w = 0
    BY <1>1, <1>4
  <2>3. Bar[b].is_hprxm => w >= 4
    BY <1>1
  <2>4. e(i).at + e(i).len <= Bar[b].len /\ e(i).data + e(i).n <= BufferSize
    BY <1>2, <2>1, <2>2 DEF BufferSize, BarAssumption
  <2> QED BY <2>1, <2>2, <2>3, <2>4 DEF Fits
<1>8. Covers(ts, a, d, n)
  <2> SUFFICES ASSUME NEW k \in 0 .. n - 1
               PROVE  \E i \in 1 .. q : Carries(e(i), a + k, d + k)
    BY <1>6 DEF Covers
  <2> DEFINE i == k \div w + 1
  <2>1. i \in 1 .. q /\ (i - 1) * w <= k /\ k < (i - 1) * w + w
    <3>1. CASE w = 1
      BY <1>1, <3>1
    <3>2. CASE w = 2
      BY <1>1, <3>2
    <3>3. CASE w = 4
      BY <1>1, <3>3
    <3>4. CASE w = 8
      BY <1>1, <3>4
    <3>5. CASE w = 16
      BY <1>1, <3>5
    <3>6. CASE w = 32
      BY <1>1, <3>6
    <3> QED BY <1>1, <3>1, <3>2, <3>3, <3>4, <3>5, <3>6
  <2> HIDE DEF i
  <2>2. /\ e(i).at = a + (i - 1) * w /\ e(i).len = w /\ e(i).from = a + (i - 1) * w
        /\ e(i).data = d + (i - 1) * w /\ e(i).n = w
    BY DEF e
  <2>3. (i - 1) * w \in Int /\ w \in Int
    BY <1>1, <2>1
  <2>4. Carries(e(i), a + k, d + k)
    BY <2>1, <2>2, <2>3 DEF Carries
  <2> QED BY <2>1, <2>4
<1>9. Chain(ts, a, a + n)
  <2>1. ts # <<>> /\ Len(ts) = q
    BY <1>1, <1>6, EmptySeq
  <2>2. ts[1].at = a
    <3>1. 1 \in 1 .. q /\ (1 - 1) * w = 0
      BY <1>1
    <3>2. ts[1].at = a + (1 - 1) * w
      <4>1. ts[1] = e(1)
        BY <1>6, <3>1
      <4> QED BY <4>1 DEF e
    <3> QED BY <3>1, <3>2
  <2>3. ASSUME NEW i \in 1 .. q - 1 PROVE ts[i + 1].at = ts[i].at + ts[i].len
    <3>1. i \in 1 .. q /\ i + 1 \in 1 .. q /\ (i + 1 - 1) * w = (i - 1) * w + w
      BY <1>1
    <3>2. /\ ts[i + 1].at = a + (i + 1 - 1) * w
          /\ ts[i].at = a + (i - 1) * w /\ ts[i].len = w
      <4>1. ts[i + 1] = e(i + 1) /\ ts[i] = e(i)
        BY <1>6, <3>1
      <4> QED BY <4>1 DEF e
    <3>3. (i - 1) * w \in Int /\ w \in Int
      BY <1>1
    <3> QED BY <3>1, <3>2, <3>3
  <2>4. ts[q].at + ts[q].len = a + n
    <3>1. q \in 1 .. q /\ (q - 1) * w + w = n /\ (q - 1) * w \in Int /\ w \in Int
      BY <1>1
    <3>2. ts[q].at = a + (q - 1) * w /\ ts[q].len = w
      <4>1. ts[q] = e(q)
        BY <1>6, <3>1
      <4> QED BY <4>1 DEF e
    <3> QED BY <3>1, <3>2
  <2> QED BY <2>1, <2>2, <2>3, <2>4 DEF Chain
<1> QED BY <1>6, <1>7, <1>8, <1>9 DEF Piece, ts

\* Up to a DWORD for an RXM: split where a pair would be misaligned.
LEMMA RxmPiece ==
  ASSUME BarAssumption, NEW b \in Bars, ~Bar[b].is_hprxm, NEW n \in 1 .. 4,
         NEW a \in Nat, NEW d \in Nat, n = 4 => a % 4 = 0,
         a + n <= Bar[b].len, d + n <= BufferSize
  PROVE  Piece(b, rxm_access_single(a, d, n), a, d, n)
<1>0. Bar[b].len \in Nat /\ BufferSize \in Nat
  BY DEF BarAssumption, BufferSize
<1>1. ASSUME NEW x \in Nat, NEW y \in Nat, NEW m \in {1, 2, 4}, x % m = 0,
             x + m <= Bar[b].len, y + m <= BufferSize
      PROVE  Piece(b, Moves(x, y, m), x, y, m)
  <2>1. x % Least(m, 32) = 0 /\ m \in {1, 2, 4, 8, 16, 32, 64}
    BY <1>1 DEF Least
  <2> QED BY <1>1, <2>1, MovesPiece
<1> DEFINE ts == rxm_access_single(a, d, n)
<1>2. CASE n = 2 /\ a % 2 = 1
  <2>1. ts = Moves(a, d, 1) \o Moves(a + 1, d + 1, 1)
    BY <1>2 DEF rxm_access_single
  <2>2. /\ a % 1 = 0 /\ (a + 1) % 1 = 0 /\ a + 1 \in Nat /\ d + 1 \in Nat
        /\ a + 1 + 1 <= Bar[b].len /\ a + 1 <= Bar[b].len
        /\ d + 1 + 1 <= BufferSize /\ d + 1 <= BufferSize
    BY <1>0, <1>2
  <2>3. Piece(b, Moves(a, d, 1), a, d, 1) /\ Piece(b, Moves(a + 1, d + 1, 1), a + 1, d + 1, 1)
    BY <1>1, <2>2
  <2>4. Piece(b, Moves(a, d, 1) \o Moves(a + 1, d + 1, 1), a, d, 1 + 1)
    BY <2>3, JoinPieces
  <2>5. n = 1 + 1
    BY <1>2
  <2> QED BY <2>1, <2>4, <2>5
<1>3. CASE n = 3 /\ a % 2 = 1
  <2>1. ts = Moves(a, d, 1) \o Moves(a + 1, d + 1, 2)
    BY <1>3 DEF rxm_access_single
  <2>2. /\ a % 1 = 0 /\ (a + 1) % 2 = 0 /\ a + 1 \in Nat /\ d + 1 \in Nat
        /\ a + 1 + 2 <= Bar[b].len /\ a + 1 <= Bar[b].len
        /\ d + 1 + 2 <= BufferSize /\ d + 1 <= BufferSize
    BY <1>0, <1>3
  <2>3. Piece(b, Moves(a, d, 1), a, d, 1) /\ Piece(b, Moves(a + 1, d + 1, 2), a + 1, d + 1, 2)
    BY <1>1, <2>2
  <2>4. Piece(b, Moves(a, d, 1) \o Moves(a + 1, d + 1, 2), a, d, 1 + 2)
    BY <2>3, JoinPieces
  <2>5. n = 1 + 2
    BY <1>3
  <2> QED BY <2>1, <2>4, <2>5
<1>4. CASE n = 3 /\ a % 2 = 0
  <2>1. ts = Moves(a, d, 2) \o Moves(a + 2, d + 2, 1)
    BY <1>4 DEF rxm_access_single
  <2>2. /\ a % 2 = 0 /\ (a + 2) % 1 = 0 /\ a + 2 \in Nat /\ d + 2 \in Nat
        /\ a + 2 + 1 <= Bar[b].len /\ a + 2 <= Bar[b].len
        /\ d + 2 + 1 <= BufferSize /\ d + 2 <= BufferSize
    BY <1>0, <1>4
  <2>3. Piece(b, Moves(a, d, 2), a, d, 2) /\ Piece(b, Moves(a + 2, d + 2, 1), a + 2, d + 2, 1)
    BY <1>1, <2>2
  <2>4. Piece(b, Moves(a, d, 2) \o Moves(a + 2, d + 2, 1), a, d, 2 + 1)
    BY <2>3, JoinPieces
  <2>5. n = 2 + 1
    BY <1>4
  <2> QED BY <2>1, <2>4, <2>5
<1>5. CASE n \in {1, 2, 4} /\ a % n = 0
  <2>1. ts = Moves(a, d, n)
    BY <1>5, SMTT(30) DEF rxm_access_single
  <2> QED BY <1>1, <1>5, <2>1
<1>6. a % 2 \in 0 .. 1 /\ a % 1 = 0 /\ n \in {1, 2, 3, 4}
  OBVIOUS
<1> QED BY <1>2, <1>3, <1>4, <1>5, <1>6

\* Part of a DWORD of a prefetchable RXM.
LEMMA ReadPiece ==
  ASSUME BarAssumption, NEW b \in Bars, ~Bar[b].is_hprxm, NEW n \in 1 .. 4,
         NEW a \in Nat, NEW d \in Nat, (a % 4) + n <= 4,
         a + n <= Bar[b].len, d + n <= BufferSize
  PROVE  LET ts == rxm_prefetchable_single_read(a, d, n)
         IN  ts \in Seq(Trans) /\ AllFit(b, ts) /\ Covers(ts, a, d, n)
<1> DEFINE t == [at |-> a - (a % 4), len |-> 4, data |-> d, from |-> a, n |-> n]
           ts == rxm_prefetchable_single_read(a, d, n)
<1>0. Bar[b].len \in Nat /\ Bar[b].len % 64 = 0 /\ BufferSize \in Nat
  BY DEF BarAssumption, BufferSize
<1>1. ts = <<t>> /\ t \in Trans
  BY DEF rxm_prefetchable_single_read, Trans
<1>2. Fits(b, t)
  BY <1>0 DEF Fits
<1>3. \A k \in 0 .. n - 1 : Carries(t, a + k, d + k)
  BY DEF Carries
<1> HIDE DEF t, ts
<1>4. ts \in Seq(Trans) /\ Len(ts) = 1 /\ ts[1] = t
  BY <1>1
<1>5. AllFit(b, ts) /\ Covers(ts, a, d, n)
  <2>1. 1 .. Len(ts) = {1}
    BY <1>4
  <2>2. AllFit(b, ts)
    BY <1>2, <1>4, <2>1 DEF AllFit
  <2>3. Covers(ts, a, d, n)
    BY <1>3, <1>4, <2>1 DEF Covers
  <2> QED BY <2>2, <2>3
<1> QED BY <1>4, <1>5 DEF ts

-----------------------------------------------------------------------------
(* Powers of two.                                                           *)

LEMMA MinIs ==
  ASSUME NEW S, S \subseteq Int, NEW m \in S, \A x \in S : m <= x
  PROVE  Min(S) = m
<1>1. \A y \in S : (\A x \in S : y <= x) => y = m
  OBVIOUS
<1>2. \E y \in S : \A x \in S : y <= x
  OBVIOUS
<1> QED BY <1>1, <1>2, Zenon DEF Min

LEMMA MaxIs ==
  ASSUME NEW S, S \subseteq Int, NEW m \in S, \A x \in S : m >= x
  PROVE  Max(S) = m
<1>1. \A y \in S : (\A x \in S : y >= x) => y = m
  OBVIOUS
<1>2. \E y \in S : \A x \in S : y >= x
  OBVIOUS
<1> QED BY <1>1, <1>2, Zenon DEF Max

LEMMA RoundUp ==
  ASSUME NEW n \in 1 .. 128
  PROVE  /\ round_up_to_po2(n) \in Po2s
         /\ n <= round_up_to_po2(n)
         /\ n > 1 => round_up_to_po2(n) < 2 * n /\ round_up_to_po2(n) > 1
         /\ \A p \in Po2s : n <= p => round_up_to_po2(n) <= p
<1> DEFINE S == {p \in Po2s : p >= n}
<1>1. ASSUME NEW m \in S, \A x \in S : m <= x PROVE round_up_to_po2(n) = m
  <2>1. S \subseteq Int
    BY DEF Po2s
  <2>2. Min(S) = m
    BY <1>1, <2>1, MinIs
  <2> QED BY <2>2 DEF round_up_to_po2
<1>2. PICK m \in S : (\A x \in S : m <= x) /\ (n > 1 => m < 2 * n /\ m > 1)
  <2>1. CASE n = 1
    <3>1. 1 \in S /\ \A x \in S : 1 <= x
      BY <2>1 DEF Po2s
    <3> QED BY <2>1, <3>1
  <2>2. CASE n = 2
    <3>1. 2 \in S /\ \A x \in S : 2 <= x
      BY <2>2 DEF Po2s
    <3> QED BY <2>2, <3>1
  <2>3. CASE n \in 3 .. 4
    <3>1. 4 \in S /\ \A x \in S : 4 <= x
      BY <2>3 DEF Po2s
    <3> QED BY <2>3, <3>1
  <2>4. CASE n \in 5 .. 8
    <3>1. 8 \in S /\ \A x \in S : 8 <= x
      BY <2>4 DEF Po2s
    <3> QED BY <2>4, <3>1
  <2>5. CASE n \in 9 .. 16
    <3>1. 16 \in S /\ \A x \in S : 16 <= x
      BY <2>5 DEF Po2s
    <3> QED BY <2>5, <3>1
  <2>6. CASE n \in 17 .. 32
    <3>1. 32 \in S /\ \A x \in S : 32 <= x
      BY <2>6 DEF Po2s
    <3> QED BY <2>6, <3>1
  <2>7. CASE n \in 33 .. 64
    <3>1. 64 \in S /\ \A x \in S : 64 <= x
      BY <2>7 DEF Po2s
    <3> QED BY <2>7, <3>1
  <2>8. CASE n \in 65 .. 128
    <3>1. 128 \in S /\ \A x \in S : 128 <= x
      BY <2>8 DEF Po2s
    <3> QED BY <2>8, <3>1
  <2> QED BY <2>1, <2>2, <2>3, <2>4, <2>5, <2>6, <2>7, <2>8
<1> QED BY <1>1, <1>2

\* The largest power of two that is not above n.
LEMMA RoundDown ==
  ASSUME NEW n \in 1 .. 128
  PROVE  \E m \in Po2s : /\ round_down_to_po2_mask(n) = m - 1 /\ m <= n
                         /\ \A p \in Po2s : p <= n => p <= m
<1> DEFINE S == {p \in Po2s : p <= n}
<1>1. PICK m \in S : \A x \in S : x <= m
  <2>1. CASE n = 1
    <3>1. 1 \in S /\ \A x \in S : x <= 1
      BY <2>1 DEF Po2s
    <3> QED BY <3>1
  <2>2. CASE n \in 2 .. 3
    <3>1. 2 \in S /\ \A x \in S : x <= 2
      BY <2>2 DEF Po2s
    <3> QED BY <3>1
  <2>3. CASE n \in 4 .. 7
    <3>1. 4 \in S /\ \A x \in S : x <= 4
      BY <2>3 DEF Po2s
    <3> QED BY <3>1
  <2>4. CASE n \in 8 .. 15
    <3>1. 8 \in S /\ \A x \in S : x <= 8
      BY <2>4 DEF Po2s
    <3> QED BY <3>1
  <2>5. CASE n \in 16 .. 31
    <3>1. 16 \in S /\ \A x \in S : x <= 16
      BY <2>5 DEF Po2s
    <3> QED BY <3>1
  <2>6. CASE n \in 32 .. 63
    <3>1. 32 \in S /\ \A x \in S : x <= 32
      BY <2>6 DEF Po2s
    <3> QED BY <3>1
  <2>7. CASE n \in 64 .. 127
    <3>1. 64 \in S /\ \A x \in S : x <= 64
      BY <2>7 DEF Po2s
    <3> QED BY <3>1
  <2>8. CASE n = 128
    <3>1. 128 \in S /\ \A x \in S : x <= 128
      BY <2>8 DEF Po2s
    <3> QED BY <3>1
  <2> QED BY <2>1, <2>2, <2>3, <2>4, <2>5, <2>6, <2>7, <2>8
<1>2. S \subseteq Int /\ \A x \in S : m >= x
  BY <1>1 DEF Po2s
<1>3. Max(S) = m
  BY <1>2, MaxIs
<1>4. round_down_to_po2_mask(n) = m - 1
  BY <1>3 DEF round_down_to_po2_mask
<1> QED BY <1>1, <1>4

\* A smaller power of two divides what a larger one does.
LEMMA Po2Divides ==
  ASSUME NEW p \in Po2s, NEW q \in Po2s, p <= q, NEW x \in Int, x % q = 0
  PROVE  x % p = 0
BY DEF Po2s

-----------------------------------------------------------------------------
(* Where an access to an HPRXM is split.                                    *)

\* How far an access that ends at end is shifted from o, and where that leads.
Jump(end, o) == round_up_to_po2(end - o) \div 2
Shifted(start, end, F, m) ==
  [o \in m .. end |-> IF Jump(end, o) < start - o THEN F[o + Jump(end, o)]
                      ELSE o + Jump(end, o)]

LEMMA JumpsForward ==
  ASSUME NEW start \in Nat, NEW end \in 1 .. 128, start < end, NEW o \in Nat, o < start
  PROVE  /\ Jump(end, o) \in 1 .. 64 /\ Jump(end, o) < end - o
         /\ 2 * Jump(end, o) = round_up_to_po2(end - o)
<1>1. end - o \in 2 .. 128
  OBVIOUS
<1>2. /\ round_up_to_po2(end - o) \in Po2s /\ round_up_to_po2(end - o) > 1
      /\ round_up_to_po2(end - o) < 2 * (end - o)
  BY <1>1, RoundUp
<1> HIDE DEF round_up_to_po2
<1> QED BY <1>1, <1>2 DEF Jump, Po2s

LEMMA JumpNatural ==
  ASSUME NEW end \in 1 .. 128, NEW o \in 0 .. end
  PROVE  Jump(end, o) \in Nat
<1>1. CASE o = end
  BY <1>1 DEF Jump, round_up_to_po2
<1>2. CASE o < end
  <2>1. end - o \in 1 .. 128
    BY <1>2
  <2> QED BY <2>1, RoundUp DEF Jump, Po2s
<1> QED BY <1>1, <1>2

LEMMA ShiftExists ==
  ASSUME NEW start \in Nat, NEW end \in 1 .. 128, start < end
  PROVE  \E F : F = Shifted(start, end, F, 0)
<1> DEFINE Missing == {j \in 0 .. end + 1 :
                         ~ \E F : F = Shifted(start, end, F, end + 1 - j)}
<1> SUFFICES ASSUME Missing # {} PROVE FALSE
  <2>1. end + 1 \in 0 .. end + 1 /\ end + 1 - (end + 1) = 0
    OBVIOUS
  <2> QED BY <2>1
<1>1. PICK j \in Missing : \A n \in Missing : j <= n
  <2>1. Missing \subseteq Nat
    OBVIOUS
  <2> HIDE DEF Missing
  <2> QED BY <2>1, LeastNatural
<1>2. j \in 0 .. end + 1 /\ ~ \E F : F = Shifted(start, end, F, end + 1 - j)
  OBVIOUS
<1>3. j # 0
  <2> SUFFICES ASSUME j = 0 PROVE FALSE
    OBVIOUS
  <2>1. end + 1 - j = end + 1 /\ (end + 1) .. end = {}
    OBVIOUS
  <2> DEFINE F == [o \in {} |-> 0]
  <2>2. F = Shifted(start, end, F, end + 1 - j)
    BY <2>1, Zenon DEF Shifted
  <2> QED BY <1>2, <2>2
<1> DEFINE m == end + 1 - j
<1>4. m \in 0 .. end /\ end + 1 - (j - 1) = m + 1 /\ j - 1 \in 0 .. end + 1
  BY <1>2, <1>3
<1>5. PICK G : G = Shifted(start, end, G, m + 1)
  <2>1. j - 1 \notin Missing
    BY <1>1, <1>2
  <2> QED BY <1>4, <2>1
<1> DEFINE next(o) == IF Jump(end, o) < start - o THEN G[o + Jump(end, o)]
                      ELSE o + Jump(end, o)
           F == [o \in m .. end |-> next(o)]
<1>6. \A o \in m + 1 .. end : G[o] = next(o)
  BY <1>5, Zenon DEF Shifted
<1>7. ASSUME NEW o \in m .. end
      PROVE  next(o) = IF Jump(end, o) < start - o THEN F[o + Jump(end, o)]
                       ELSE o + Jump(end, o)
  <2>1. CASE Jump(end, o) < start - o
    <3> DEFINE x == o + Jump(end, o)
    <3>1. o < start
      <4>1. o \in 0 .. end
        BY <1>4
      <4>2. Jump(end, o) \in Nat
        BY <4>1, JumpNatural
      <4> QED BY <2>1, <4>1, <4>2
    <3>2. x \in m + 1 .. end
      <4>1. o \in Nat
        BY <1>4
      <4>2. Jump(end, o) \in 1 .. 64 /\ Jump(end, o) < end - o
        BY <3>1, <4>1, JumpsForward
      <4> QED BY <1>4, <4>2
    <3>3. x \in m .. end
      BY <1>4, <3>2
    <3>4. F[x] = G[x]
      BY <1>6, <3>2, <3>3
    <3> QED BY <2>1, <3>4
  <2>2. CASE ~ (Jump(end, o) < start - o)
    BY <2>2
  <2> QED BY <2>1, <2>2
<1>8. F = Shifted(start, end, F, m)
  <2> DEFINE g(o) == IF Jump(end, o) < start - o THEN F[o + Jump(end, o)]
                     ELSE o + Jump(end, o)
  <2>1. \A o \in m .. end : next(o) = g(o)
    BY <1>7
  <2>2. Shifted(start, end, F, m) = [o \in m .. end |-> g(o)]
    BY DEF Shifted
  <2> HIDE DEF g, next
  <2>3. [o \in m .. end |-> next(o)] = [o \in m .. end |-> g(o)]
    BY <2>1
  <2> QED BY <2>2, <2>3
<1> QED BY <1>2, <1>8

\* An access of a frame's bytes start .. end - 1 is split at a multiple of a power
\* of two that is not smaller than either part.
LEMMA SplitLands ==
  ASSUME NEW start \in 1 .. 31, start % 4 = 0, NEW end \in 1 .. 128, end % 4 = 0,
         start < end
  PROVE  LET s == SplitPoint(start, end)
         IN  \E p \in {4, 8, 16, 32, 64} :
               s \in start .. end - 1 /\ s % p = 0 /\ s - start < p /\ end - s <= p
<1> DEFINE Lands(s) ==
             \E p \in {4, 8, 16, 32, 64} :
               s \in start .. end - 1 /\ s % p = 0 /\ s - start < p /\ end - s <= p
           Ready(o) == o % 4 = 0 /\ o % round_up_to_po2(end - o) = 0
           F == CHOOSE f : f = Shifted(start, end, f, 0)
           Bad == {j \in 1 .. start : Ready(start - j) /\ ~ Lands(F[start - j])}
<1>1. SplitPoint(start, end) = F[0]
  BY DEF SplitPoint, Shifted, Jump
<1>2. F = Shifted(start, end, F, 0)
  <2>1. \E f : f = Shifted(start, end, f, 0)
    BY ShiftExists
  <2> QED BY <2>1, Zenon
<1>3. \A o \in 0 .. end : F[o] = IF Jump(end, o) < start - o THEN F[o + Jump(end, o)]
                                 ELSE o + Jump(end, o)
  BY <1>2, Zenon DEF Shifted
<1> HIDE DEF F
<1>4. Bad = {}
  <2> SUFFICES ASSUME Bad # {} PROVE FALSE
    OBVIOUS
  <2>1. PICK j \in Bad : \A n \in Bad : j <= n
    <3>1. Bad \subseteq Nat
      OBVIOUS
    <3> HIDE DEF Bad
    <3> QED BY <3>1, LeastNatural
  <2> DEFINE o == start - j
             p == Jump(end, o)
             x == o + p
  <2>2. o \in 0 .. start - 1 /\ o \in Nat /\ j \in 1 .. start
    OBVIOUS
  <2>3. Ready(o) /\ ~ Lands(F[o])
    OBVIOUS
  <2>4. p \in 1 .. 64 /\ p < end - o /\ 2 * p = round_up_to_po2(end - o)
    <3>1. start \in Nat /\ o < start
      BY <2>2
    <3> HIDE DEF o
    <3> QED BY <2>2, <3>1, JumpsForward
  <2>F. F[o] = IF p < start - o THEN F[x] ELSE x
    <3>1. o \in 0 .. end
      BY <2>2
    <3> HIDE DEF o
    <3> QED BY <1>3, <3>1
  <2>5. round_up_to_po2(end - o) \in Po2s /\ end - o <= 2 * p
    <3>1. end - o \in 1 .. 128
      BY <2>2
    <3> QED BY <2>4, <3>1, RoundUp
  <2> HIDE DEF p, o, Bad
  <2>6. p \in {4, 8, 16, 32, 64} /\ o % (2 * p) = 0
    <3>1. end - o >= 8
      BY <2>2, <2>3
    <3>2. 2 * p \in {8, 16, 32, 64, 128}
      BY <2>2, <2>4, <2>5, <3>1 DEF Po2s
    <3> QED BY <2>3, <2>4, <3>2
  <2>7. x % p = 0 /\ x % 4 = 0 /\ end - x <= p /\ x < end /\ x \in Nat
    BY <2>2, <2>4, <2>5, <2>6
  <2>8. CASE p < start - o
    <3>1. F[o] = F[x]
      BY <2>F, <2>8
    <3>2. start - x \in 1 .. start /\ start - (start - x) = x /\ start - x < j
      BY <2>2, <2>4, <2>8 DEF o
    <3>3. Ready(x)
      <4>1. end - x \in 1 .. 128 /\ p \in Po2s
        BY <2>6, <2>7 DEF Po2s
      <4>2. round_up_to_po2(end - x) \in Po2s /\ round_up_to_po2(end - x) <= p
        BY <2>7, <4>1, RoundUp
      <4>3. x % round_up_to_po2(end - x) = 0
        BY <2>7, <4>1, <4>2, Po2Divides
      <4> QED BY <2>7, <4>3
    <3>4. start - x \in Bad
      BY <2>3, <3>1, <3>2, <3>3 DEF Bad
    <3> QED BY <2>1, <2>2, <2>7, <3>2, <3>4
  <2>9. CASE ~ (p < start - o)
    <3>1. F[o] = x
      BY <2>F, <2>9
    <3>2. x \in start .. end - 1 /\ x - start < p
      BY <2>2, <2>6, <2>7, <2>9
    <3>3. Lands(x)
      BY <2>6, <2>7, <3>2
    <3> QED BY <2>3, <3>1, <3>3
  <2> QED BY <2>8, <2>9
<1>5. Ready(0)
  <2>1. round_up_to_po2(end) \in Po2s
    BY RoundUp
  <2> QED BY <2>1 DEF Po2s
<1>6. start \in 1 .. start /\ start - start = 0
  OBVIOUS
<1>7. Lands(F[0])
  <2>1. start \notin Bad /\ Ready(start - start)
    BY <1>4, <1>5, <1>6
  <2> HIDE DEF Ready, Lands
  <2>2. Lands(F[start - start])
    BY <1>6, <2>1
  <2> QED BY <1>6, <2>2
<1> QED BY <1>1, <1>7

\* So both parts of an access to an HPRXM are aligned.
LEMMA RightPartAligned ==
  ASSUME NEW start \in 0 .. 31, start % 4 = 0, NEW n \in 1 .. 64, n % 4 = 0
  PROVE  LET m == RightPart(start, n)
         IN  /\ m \in 0 .. n /\ m % 4 = 0
             /\ AlignedTo(start + m, m) /\ AlignedFrom(start + m, n - m)
<1> DEFINE mask == round_down_to_po2_mask(n)
           m == RightPart(start, n)
<1>1. PICK q \in Po2s : mask = q - 1 /\ \A p \in Po2s : p <= n => p <= q
  <2>1. n \in 1 .. 128
    OBVIOUS
  <2> QED BY <2>1, RoundDown
<1>2. q \in Nat /\ q >= 1 /\ mask + 1 = q /\ Po2Lens \subseteq Po2s
  BY <1>1 DEF Po2s, Po2Lens
<1> HIDE DEF mask
<1>3. CASE Clear(start, mask)
  <2>1. start % q = 0 /\ m = 0
    BY <1>2, <1>3 DEF Clear, RightPart, mask
  <2> HIDE DEF m
  <2>2. \A p \in Po2Lens : p <= n => start % p = 0
    BY <1>1, <1>2, <2>1, Po2Divides
  <2>3. \A p \in Po2Lens : ~ (p <= 0)
    BY DEF Po2Lens
  <2> QED BY <2>1, <2>2, <2>3 DEF AlignedFrom, AlignedTo, m
<1>4. CASE ~ Clear(start, mask) /\ Clear(start + n, mask)
  <2>1. (start + n) % q = 0 /\ m = n
    BY <1>2, <1>4 DEF Clear, RightPart, mask
  <2> HIDE DEF m
  <2>2. \A p \in Po2Lens : p <= n => (start + n) % p = 0
    BY <1>1, <1>2, <2>1, Po2Divides, SMTT(30)
  <2>3. \A p \in Po2Lens : ~ (p <= n - n)
    BY DEF Po2Lens
  <2> QED BY <2>1, <2>2, <2>3 DEF AlignedFrom, AlignedTo, m
<1>5. CASE ~ Clear(start, mask) /\ ~ Clear(start + n, mask)
  <2> DEFINE end == start + n
             s == SplitPoint(start, end)
  <2>1. m = s - start
    BY <1>5 DEF RightPart, mask
  <2>2. start # 0
    BY <1>2, <1>5, <1>1 DEF Clear, Po2s
  <2>3. start \in 1 .. 31 /\ end \in 1 .. 128 /\ end % 4 = 0 /\ start < end
    BY <2>2
  <2>4. PICK r \in {4, 8, 16, 32, 64} :
          s \in start .. end - 1 /\ s % r = 0 /\ s - start < r /\ end - s <= r
    <3> HIDE DEF end
    <3> QED BY <2>3, SplitLands
  <2> HIDE DEF s, m
  <2>5. r \in Po2s /\ s \in Nat /\ s % 4 = 0
    BY <2>4 DEF Po2s
  <2>6. \A p \in Po2Lens : p <= r => s % p = 0
    BY <1>2, <2>4, <2>5, Po2Divides
  <2>7. m \in 0 .. n /\ m % 4 = 0 /\ start + m = s
    BY <2>1, <2>4, <2>5
  <2>8. \A p \in Po2Lens : (p <= m \/ p <= n - m) => p <= r
    BY <2>1, <2>4, <2>7 DEF Po2Lens
  <2> QED BY <2>6, <2>7, <2>8 DEF AlignedFrom, AlignedTo, m
<1> QED BY <1>3, <1>4, <1>5

-----------------------------------------------------------------------------
(* The steps of a call.                                                     *)

\* What the type invariant and the assumption say about a call.
LEMMA CallTypes ==
  ASSUME BarAssumption, TypeOK
  PROVE  /\ op.bar \in Bars /\ op.offset \in Nat /\ op.count \in Nat
         /\ op.read \in BOOLEAN /\ Bar[op.bar].len \in Nat /\ Bar[op.bar].len % 64 = 0
         /\ Bar[op.bar].is_hprxm \in BOOLEAN /\ Bar[op.bar].is_prefetchable \in BOOLEAN
         /\ First \in 0 .. 31 /\ (~Bar[op.bar].is_hprxm => First <= 3)
         /\ BufferSize = 96
<1>1. op.bar \in Bars /\ op.offset \in Nat /\ op.count \in Nat /\ op.read \in BOOLEAN
  BY DEF TypeOK
<1>2. /\ Bar[op.bar].len \in Nat /\ Bar[op.bar].len % 64 = 0
      /\ Bar[op.bar].is_hprxm \in BOOLEAN /\ Bar[op.bar].is_prefetchable \in BOOLEAN
  BY <1>1 DEF BarAssumption
<1>3. BufferSize = 96
  BY DEF BarAssumption, BufferSize
<1>4. CASE Bar[op.bar].is_hprxm
  <2>1. First = op.offset % 32
    BY <1>4 DEF First
  <2> QED BY <1>1, <1>2, <1>3, <1>4, <2>1
<1>5. CASE ~Bar[op.bar].is_hprxm
  <2>1. First = op.offset % 4
    BY <1>5 DEF First
  <2> QED BY <1>1, <1>2, <1>3, <1>5, <2>1
<1> QED BY <1>4, <1>5

\* The bytes still to come stay in the BAR and in the buffer.
LEMMA RestFits ==
  ASSUME BarAssumption, TypeOK, CallOK, NEW n \in Nat, n <= count
  PROVE  addr + n <= Bar[op.bar].len /\ data + n <= BufferSize /\ data \in Nat
<1> DEFINE o == op.offset
           c == op.count
           f == First
           len == Bar[op.bar].len
<1>1. /\ addr \in Nat /\ data \in 0 .. BufferSize /\ count \in 0 .. 64 /\ rest \in Nat
  BY DEF TypeOK
<1>2. o \in Nat /\ c \in Nat /\ f \in 0 .. 31 /\ len \in Nat /\ BufferSize = 96
  BY CallTypes
<1>3. /\ data = f + (addr - o) /\ o + c <= len
      /\ addr + count + rest = o + c /\ addr >= o /\ c <= 64
  BY DEF CallOK
<1> HIDE DEF o, c, f, len
<1>4. addr + n <= len
  BY <1>1, <1>2, <1>3
<1>5. data + n <= BufferSize
  BY <1>1, <1>2, <1>3
<1> QED BY <1>1, <1>2, <1>4, <1>5 DEF len

\* The same call goes on.
LEMMA SameCall ==
  ASSUME op' = op
  PROVE  First' = First /\ (Ahead' <=> Ahead) /\ (Accepted' <=> Accepted)
BY DEF First, Ahead, Accepted

\* A step that issues a series for the next m bytes.
LEMMA Issue ==
  ASSUME BarAssumption, BarInv, pc \notin {"idle", "copy", "return"}, op' = op,
         rest' = rest, NEW ts \in Seq(Trans), NEW m \in Nat, m <= count, Advance(ts, m),
         AllFit(op.bar, ts), Covers(ts, addr, data, m),
         ~Ahead => Chain(ts, addr, addr + m),
         pc' # "return", pc' = "copy" => count' + rest' = 0
  PROVE  /\ trans' \in Seq(Trans) /\ addr' \in Nat /\ data' \in 0 .. BufferSize
         /\ count' \in 0 .. 64 /\ IssuedInv' /\ CallOK'
         /\ pc' = "copy" => addr' = op.offset + op.count
<1>1. TypeOK /\ Accepted /\ CallOK /\ IssuedInv /\ ~Through
  BY DEF BarInv, CallInv, Through
<1>2. /\ addr \in Nat /\ data \in 0 .. BufferSize /\ count \in 0 .. 64 /\ rest \in Nat
      /\ trans \in Seq(Trans)
  BY <1>1 DEF TypeOK
<1>3. /\ op.bar \in Bars /\ op.offset \in Nat /\ op.count \in Nat
      /\ First \in 0 .. 31 /\ BufferSize = 96
  BY <1>1, CallTypes
<1>4. First' = First /\ (Ahead' <=> Ahead) /\ (Accepted' <=> Accepted)
  BY SameCall
<1>5. addr' = addr + m /\ data' = data + m /\ count' = count - m
  BY DEF Advance
<1>14. trans' = trans \o ts
  BY DEF Advance
<1>6. /\ op.count <= 64 /\ op.offset + op.count <= Bar[op.bar].len
      /\ Granular(op.bar, op.read, op.offset, op.count)
      /\ addr + count + rest = op.offset + op.count
      /\ addr >= op.offset /\ data = First + (addr - op.offset)
  BY <1>1 DEF CallOK
<1>7. /\ addr' \in Nat /\ data' \in 0 .. BufferSize /\ count' \in 0 .. 64
      /\ addr' + count' + rest' = op.offset + op.count
      /\ addr' >= op.offset /\ data' = First + (addr' - op.offset)
  <2> HIDE DEF First, BufferSize
  <2>11. addr' \in Nat
    BY <1>2, <1>5
  <2>12. count' \in 0 .. 64
    BY <1>2, <1>5
  <2>13. addr' >= op.offset
    BY <1>2, <1>3, <1>5, <1>6
  <2>1. addr' \in Nat /\ count' \in 0 .. 64 /\ addr' >= op.offset
    BY <2>11, <2>12, <2>13
  <2>2. addr' + count' + rest' = op.offset + op.count
    BY <1>2, <1>3, <1>5, <1>6
  <2>3. data' = First + (addr' - op.offset)
    BY <1>2, <1>3, <1>5, <1>6, SMTT(30)
  <2>4. data' \in 0 .. BufferSize
    <3> DEFINE o == op.offset
               c == op.count
               f == First
    <3>1. /\ c <= 64 /\ c \in Nat /\ o \in Nat /\ f \in 0 .. 31 /\ BufferSize = 96
          /\ rest' \in Nat /\ addr' >= o /\ addr' + count' + rest' = o + c
          /\ data' = f + (addr' - o)
      BY <1>2, <1>3, <1>6, <2>1, <2>2, <2>3
    <3> HIDE DEF o, c, f
    <3>2. addr' - o <= 64
      BY <2>1, <3>1
    <3> QED BY <2>1, <3>1, <3>2
  <2> QED BY <2>1, <2>2, <2>3, <2>4
<1>8. CallOK'
  BY <1>4, <1>6, <1>7 DEF CallOK, Granular
<1>9. trans' \in Seq(Trans) /\ AllFit(op.bar, trans')
  BY <1>1, <1>2, <1>14, JoinFits DEF IssuedInv
<1>10. Covers(trans', op.offset, First, addr' - op.offset)
  <2> DEFINE k == addr - op.offset
  <2>1. k \in Nat /\ op.offset + k = addr /\ First + k = data
        /\ addr' - op.offset = k + m /\ First \in Nat
    <3>1. addr \in Nat /\ op.offset \in Nat /\ addr >= op.offset /\ First \in Nat
      BY <1>2, <1>3, <1>6
    <3>2. addr' = addr + m /\ data = First + (addr - op.offset)
      BY <1>5, <1>6
    <3> QED BY <3>1, <3>2
  <2>2. Covers(trans, op.offset, First, k)
    BY <1>1 DEF IssuedInv
  <2> HIDE DEF k
  <2>3. Covers(ts, op.offset + k, First + k, m)
    BY <2>1
  <2>4. Covers(trans \o ts, op.offset, First, k + m)
    BY <1>2, <1>3, <2>1, <2>2, <2>3, JoinCovers
  <2> QED BY <1>14, <2>1, <2>4
<1>11. ~Ahead => Chain(trans', op.offset, addr')
  <2> SUFFICES ASSUME ~Ahead PROVE Chain(trans', op.offset, addr')
    OBVIOUS
  <2>1. Chain(trans, op.offset, addr) /\ Chain(ts, addr, addr + m) /\ addr + m \in Nat
    BY <1>1, <1>2 DEF IssuedInv
  <2> QED BY <1>2, <1>3, <1>5, <1>14, <2>1, JoinChain
<1>12. pc' = "copy" => addr' = op.offset + op.count
  BY <1>2, <1>5, <1>7
<1>13. IssuedInv'
  <2>1. AllFit(op.bar, trans)'
    BY <1>9
  <2>2. Covers(trans', op.offset, First,
               IF Through' THEN op.count ELSE addr' - op.offset)
    <3>1. CASE Through'
      <4>1. addr' - op.offset = op.count
        BY <1>3, <1>12, <3>1 DEF Through
      <4> QED BY <1>10, <3>1, <4>1
    <3>2. CASE ~ Through'
      BY <1>10, <3>2
    <3> QED BY <3>1, <3>2
  <2> QED BY <1>4, <1>11, <2>1, <2>2 DEF IssuedInv
<1> QED BY <1>7, <1>8, <1>9, <1>12, <1>13

\* A step that issues nothing.
LEMMA IssueNone ==
  ASSUME BarAssumption, BarInv, pc \notin {"idle", "copy", "return"}, op' = op,
         trans' = trans, addr' = addr, data' = data,
         count' \in Nat, rest' \in Nat, count' + rest' = count + rest,
         pc' # "return", pc' = "copy" => count + rest = 0
  PROVE  /\ IssuedInv' /\ CallOK'
         /\ pc' = "copy" => addr' = op.offset + op.count
<1>1. TypeOK /\ Accepted /\ CallOK /\ IssuedInv /\ ~Through
  BY DEF BarInv, CallInv, Through
<1>2. addr \in Nat /\ count \in 0 .. 64 /\ rest \in Nat
  BY <1>1 DEF TypeOK
<1>3. op.offset \in Nat /\ op.count \in Nat
  BY <1>1, CallTypes
<1>4. First' = First /\ (Ahead' <=> Ahead) /\ (Accepted' <=> Accepted)
  BY SameCall
<1>5. addr + count + rest = op.offset + op.count
  BY <1>1 DEF CallOK
<1>6. pc' = "copy" => addr = op.offset + op.count
  BY <1>2, <1>3, <1>5
<1>7. CallOK'
  <2>1. addr + (count + rest) = op.offset + op.count
    BY <1>2, <1>5
  <2>2. addr' + count' + rest' = op.offset + op.count
    <3>1. addr' + (count' + rest') = op.offset + op.count
      BY <2>1
    <3>2. addr' \in Int /\ count' \in Int /\ rest' \in Int
      BY <1>2
    <3> QED BY <3>1, <3>2
  <2> QED BY <1>1, <1>4, <2>2 DEF CallOK, Granular
<1>8. Covers(trans', op.offset, First,
             IF Through' THEN op.count ELSE addr' - op.offset)
  <2>1. Covers(trans, op.offset, First, addr - op.offset)
    BY <1>1 DEF IssuedInv
  <2>2. CASE Through'
    <3>1. addr - op.offset = op.count
      BY <1>2, <1>3, <1>6, <2>2 DEF Through
    <3> QED BY <2>1, <2>2, <3>1
  <2> QED BY <2>1, <2>2
<1> QED BY <1>1, <1>4, <1>6, <1>7, <1>8 DEF IssuedInv

LEMMA BarInit ==
  ASSUME BarAssumption, Init
  PROVE  BarInv
<1>1. TypeOK
  <2>1. op \in [read : BOOLEAN, bar : Bars, offset : Nat, count : Nat] /\ 0 \in Bars
    BY DEF Init, NoOp, BarAssumption
  <2>2. BufferSize = 96
    BY DEF BufferSize, BarAssumption
  <2> QED BY <2>1, <2>2 DEF Init, TypeOK
<1>2. ~Accepted /\ trans = <<>> /\ Len(trans) = 0 /\ pc = "idle" /\ ret = 0 /\ rest = 0
  BY DEF Init, NoOp, Accepted
<1>3. CallInv
  BY <1>2 DEF CallInv, Through
<1>4. IssuedInv
  BY <1>2 DEF IssuedInv, AllFit
<1> QED BY <1>1, <1>3, <1>4 DEF BarInv

\* A call that is refused.
LEMMA FailKeeps ==
  ASSUME BarAssumption, BarInv, pc = "idle", NEW e \in {EFAULT, EINVAL}, Fail(e)
  PROVE  BarInv'
<1>1. /\ pc' = "return" /\ ret' = e /\ e \in Int /\ ~ (e > 0)
      /\ UNCHANGED <<op, addr, data, count, po2, rest, trans, use_cmd, cur, pos>>
  BY DEF Fail, callVars, EFAULT, EINVAL
<1>2. TypeOK /\ ~Accepted /\ trans = <<>> /\ AllFit(op.bar, trans)
  BY DEF BarInv, CallInv, IssuedInv
<1>3. TypeOK'
  BY <1>1, <1>2 DEF TypeOK
<1>4. ~Accepted' /\ trans' = <<>> /\ op' = op
  BY <1>1, <1>2 DEF Accepted
<1>5. CallInv'
  BY <1>1, <1>4 DEF CallInv, Through
<1>6. IssuedInv'
  BY <1>2, <1>4 DEF IssuedInv
<1> QED BY <1>3, <1>5, <1>6 DEF BarInv

\* get_address cuts the size at the end of the BAR.
LEMMA AddressInBar ==
  ASSUME BarAssumption, NEW b \in Bars, NEW offset \in Nat, NEW asked \in Nat
  PROVE  LET n == get_address(b, offset, Least(asked, MAX_TRANSFER_SIZE))
         IN  n \in 0 .. 64 /\ (n > 0 => offset + n <= Bar[b].len)
<1> DEFINE x == Least(asked, MAX_TRANSFER_SIZE)
           len == Bar[b].len
<1>1. len \in Nat /\ x \in 0 .. 64
  BY DEF BarAssumption, Least
<1> HIDE DEF x
<1>2. Least(x, len - offset) \in {x, len - offset} /\ Least(x, len - offset) <= x
      /\ Least(x, len - offset) <= len - offset
  BY <1>1 DEF Least
<1>3. CASE ~Bar[b].base \/ offset >= len
  BY <1>3 DEF get_address, x
<1>4. CASE ~ (~Bar[b].base \/ offset >= len)
  <2>1. get_address(b, offset, x) = Least(x, len - offset)
    BY <1>4 DEF get_address
  <2> QED BY <1>1, <1>2, <1>4, <2>1 DEF x
<1> QED BY <1>3, <1>4

LEMMA EnterKeeps ==
  ASSUME BarAssumption, BarInv, NEW read \in BOOLEAN, NEW b \in Bars,
         NEW offset \in Nat, NEW asked \in Nat, Enter(read, b, offset, asked)
  PROVE  BarInv'
<1> DEFINE n == get_address(b, offset, Least(asked, MAX_TRANSFER_SIZE))
<1>1. n \in 0 .. 64 /\ (n > 0 => offset + n <= Bar[b].len) /\ pc = "idle"
  BY AddressInBar DEF Enter
<1>2. \/ Fail(EFAULT)
      \/ Fail(EINVAL)
      \/ /\ n > 0 /\ Granular(b, read, offset, n)
         /\ op' = [read |-> read, bar |-> b, offset |-> offset, count |-> n]
         /\ addr' = offset /\ count' = n
         /\ data' = offset % (IF Bar[b].is_hprxm THEN 32 ELSE 4)
         /\ pc' = Route(b, read)
         /\ UNCHANGED <<use_cmd, cur, pos, po2, rest, trans, ret>>
  BY Zenon DEF Enter
<1> HIDE DEF n
<1>3. CASE Fail(EFAULT) \/ Fail(EINVAL)
  BY <1>1, <1>3, FailKeeps
<1>4. CASE /\ n > 0 /\ Granular(b, read, offset, n)
           /\ op' = [read |-> read, bar |-> b, offset |-> offset, count |-> n]
           /\ addr' = offset /\ count' = n
           /\ data' = offset % (IF Bar[b].is_hprxm THEN 32 ELSE 4)
           /\ pc' = Route(b, read)
           /\ UNCHANGED <<use_cmd, cur, pos, po2, rest, trans, ret>>
  <2>1. TypeOK /\ trans = <<>> /\ rest = 0 /\ ~ (ret > 0)
    BY <1>1 DEF BarInv, CallInv
  <2>2. /\ op'.read = read /\ op'.bar = b /\ op'.offset = offset /\ op'.count = n
        /\ op' \in [read : BOOLEAN, bar : Bars, offset : Nat, count : Nat]
    BY <1>1, <1>4
  <2>3. /\ addr' = offset /\ count' = n /\ trans' = <<>> /\ rest' = 0 /\ ~ (ret' > 0)
        /\ UNCHANGED <<use_cmd, cur, pos, po2, ret>>
    BY <1>4, <2>1
  <2>4. /\ Bar[b].is_hprxm \in BOOLEAN /\ BufferSize = 96
    BY DEF BarAssumption, BufferSize
  <2>5. First' = data' /\ data' \in 0 .. 31
    <3>1. First' = offset % (IF Bar[b].is_hprxm THEN 32 ELSE 4)
      BY <2>2 DEF First
    <3>2. First' \in 0 .. 31
      BY <2>4, <3>1
    <3> QED BY <1>4, <3>1, <3>2
  <2>6. /\ pc' \in {"prefetch", "hprxm", "rxm"}
        /\ pc' = "prefetch" => Bar[b].is_hprxm /\ (read /\ Bar[b].is_prefetchable)
        /\ pc' = "hprxm" => Bar[b].is_hprxm /\ ~(read /\ Bar[b].is_prefetchable)
        /\ pc' = "rxm" => ~Bar[b].is_hprxm
    BY <1>4 DEF Route
  <2>7. TypeOK'
    BY <1>1, <2>1, <2>2, <2>3, <2>4, <2>5, <2>6 DEF TypeOK
  <2>8. Accepted' /\ ~Through'
    BY <1>1, <1>4, <2>2, <2>6 DEF Accepted, Through
  <2>9. Ahead' <=> read /\ Bar[b].is_prefetchable
    BY <2>2 DEF Ahead
  <2>10. CallOK'
    BY <1>1, <1>4, <2>2, <2>3, <2>5 DEF CallOK, Granular
  <2>11. Stage'
    BY <2>2, <2>3, <2>6, <2>9 DEF Stage
  <2>12. CallInv'
    BY <2>3, <2>6, <2>8, <2>10, <2>11 DEF CallInv
  <2>13. IssuedInv'
    <3>1. Len(trans') = 0 /\ addr' - op'.offset = 0
      BY <2>2, <2>3
    <3>2. AllFit(op'.bar, trans')
      BY <3>1 DEF AllFit
    <3>3. Covers(trans', op'.offset, First', 0)
      BY DEF Covers
    <3>4. Chain(trans', op'.offset, addr')
      BY <2>2, <2>3 DEF Chain
    <3> QED BY <2>8, <3>1, <3>2, <3>3, <3>4 DEF IssuedInv
  <2> QED BY <2>7, <2>12, <2>13 DEF BarInv
<1> QED BY <1>2, <1>3, <1>4

LEMMA FinishKeeps ==
  ASSUME BarAssumption, BarInv, Finish
  PROVE  BarInv'
<1>1. /\ pc = "copy" /\ pc' = "return"
      /\ UNCHANGED <<use_cmd, cur, op, addr, data, count, po2, rest, trans>>
      /\ \/ ret' = EFAULT /\ pos' = pos
         \/ ret' = op.count
            /\ pos' = IF use_cmd THEN pos ELSE Wrap(pos + op.count, Bar[op.bar].len)
  BY DEF Finish, callVars
<1>2. TypeOK /\ Accepted /\ CallInv /\ IssuedInv /\ op.count \in Nat /\ pos \in Nat
  BY <1>1 DEF BarInv, CallInv, TypeOK
<1>3. pos' \in Nat /\ ret' \in Int /\ (ret' > 0 => ret' = op.count)
  BY <1>1, <1>2 DEF Wrap, EFAULT
<1>4. TypeOK'
  BY <1>1, <1>2, <1>3 DEF TypeOK
<1>5. First' = First /\ (Ahead' <=> Ahead) /\ (Accepted' <=> Accepted)
  BY <1>1, SameCall
<1>6. (Through' <=> Through) /\ Through
  BY <1>1, <1>2, <1>5 DEF Through
<1>7. CallOK'
  BY <1>1, <1>2, <1>5 DEF CallOK, CallInv, Granular
<1>8. Stage'
  BY <1>1 DEF Stage
<1>9. CallInv'
  BY <1>1, <1>2, <1>3, <1>5, <1>6, <1>7, <1>8 DEF CallInv
<1>10. IssuedInv'
  BY <1>1, <1>2, <1>5, <1>6 DEF IssuedInv
<1> QED BY <1>4, <1>9, <1>10 DEF BarInv

LEMMA ReturnKeeps ==
  ASSUME BarAssumption, BarInv, Return
  PROVE  BarInv'
<1>1. TypeOK
  BY DEF BarInv
<1>2. TypeOK'
  <2>1. NoOp \in [read : BOOLEAN, bar : Bars, offset : Nat, count : Nat]
    BY DEF NoOp, BarAssumption
  <2>2. BufferSize = 96
    BY DEF BufferSize, BarAssumption
  <2> QED BY <1>1, <2>1, <2>2 DEF TypeOK, Return
<1>3. ~Accepted' /\ trans' = <<>> /\ Len(trans') = 0 /\ pc' = "idle" /\ ret' = 0 /\ rest' = 0
  BY DEF Return, NoOp, Accepted
<1>4. CallInv'
  BY <1>3 DEF CallInv, Through
<1>5. IssuedInv'
  BY <1>3 DEF IssuedInv, AllFit
<1> QED BY <1>2, <1>4, <1>5 DEF BarInv

\* A step of the access proper keeps the invariant if it keeps these parts.
LEMMA StepKeeps ==
  ASSUME BarAssumption, BarInv, pc \notin {"idle", "copy", "return"},
         pc' \in {"left", "right", "rxm_mid", "copy"},
         UNCHANGED <<use_cmd, cur, pos, op, ret>>,
         trans' \in Seq(Trans), addr' \in Nat, data' \in 0 .. BufferSize,
         count' \in 0 .. 64, po2' \in Nat, rest' \in Nat,
         IssuedInv', CallOK', Stage',
         pc' = "copy" => (Ahead \/ addr' = op.offset + op.count)
  PROVE  BarInv'
<1>1. TypeOK /\ CallInv
  BY DEF BarInv
<1>2. TypeOK'
  BY <1>1 DEF TypeOK
<1>3. op' = op /\ ret' = ret
  OBVIOUS
<1>4. First' = First /\ (Ahead' <=> Ahead) /\ (Accepted' <=> Accepted)
  BY <1>3, SameCall
<1>5. Accepted' /\ ~ (ret' > 0)
  BY <1>1, <1>3, <1>4 DEF CallInv
<1>6. CallInv'
  <2>1. Through' /\ ~Ahead' => addr' = op'.offset + op'.count
    BY <1>3, <1>4 DEF Through
  <2> QED BY <1>5, <2>1 DEF CallInv
<1> QED BY <1>2, <1>6 DEF BarInv

LEMMA RxmFirstKeeps ==
  ASSUME BarAssumption, BarInv, rxm_access_first
  PROVE  BarInv'
<1> DEFINE m == 4 - (addr % 4)
<1>1. /\ pc = "rxm" /\ pc' = "rxm_mid"
      /\ UNCHANGED <<use_cmd, cur, pos, op, ret>> /\ op' = op /\ po2' = po2 /\ rest' = rest
      /\ IF m < count THEN RxmPart(m) ELSE UNCHANGED <<addr, data, count, trans>>
  BY DEF rxm_access_first, FirstFirst
<1>2. /\ addr \in Nat /\ data \in 0 .. BufferSize /\ count \in 0 .. 64 /\ rest \in Nat
      /\ po2 \in Nat /\ trans \in Seq(Trans)
  BY DEF BarInv, TypeOK
<1>3. Accepted /\ CallOK /\ Stage
  BY <1>1 DEF BarInv, CallInv
<1>4. /\ op.bar \in Bars /\ op.offset \in Nat /\ op.count \in Nat
      /\ Bar[op.bar].len \in Nat /\ First \in 0 .. 31 /\ BufferSize = 96
  BY CallTypes DEF BarInv
<1>5. /\ ~Bar[op.bar].is_hprxm /\ addr = op.offset /\ count = op.count /\ rest = 0
      /\ data = First /\ addr + count <= Bar[op.bar].len
  <2>1. ~Bar[op.bar].is_hprxm /\ addr = op.offset /\ count = op.count /\ rest = 0
    BY <1>1, <1>3 DEF Stage
  <2>2. data = First + (addr - op.offset) /\ op.offset + op.count <= Bar[op.bar].len
    BY <1>3 DEF CallOK
  <2> QED BY <1>4, <2>1, <2>2
<1>6. m \in 1 .. 4 /\ (addr % 4) + m = 4 /\ (m = 4 => addr % 4 = 0)
      /\ (addr + m) % 4 = 0
  BY <1>2
<1> HIDE DEF m
<1>7. CASE m < count
  <2> DEFINE ts == IF op.read /\ Bar[op.bar].is_prefetchable
                   THEN rxm_prefetchable_single_read(addr, data, m)
                   ELSE rxm_access_single(addr, data, m)
  <2>1. Advance(ts, m)
    BY <1>1, <1>7 DEF RxmPart
  <2>2. addr + m <= Bar[op.bar].len /\ data + m <= BufferSize /\ data \in Nat
    <3>1. m \in Int /\ m < count /\ addr + count <= Bar[op.bar].len
      BY <1>5, <1>6, <1>7
    <3>2. addr + m <= Bar[op.bar].len
      BY <1>2, <1>4, <3>1
    <3>3. data + m <= BufferSize /\ data \in Nat
      <4>1. m <= 4 /\ data = First
        BY <1>5, <1>6
      <4> QED BY <1>4, <3>1, <4>1
    <3> QED BY <3>2, <3>3
  <2>3. /\ ts \in Seq(Trans) /\ AllFit(op.bar, ts) /\ Covers(ts, addr, data, m)
        /\ ~Ahead => Chain(ts, addr, addr + m)
    <3>1. CASE Ahead
      <4>1. ts = rxm_prefetchable_single_read(addr, data, m)
        BY <3>1 DEF Ahead
      <4>2. (addr % 4) + m <= 4
        BY <1>2, <1>6
      <4>3. LET t == rxm_prefetchable_single_read(addr, data, m)
            IN  t \in Seq(Trans) /\ AllFit(op.bar, t) /\ Covers(t, addr, data, m)
        BY <1>2, <1>4, <1>5, <1>6, <2>2, <4>2, ReadPiece
      <4> QED BY <3>1, <4>1, <4>3
    <3>2. CASE ~Ahead
      <4>1. ts = rxm_access_single(addr, data, m)
        BY <3>2 DEF Ahead
      <4>2. Piece(op.bar, rxm_access_single(addr, data, m), addr, data, m)
        BY <1>2, <1>4, <1>5, <1>6, <2>2, RxmPiece
      <4> QED BY <4>1, <4>2 DEF Piece
    <3> QED BY <3>1, <3>2
  <2> HIDE DEF ts
  <2>4. m \in Nat /\ m <= count /\ addr' = addr + m
    BY <1>2, <1>6, <1>7, <2>1 DEF Advance
  <2>5. /\ trans' \in Seq(Trans) /\ addr' \in Nat /\ data' \in 0 .. BufferSize
        /\ count' \in 0 .. 64 /\ IssuedInv' /\ CallOK'
    BY <1>1, <2>1, <2>3, <2>4, Issue
  <2>6. Stage'
    BY <1>1, <1>5, <1>6, <2>4 DEF Stage
  <2> QED BY <1>1, <1>2, <2>5, <2>6, StepKeeps
<1>8. CASE ~ (m < count)
  <2>1. /\ trans' = trans /\ addr' = addr /\ data' = data /\ count' = count
        /\ count' + rest' = count + rest /\ count' \in Nat /\ rest' \in Nat
    BY <1>1, <1>2, <1>8
  <2>2. IssuedInv' /\ CallOK'
    BY <1>1, <2>1, IssueNone
  <2>3. (addr % 4) + count <= 4
    BY <1>2, <1>6, <1>8
  <2>4. Stage'
    BY <1>1, <1>5, <2>1, <2>3 DEF Stage
  <2> QED BY <1>1, <1>2, <2>1, <2>2, <2>4, StepKeeps
<1> QED BY <1>7, <1>8

LEMMA RxmRestKeeps ==
  ASSUME BarAssumption, BarInv, rxm_access_rest
  PROVE  BarInv'
<1>1. /\ pc = "rxm_mid"
      /\ UNCHANGED <<use_cmd, cur, pos, op, ret>> /\ op' = op /\ po2' = po2 /\ rest' = rest
  BY DEF rxm_access_rest
<1>2. /\ addr \in Nat /\ data \in 0 .. BufferSize /\ count \in 0 .. 64 /\ rest \in Nat
      /\ po2 \in Nat /\ trans \in Seq(Trans)
  BY DEF BarInv, TypeOK
<1>3. Accepted /\ CallOK /\ Stage
  BY <1>1 DEF BarInv, CallInv
<1>4. /\ op.bar \in Bars /\ op.offset \in Nat /\ op.count \in Nat
      /\ Bar[op.bar].len \in Nat /\ First \in 0 .. 31 /\ BufferSize = 96
  BY CallTypes DEF BarInv
<1>5. /\ ~Bar[op.bar].is_hprxm /\ rest = 0
      /\ addr % 4 = 0 \/ (addr % 4) + count <= 4
  BY <1>1, <1>3 DEF Stage
<1>6. addr + count <= Bar[op.bar].len /\ data + count <= BufferSize /\ data \in Nat
  BY <1>2, <1>3, RestFits DEF BarInv
<1>7. ASSUME NEW m \in 1 .. 4, m <= count, m = 4 => addr % 4 = 0,
             NEW ts, Advance(ts, m), pc' \in {"rxm_mid", "copy"},
             pc' = "copy" => count' + rest' = 0,
             \/ ts = rxm_access_single(addr, data, m)
             \/ Ahead /\ ts = rxm_prefetchable_single_read(addr, data, m)
      PROVE  /\ trans' \in Seq(Trans) /\ addr' \in Nat /\ data' \in 0 .. BufferSize
             /\ count' \in 0 .. 64 /\ IssuedInv' /\ CallOK'
             /\ pc' = "copy" => addr' = op.offset + op.count
  <2>1. addr + m <= Bar[op.bar].len /\ data + m <= BufferSize /\ m \in Nat
    BY <1>2, <1>4, <1>6, <1>7
  <2>2. /\ ts \in Seq(Trans) /\ AllFit(op.bar, ts) /\ Covers(ts, addr, data, m)
        /\ ~Ahead => Chain(ts, addr, addr + m)
    <3>1. CASE ts = rxm_access_single(addr, data, m)
      <4>1. Piece(op.bar, rxm_access_single(addr, data, m), addr, data, m)
        BY <1>2, <1>4, <1>5, <1>6, <1>7, <2>1, RxmPiece
      <4> QED BY <3>1, <4>1 DEF Piece
    <3>2. CASE Ahead /\ ts = rxm_prefetchable_single_read(addr, data, m)
      <4>1. (addr % 4) + m <= 4
        BY <1>2, <1>5, <1>7
      <4>2. LET t == rxm_prefetchable_single_read(addr, data, m)
            IN  t \in Seq(Trans) /\ AllFit(op.bar, t) /\ Covers(t, addr, data, m)
        BY <1>2, <1>4, <1>5, <1>6, <1>7, <2>1, <4>1, ReadPiece
      <4> QED BY <3>2, <4>2
    <3> QED BY <1>7, <3>1, <3>2
  <2>3. pc' # "return"
    BY <1>7
  <2> QED BY <1>1, <1>7, <2>1, <2>2, <2>3, Issue
<1>8. CASE count >= 4 /\ Advance(rxm_access_single(addr, data, 4), 4) /\ pc' = pc
  <2>1. addr % 4 = 0
    BY <1>2, <1>5, <1>8
  <2>2. /\ trans' \in Seq(Trans) /\ addr' \in Nat /\ data' \in 0 .. BufferSize
        /\ count' \in 0 .. 64 /\ IssuedInv' /\ CallOK'
    BY <1>1, <1>7, <1>8, <2>1
  <2>3. addr' % 4 = 0
    <3>1. addr' = addr + 4
      BY <1>8 DEF Advance
    <3> QED BY <1>2, <2>1, <3>1
  <2>4. Stage'
    BY <1>1, <1>5, <1>8, <2>3 DEF Stage
  <2> QED BY <1>1, <1>2, <1>8, <2>2, <2>4, StepKeeps
<1>9. CASE count \in 1 .. 3 /\ RxmPart(count) /\ pc' = "copy"
  <2> DEFINE ts == IF op.read /\ Bar[op.bar].is_prefetchable
                   THEN rxm_prefetchable_single_read(addr, data, count)
                   ELSE rxm_access_single(addr, data, count)
  <2>1. Advance(ts, count)
    BY <1>9 DEF RxmPart
  <2>2. \/ ts = rxm_access_single(addr, data, count)
        \/ Ahead /\ ts = rxm_prefetchable_single_read(addr, data, count)
    BY DEF Ahead
  <2> HIDE DEF ts
  <2>3. count' + rest' = 0
    BY <1>1, <1>2, <1>5, <2>1 DEF Advance
  <2>4. /\ trans' \in Seq(Trans) /\ addr' \in Nat /\ data' \in 0 .. BufferSize
        /\ count' \in 0 .. 64 /\ IssuedInv' /\ CallOK'
        /\ pc' = "copy" => addr' = op.offset + op.count
    <3>1. count \in 1 .. 4 /\ count <= count /\ count # 4
      BY <1>9
    <3> QED BY <1>7, <1>9, <2>1, <2>2, <2>3, <3>1
  <2>5. Stage'
    BY <1>9 DEF Stage
  <2> QED BY <1>1, <1>2, <1>9, <2>4, <2>5, StepKeeps
<1>10. CASE count = 0 /\ pc' = "copy" /\ UNCHANGED <<addr, data, count, trans>>
  <2>1. /\ trans' = trans /\ addr' = addr /\ data' = data /\ count' = count
        /\ count' + rest' = count + rest /\ count' \in Nat /\ rest' \in Nat
        /\ count + rest = 0
    BY <1>1, <1>2, <1>5, <1>10
  <2>2. IssuedInv' /\ CallOK' /\ addr' = op.offset + op.count
    BY <1>1, <1>10, <2>1, IssueNone
  <2>3. Stage'
    BY <1>10 DEF Stage
  <2> QED BY <1>1, <1>2, <1>10, <2>1, <2>2, <2>3, StepKeeps
<1> QED BY <1>8, <1>9, <1>10 DEF rxm_access_rest

\* A series that moves more bytes than needed moves those needed.
LEMMA CoversPart ==
  ASSUME NEW ts, NEW a \in Nat, NEW d \in Nat, NEW m \in Nat, NEW r \in Nat,
         NEW n \in Nat, r + n <= m, Covers(ts, a, d, m)
  PROVE  Covers(ts, a + r, d + r, n)
<1> SUFFICES ASSUME NEW k \in 0 .. n - 1
             PROVE  \E i \in 1 .. Len(ts) : Carries(ts[i], a + r + k, d + r + k)
  BY DEF Covers
<1>1. r + k \in 0 .. m - 1 /\ a + (r + k) = a + r + k /\ d + (r + k) = d + r + k
  OBVIOUS
<1>2. \E i \in 1 .. Len(ts) : Carries(ts[i], a + (r + k), d + (r + k))
  BY <1>1 DEF Covers
<1> QED BY <1>1, <1>2

\* The frames that hold bytes asked for are in the BAR, and no other is needed.
LEMMA FramesInBar ==
  ASSUME NEW len \in Nat, len % 64 = 0, NEW a \in Nat, NEW n \in 1 .. 64, a + n <= len
  PROVE  LET base == a - (a % 32)
         IN  /\ base \in Nat /\ base % 32 = 0 /\ base + 32 <= len
             /\ Second(a, n) => base + 64 <= len
             /\ Third(a, n) => Second(a, n) /\ base + 96 <= len
             /\ ~Second(a, n) => (a % 32) + n <= 32
             /\ ~Third(a, n) => (a % 32) + n <= 64
<1> DEFINE r == a % 32
           base == a - r
<1>1. r \in 0 .. 31 /\ base \in Nat /\ base % 32 = 0 /\ len % 32 = 0
      /\ a = base + r
  OBVIOUS
<1>2. \/ a % 64 = r /\ base % 64 = 0
      \/ a % 64 = r + 32 /\ base % 64 = 32
  <2>1. a % 64 \in {r, r + 32}
    OBVIOUS
  <2>2. (a % 64 = r => base % 64 = 0) /\ (a % 64 = r + 32 => base % 64 = 32)
    OBVIOUS
  <2> QED BY <2>1, <2>2
<1> HIDE DEF r, base
<1>3. base + 32 <= len
  BY <1>1
<1>4. Second(a, n) => base + 64 <= len
  BY <1>1 DEF Second, r
<1>5. Third(a, n) => Second(a, n)
  <2>1. Third(a, n) => r + n > 32
    BY <1>1, <1>2 DEF Third
  <2> QED BY <2>1 DEF Second, r
<1>6. Third(a, n) => base + 96 <= len
  <2>1. Third(a, n) <=> (a % 64) + n > 64
    BY DEF Third
  <2>2. CASE a % 64 = r /\ base % 64 = 0
    BY <1>1, <2>1, <2>2
  <2>3. CASE a % 64 = r + 32 /\ base % 64 = 32
    BY <1>1, <2>1, <2>3
  <2> QED BY <1>2, <2>2, <2>3
<1>7. ~Second(a, n) => (a % 32) + n <= 32
  BY DEF Second
<1>8. ~Third(a, n) => r + n <= 64
  BY <1>1, <1>2 DEF Third
<1> QED BY <1>1, <1>3, <1>4, <1>5, <1>6, <1>7, <1>8 DEF r, base

LEMMA PrefetchKeeps ==
  ASSUME BarAssumption, BarInv, Prefetch
  PROVE  BarInv'
<1> DEFINE r == addr % 32
           base == addr - (addr % 32)
           len == Bar[op.bar].len
           Frame(i) == Moves(base + 32 * i, 32 * i, 32)
           X == IF Second(addr, count) THEN Frame(1) ELSE <<>>
           Y == IF Third(addr, count) THEN Frame(2) ELSE <<>>
<1>1. /\ pc = "prefetch" /\ pc' = "copy"
      /\ UNCHANGED <<use_cmd, cur, pos, op, ret>> /\ op' = op
      /\ UNCHANGED <<addr, data, count, po2, rest>>
  BY DEF Prefetch
<1>2. /\ addr \in Nat /\ data \in 0 .. BufferSize /\ count \in 0 .. 64 /\ rest \in Nat
      /\ po2 \in Nat
  BY DEF BarInv, TypeOK
<1>3. Accepted /\ CallOK /\ Stage
  BY <1>1 DEF BarInv, CallInv
<1>4. /\ op.bar \in Bars /\ op.offset \in Nat /\ op.count \in Nat
      /\ len \in Nat /\ len % 64 = 0 /\ BufferSize = 96
  BY CallTypes DEF BarInv
<1>5. /\ Bar[op.bar].is_hprxm /\ Ahead /\ addr = op.offset /\ count = op.count /\ rest = 0
  BY <1>1, <1>3 DEF Stage
<1>6. count \in 1 .. 64 /\ addr + count <= len /\ First = r /\ data = r
  <2>1. First = r
    BY <1>5 DEF First
  <2>2. op.count > 0 /\ op.offset + op.count <= len /\ data = First + (addr - op.offset)
    BY <1>3 DEF Accepted, CallOK
  <2>3. r \in 0 .. 31
    BY <1>2
  <2>4. count \in 1 .. 64 /\ addr + count <= len
    BY <1>2, <1>5, <2>2
  <2> QED BY <1>2, <1>5, <2>1, <2>2, <2>3, <2>4
<1>7. /\ base \in Nat /\ base % 32 = 0 /\ base + 32 <= len
      /\ Second(addr, count) => base + 64 <= len
      /\ Third(addr, count) => Second(addr, count) /\ base + 96 <= len
      /\ ~Second(addr, count) => r + count <= 32
      /\ ~Third(addr, count) => r + count <= 64
  BY <1>2, <1>4, <1>6, FramesInBar, ZenonT(40)
<1>8. trans' = (Frame(0) \o X) \o Y
  <2>1. FrameIndex(data) = 0
    <3>1. data \in 0 .. 31
      BY <1>2, <1>6
    <3> QED BY <3>1 DEF FrameIndex
  <2>2. \A i \in 0 .. 2 : hprxm_access_single(base + 32 * i, 0 + 32 * i, 32) = Frame(i)
    BY DEF hprxm_access_single
  <2> DEFINE G(i) == hprxm_access_single(base + 32 * i, FrameIndex(data) + 32 * i, 32)
  <2>3. trans' = (G(0) \o (IF Second(addr, count) THEN G(1) ELSE <<>>))
                      \o (IF Third(addr, count) THEN G(2) ELSE <<>>)
    BY Zenon DEF Prefetch
  <2>4. \A i \in 0 .. 2 : G(i) = Frame(i)
    BY <2>1, <2>2
  <2> HIDE DEF G, Frame
  <2>5. G(0) = Frame(0) /\ G(1) = Frame(1) /\ G(2) = Frame(2)
    BY <2>4
  <2> QED BY <2>3, <2>5
<1> HIDE DEF base, len, r
<1>9. ASSUME NEW i \in 0 .. 2, base + 32 * i + 32 <= len
      PROVE  Piece(op.bar, Frame(i), base + 32 * i, 32 * i, 32)
  <2> DEFINE a == base + 32 * i
             d == 32 * i
  <2>1. a \in Nat /\ d \in Nat /\ a % Least(32, 32) = 0 /\ d + 32 <= BufferSize
    BY <1>4, <1>7 DEF Least
  <2>2. a + 32 <= Bar[op.bar].len
    BY <1>9 DEF len
  <2> HIDE DEF a, d
  <2>3. Piece(op.bar, Moves(a, d, 32), a, d, 32)
    <3> DEFINE n == 32
               b == op.bar
    <3>1. /\ n \in {1, 2, 4, 8, 16, 32, 64} /\ n >= 4 /\ a % Least(n, 32) = 0
          /\ a + n <= Bar[b].len /\ d + n <= BufferSize /\ b \in Bars
      BY <1>4, <2>1, <2>2
    <3> HIDE DEF n, b
    <3>2. Piece(b, Moves(a, d, n), a, d, n)
      BY <2>1, <3>1, MovesPiece
    <3> QED BY <3>2 DEF n, b
  <2> QED BY <2>3 DEF a, d
<1>10. Piece(op.bar, Frame(0), base, 0, 32)
  <2>1. base + 32 * 0 + 32 <= len /\ base + 32 * 0 = base /\ 32 * 0 = 0
    BY <1>7
  <2> HIDE DEF Frame
  <2>2. Piece(op.bar, Frame(0), base + 32 * 0, 32 * 0, 32)
    BY <1>9, <2>1
  <2> QED BY <2>1, <2>2
<1>11. Second(addr, count) => Piece(op.bar, Frame(1), base + 32, 0 + 32, 32)
  <2> SUFFICES ASSUME Second(addr, count)
               PROVE  Piece(op.bar, Frame(1), base + 32, 0 + 32, 32)
    OBVIOUS
  <2>1. base + 32 * 1 + 32 <= len /\ base + 32 * 1 = base + 32 /\ 32 * 1 = 0 + 32
    BY <1>4, <1>7
  <2> HIDE DEF Frame
  <2>2. Piece(op.bar, Frame(1), base + 32 * 1, 32 * 1, 32)
    BY <1>9, <2>1
  <2> QED BY <2>1, <2>2
<1>12. Third(addr, count) => Piece(op.bar, Frame(2), base + 64, 0 + 64, 32)
  <2> SUFFICES ASSUME Third(addr, count)
               PROVE  Piece(op.bar, Frame(2), base + 64, 0 + 64, 32)
    OBVIOUS
  <2>1. base + 32 * 2 + 32 <= len /\ base + 32 * 2 = base + 64 /\ 32 * 2 = 0 + 64
    BY <1>4, <1>7
  <2> HIDE DEF Frame
  <2>2. Piece(op.bar, Frame(2), base + 32 * 2, 32 * 2, 32)
    BY <1>9, <2>1
  <2> QED BY <2>1, <2>2
<1> HIDE DEF Frame, X, Y
<1>13. \E m \in Nat : Piece(op.bar, trans', base, 0, m) /\ r + count <= m
  <2>1. CASE ~Second(addr, count)
    <3>1. X = <<>> /\ Y = <<>>
      BY <1>7, <2>1 DEF X, Y
    <3>2. trans' = Frame(0)
      <4>1. Frame(0) \in Seq(Trans)
        BY <1>10 DEF Piece
      <4> QED BY <1>8, <3>1, <4>1, ConcatEmptySeq
    <3> QED BY <1>7, <1>10, <2>1, <3>2
  <2>2. CASE Second(addr, count)
    <3>1. X = Frame(1)
      BY <2>2 DEF X
    <3>2. Piece(op.bar, Frame(0) \o X, base, 0, 32 + 32)
      <4>1. 0 \in Nat /\ 32 \in Nat
        OBVIOUS
      <4> QED BY <1>7, <1>10, <1>11, <2>2, <3>1, <4>1, JoinPieces
    <3>3. 32 + 32 = 64 /\ 64 + 32 = 96
      OBVIOUS
    <3>4. Piece(op.bar, Frame(0) \o X, base, 0, 64)
      BY <3>2, <3>3
    <3>5. CASE Third(addr, count)
      <4>1. Y = Frame(2)
        BY <3>5 DEF Y
      <4>2. 0 \in Nat /\ 32 \in Nat /\ 64 \in Nat
        OBVIOUS
      <4>3. Piece(op.bar, (Frame(0) \o X) \o Y, base, 0, 64 + 32)
        BY <1>7, <1>12, <3>4, <3>5, <4>1, <4>2, JoinPieces
      <4>4. Piece(op.bar, trans', base, 0, 96)
        BY <1>8, <3>3, <4>3
      <4>5. r + count <= 96 /\ 96 \in Nat
        BY <1>2, <1>6 DEF r
      <4> QED BY <4>4, <4>5
    <3>6. CASE ~Third(addr, count)
      <4>1. Y = <<>>
        BY <3>6 DEF Y
      <4>2. trans' = Frame(0) \o X
        <5>1. Frame(0) \o X \in Seq(Trans)
          BY <3>4 DEF Piece
        <5> QED BY <1>8, <4>1, <5>1, ConcatEmptySeq
      <4>3. 64 \in Nat
        OBVIOUS
      <4> QED BY <1>7, <3>4, <3>6, <4>2, <4>3
    <3> QED BY <3>5, <3>6
  <2> QED BY <2>1, <2>2
<1>14. PICK m \in Nat : Piece(op.bar, trans', base, 0, m) /\ r + count <= m
  BY <1>13
<1>15. Covers(trans', op.offset, First, op.count)
  <2>1. r \in Nat /\ count \in Nat /\ 0 \in Nat /\ base + r = op.offset /\ 0 + r = First
    <3>1. r \in Nat /\ base + r = addr
      BY <1>2 DEF r, base
    <3>2. 0 + r = First
      BY <1>6, <3>1
    <3> QED BY <1>2, <1>5, <3>1, <3>2
  <2>2. Covers(trans', base, 0, m)
    BY <1>14 DEF Piece
  <2>3. Covers(trans', base + r, 0 + r, count)
    BY <1>7, <1>14, <2>1, <2>2, CoversPart
  <2> QED BY <1>5, <2>1, <2>3
<1>16. First' = First /\ (Ahead' <=> Ahead) /\ (Accepted' <=> Accepted)
  BY <1>1, SameCall
<1>17. IssuedInv'
  <2>1. AllFit(op.bar, trans)'
    BY <1>1, <1>14 DEF Piece
  <2>2. Through'
    BY <1>1, <1>3, <1>16 DEF Through
  <2> QED BY <1>1, <1>5, <1>15, <1>16, <2>1, <2>2 DEF IssuedInv
<1>18. CallOK'
  BY <1>1, <1>3, <1>16 DEF CallOK, Granular
<1>19. Stage'
  BY <1>1 DEF Stage
<1>20. trans' \in Seq(Trans)
  BY <1>14 DEF Piece
<1> QED BY <1>1, <1>2, <1>5, <1>17, <1>18, <1>19, <1>20, StepKeeps

LEMMA HprxmPiece ==
  ASSUME BarAssumption, NEW b \in Bars, NEW n \in {4, 8, 16, 32, 64}, NEW a \in Nat,
         NEW d \in Nat, a % Least(n, 32) = 0,
         a + n <= Bar[b].len, d + n <= BufferSize
  PROVE  Piece(b, hprxm_access_single(a, d, n), a, d, n)
<1>1. n \in {1, 2, 4, 8, 16, 32, 64} /\ n >= 4
  OBVIOUS
<1>2. Piece(b, Moves(a, d, n), a, d, n)
  BY <1>1, MovesPiece
<1> QED BY <1>2 DEF hprxm_access_single

\* Where a left-justified access starts.
LEMMA LeftBegins ==
  ASSUME NEW a \in Nat, NEW n \in 1 .. 64, n % 4 = 0, AlignedFrom(a, n)
  PROVE  LET q == round_up_to_po2(n)
         IN  /\ q \in Po2Lens \cup {64} /\ n < 2 * q
             /\ \A p \in Po2Lens : p <= q /\ p <= n => a % p = 0
<1> DEFINE q == round_up_to_po2(n)
<1>1. n \in 1 .. 128 /\ n >= 4
  OBVIOUS
<1>2. q \in Po2s /\ n <= q /\ \A p \in Po2s : n <= p => q <= p
  BY <1>1, RoundUp
<1> HIDE DEF q
<1>3. q <= 64
  BY <1>2 DEF Po2s
<1>4. q \in Po2Lens \cup {64} /\ n < 2 * q
  BY <1>1, <1>2, <1>3 DEF Po2s, Po2Lens
<1> QED BY <1>4 DEF AlignedFrom, q

\* Alignment within a frame is alignment.
LEMMA FrameAligned ==
  ASSUME NEW a \in Nat, NEW m \in Nat, NEW p \in Po2Lens, ((a % 32) + m) % p = 0
  PROVE  (a + m) % p = 0
BY DEF Po2Lens

LEMMA AlignedBack ==
  ASSUME NEW x \in Nat, NEW y \in Nat, NEW p \in Po2Lens, (x + y) % p = 0, y % p = 0
  PROVE  x % p = 0
<1>1. CASE p = 4
  BY <1>1
<1>2. CASE p = 8
  BY <1>2
<1>3. CASE p = 16
  BY <1>3
<1>4. CASE p = 32
  BY <1>4
<1> QED BY <1>1, <1>2, <1>3, <1>4 DEF Po2Lens

LEMMA HprxmKeeps ==
  ASSUME BarAssumption, BarInv, hprxm_access
  PROVE  BarInv'
<1> DEFINE start == addr % 32
           m == RightPart(start, count)
<1>1. /\ pc = "hprxm" /\ op' = op
      /\ UNCHANGED <<use_cmd, cur, pos, op, addr, data, trans, ret>>
      /\ IF m = 0 THEN LeftStart(count)
         ELSE pc' = "right" /\ po2' = 2 /\ count' = m /\ rest' = count - m
  BY DEF hprxm_access
<1>2. /\ addr \in Nat /\ data \in 0 .. BufferSize /\ count \in 0 .. 64 /\ rest \in Nat
      /\ po2 \in Nat /\ trans \in Seq(Trans)
  BY DEF BarInv, TypeOK
<1>3. Accepted /\ CallOK /\ Stage
  BY <1>1 DEF BarInv, CallInv
<1>4. /\ Bar[op.bar].is_hprxm /\ ~Ahead /\ addr = op.offset /\ count = op.count /\ rest = 0
  BY <1>1, <1>3 DEF Stage
<1>5. addr % 4 = 0 /\ count % 4 = 0 /\ count \in 1 .. 64
  BY <1>2, <1>3, <1>4 DEF CallOK, Granular, Ahead, Accepted
<1>6. start \in 0 .. 31 /\ start % 4 = 0
  BY <1>2, <1>5
<1>7. /\ m \in 0 .. count /\ m % 4 = 0
      /\ AlignedTo(start + m, m) /\ AlignedFrom(start + m, count - m)
  <2> HIDE DEF start
  <2> QED BY <1>5, <1>6, RightPartAligned
<1> HIDE DEF m
<1>8. m \in Nat /\ AlignedTo(addr + m, m) /\ AlignedFrom(addr + m, count - m)
  <2>1. m \in Nat
    BY <1>2, <1>7
  <2>2. \A p \in Po2Lens : (start + m) % p = 0 => (addr + m) % p = 0
    BY <1>2, <2>1, FrameAligned, SMTT(30)
  <2> HIDE DEF start
  <2> QED BY <1>7, <2>1, <2>2 DEF AlignedTo, AlignedFrom
<1>9. Bar[op.bar].is_hprxm /\ (Ahead' <=> Ahead)
  BY <1>1, <1>4, SameCall
<1>10. CASE m = 0
  <2> DEFINE q == round_up_to_po2(count)
  <2>1. pc' = "left" /\ po2' = q /\ count' = count /\ rest' = 0
    BY <1>1, <1>10 DEF LeftStart
  <2>2. AlignedFrom(addr, count)
    <3>1. addr + m = addr /\ count - m = count
      BY <1>2, <1>10
    <3> QED BY <1>8, <3>1
  <2>3. /\ q \in Po2Lens \cup {64} /\ count < 2 * q
        /\ \A p \in Po2Lens : p <= q /\ p <= count => addr % p = 0
    BY <1>2, <1>5, <2>2, LeftBegins, ZenonT(40)
  <2> HIDE DEF q
  <2>4. q \in Nat
    BY <2>3 DEF Po2Lens
  <2>5. Stage'
    BY <1>1, <1>4, <1>5, <1>9, <2>1, <2>3 DEF Stage
  <2>6. count' \in Nat /\ rest' \in Nat /\ count' + rest' = count + rest
    <3>1. rest = 0
      BY <1>4
    <3> QED BY <1>2, <2>1, <3>1
  <2>7. IssuedInv' /\ CallOK'
    BY <1>1, <2>1, <2>6, IssueNone
  <2> QED BY <1>1, <1>2, <2>1, <2>4, <2>5, <2>6, <2>7, StepKeeps
<1>11. CASE m # 0
  <2>1. pc' = "right" /\ po2' = 2 /\ count' = m /\ rest' = count - m
    BY <1>1, <1>11
  <2>2. /\ count' \in 0 .. 64 /\ rest' \in Nat /\ count' + rest' = count + rest
        /\ count' \in Nat
    <3>1. rest = 0 /\ m \in 0 .. count
      BY <1>4, <1>7
    <3> QED BY <1>2, <2>1, <3>1
  <2>3. m % 4 = 0 /\ (count - m) % 4 = 0 /\ m % (2 \div 2) = 0
    BY <1>5, <1>7, <1>8
  <2>4. Stage'
    BY <1>1, <1>4, <1>8, <1>9, <2>1, <2>3 DEF Stage
  <2>5. IssuedInv' /\ CallOK'
    BY <1>1, <2>1, <2>2, IssueNone
  <2> QED BY <1>1, <1>2, <2>1, <2>2, <2>4, <2>5, StepKeeps
<1> QED BY <1>10, <1>11

\* One aligned access to an HPRXM, of a size that is not beyond the bytes still to
\* come on this side of the split point.
LEMMA HprxmIssue ==
  ASSUME BarAssumption, BarInv, pc \in {"left", "right"}, op' = op, rest' = rest,
         NEW n \in {4, 8, 16, 32, 64}, n <= count, addr % Least(n, 32) = 0,
         Advance(hprxm_access_single(addr, data, n), n), pc' = pc
  PROVE  /\ trans' \in Seq(Trans) /\ addr' \in Nat /\ data' \in 0 .. BufferSize
         /\ count' \in 0 .. 64 /\ IssuedInv' /\ CallOK'
<1>1. /\ TypeOK /\ CallOK /\ op.bar \in Bars /\ addr \in Nat /\ n \in Nat
  BY CallTypes, SMTT(30) DEF BarInv, CallInv, TypeOK
<1>2. addr + n <= Bar[op.bar].len /\ data + n <= BufferSize /\ data \in Nat
  BY <1>1, RestFits
<1> DEFINE b == op.bar
           ts == hprxm_access_single(addr, data, n)
<1>3. Piece(b, ts, addr, data, n)
  <2>1. b \in Bars /\ addr + n <= Bar[b].len
    BY <1>1, <1>2
  <2> HIDE DEF b
  <2> QED BY <1>1, <1>2, <2>1, HprxmPiece
<1> HIDE DEF ts
<1>4. ts \in Seq(Trans) /\ AllFit(op.bar, ts) /\ Covers(ts, addr, data, n)
      /\ Chain(ts, addr, addr + n)
  BY <1>3 DEF Piece
<1>5. Advance(ts, n)
  BY DEF ts
<1>6. pc \notin {"idle", "copy", "return"} /\ pc' # "return" /\ pc' # "copy"
  OBVIOUS
<1> QED BY <1>1, <1>4, <1>5, <1>6, Issue

LEMMA LeftKeeps ==
  ASSUME BarAssumption, BarInv, hprxm_access_left_justified
  PROVE  BarInv'
<1>1. /\ pc = "left" /\ op' = op /\ rest' = rest
      /\ UNCHANGED <<use_cmd, cur, pos, op, ret>>
  BY DEF hprxm_access_left_justified
<1>2. /\ addr \in Nat /\ data \in 0 .. BufferSize /\ count \in 0 .. 64 /\ rest \in Nat
      /\ po2 \in Nat /\ trans \in Seq(Trans)
  BY DEF BarInv, TypeOK
<1>3. Stage
  BY <1>1 DEF BarInv, CallInv
<1>4. Bar[op.bar].is_hprxm /\ ~Ahead
  BY <1>1, <1>3 DEF Stage
<1>5. po2 \in {4, 8, 16, 32, 64} /\ count < 2 * po2 /\ count % 4 = 0 /\ rest = 0
  BY <1>1, <1>3 DEF Stage, Po2Lens
<1>6. \A p \in Po2Lens : p <= po2 /\ p <= count => addr % p = 0
  BY <1>1, <1>3 DEF Stage
<1>7. Bar[op.bar].is_hprxm /\ (Ahead' <=> Ahead)
  BY <1>1, <1>4, SameCall
<1>8. CASE /\ count > 0 /\ count >= po2
           /\ Advance(hprxm_access_single(addr, data, po2), po2)
           /\ pc' = pc /\ po2' = po2
  <2>1. addr % Least(po2, 32) = 0
    <3>1. Least(po2, 32) \in Po2Lens /\ Least(po2, 32) <= po2
      BY <1>5 DEF Least, Po2Lens
    <3>2. Least(po2, 32) <= count
      BY <1>2, <1>5, <1>8, <3>1 DEF Po2Lens
    <3> QED BY <1>6, <3>1, <3>2
  <2>2. /\ trans' \in Seq(Trans) /\ addr' \in Nat /\ data' \in 0 .. BufferSize
        /\ count' \in 0 .. 64 /\ IssuedInv' /\ CallOK'
    BY <1>1, <1>2, <1>5, <1>8, <2>1, HprxmIssue
  <2>3. addr' = addr + po2 /\ count' = count - po2
    BY <1>8 DEF Advance
  <2>4. count' < 2 * po2 /\ count' % 4 = 0
    BY <1>2, <1>5, <2>3, SMTT(30)
  <2>5. ASSUME NEW p \in Po2Lens, p <= po2, p <= count' PROVE addr' % p = 0
    <3>1. p <= count /\ p \in Nat
      BY <1>5, <1>8, <2>5, <1>2 DEF Po2Lens
    <3>2. addr % p = 0
      BY <1>6, <2>5, <3>1
    <3>3. po2 % p = 0
      BY <1>5, <2>5 DEF Po2Lens
    <3> QED BY <1>2, <2>3, <3>2, <3>3 DEF Po2Lens
  <2>6. Stage'
    <3>1. po2' \in Po2Lens \cup {64}
      BY <1>5, <1>8 DEF Po2Lens
    <3> QED BY <1>1, <1>5, <1>7, <1>4, <1>8, <2>4, <2>5, <3>1 DEF Stage
  <2> QED BY <1>1, <1>2, <1>8, <2>2, <2>6, StepKeeps
<1>9. CASE /\ count > 0 /\ count < po2 /\ po2' = Half(po2)
           /\ UNCHANGED <<pc, addr, data, count, trans>>
  <2>1. po2 # 4
    BY <1>2, <1>5, <1>9
  <2>2. po2' \in {4, 8, 16, 32} /\ count < 2 * po2' /\ po2' <= po2
    BY <1>2, <1>5, <1>9, <2>1 DEF Half
  <2>3. Stage'
    <3>1. po2' \in Po2Lens \cup {64}
      BY <2>2 DEF Po2Lens
    <3>2. \A p \in Po2Lens : p <= po2' /\ p <= count => addr % p = 0
      BY <1>2, <1>6, <2>2 DEF Po2Lens
    <3> QED BY <1>1, <1>4, <1>5, <1>7, <1>9, <2>2, <3>1, <3>2 DEF Stage
  <2>4. /\ count' \in Nat /\ rest' \in Nat /\ count' + rest' = count + rest
        /\ pc' # "copy" /\ pc' # "return"
    BY <1>1, <1>2, <1>9
  <2>5. IssuedInv' /\ CallOK'
    BY <1>1, <1>9, <2>4, IssueNone
  <2> QED BY <1>1, <1>2, <1>9, <2>2, <2>3, <2>5, StepKeeps
<1>10. CASE /\ count = 0 /\ pc' = "copy"
            /\ UNCHANGED <<addr, data, count, po2, trans>>
  <2>1. /\ count' \in Nat /\ rest' \in Nat /\ count' + rest' = count + rest
        /\ count + rest = 0
    BY <1>1, <1>2, <1>5, <1>10
  <2>2. IssuedInv' /\ CallOK' /\ addr' = op.offset + op.count
    BY <1>1, <1>10, <2>1, IssueNone
  <2>3. Stage'
    BY <1>10 DEF Stage
  <2> QED BY <1>1, <1>2, <1>10, <2>1, <2>2, <2>3, StepKeeps
<1> QED BY <1>8, <1>9, <1>10 DEF hprxm_access_left_justified

LEMMA RightKeeps ==
  ASSUME BarAssumption, BarInv, hprxm_access_right_justified
  PROVE  BarInv'
<1>1. /\ pc = "right" /\ op' = op
      /\ UNCHANGED <<use_cmd, cur, pos, op, ret>>
  BY DEF hprxm_access_right_justified
<1>2. /\ addr \in Nat /\ data \in 0 .. BufferSize /\ count \in 0 .. 64 /\ rest \in Nat
      /\ po2 \in Nat /\ trans \in Seq(Trans)
  BY DEF BarInv, TypeOK
<1>3. Stage /\ CallOK
  BY <1>1 DEF BarInv, CallInv
<1>4. Bar[op.bar].is_hprxm /\ ~Ahead
  BY <1>1, <1>3 DEF Stage
<1>5. /\ po2 \in {2, 4, 8, 16, 32, 64, 128, 256} /\ count % (po2 \div 2) = 0
      /\ count % 4 = 0 /\ rest % 4 = 0
  BY <1>1, <1>3 DEF Stage, Po2Lens
<1>6. AlignedTo(addr + count, count) /\ AlignedFrom(addr + count, rest)
  BY <1>1, <1>3 DEF Stage
<1>7. Bar[op.bar].is_hprxm /\ (Ahead' <=> Ahead)
  BY <1>1, <1>4, SameCall
<1>8. CASE /\ count > 0 /\ po2' = 2 * po2 /\ pc' = pc /\ rest' = rest
           /\ count % po2 # 0
           /\ Advance(hprxm_access_single(addr, data, po2 \div 2), po2 \div 2)
  <2> DEFINE n == po2 \div 2
  <2>1. po2 \in {8, 16, 32, 64, 128} /\ n \in {4, 8, 16, 32, 64} /\ n <= count
        /\ po2' \in {16, 32, 64, 128, 256} /\ n = po2' \div 4
    <3>1. po2 # 2 /\ po2 # 4
      <4>1. count % 4 = 0 /\ count % po2 # 0 /\ count \in Nat
        BY <1>2, <1>5, <1>8
      <4>2. count % 2 = 0
        BY <4>1
      <4> QED BY <4>1, <4>2
    <3>2. po2 # 256
      <4> SUFFICES ASSUME po2 = 256 PROVE FALSE
        OBVIOUS
      <4>1. count % 128 = 0
        BY <1>5
      <4> QED BY <1>2, <1>8, <4>1
    <3>3. po2 \in {8, 16, 32, 64, 128}
      BY <1>5, <3>1, <3>2
    <3>4. n \in {4, 8, 16, 32, 64} /\ po2' \in {16, 32, 64, 128, 256} /\ n = po2' \div 4
      BY <1>8, <3>3
    <3>5. n <= count
      <4>1. n \in {4, 8, 16, 32, 64} /\ count % n = 0 /\ count \in 1 .. 64
        BY <1>2, <1>5, <1>8, <3>4
      <4> HIDE DEF n
      <4> QED BY <4>1
    <3> QED BY <3>3, <3>4, <3>5
  <2>2. addr' = addr + n /\ count' = count - n
    BY <1>8 DEF Advance
  <2>3. (count - n) % po2 = 0 /\ (count - n) % 4 = 0 /\ po2' \div 2 = po2
        /\ count - n \in Nat
    BY <1>2, <1>5, <1>8, <2>1, SMTT(30)
  <2>4. count % n = 0 /\ Advance(hprxm_access_single(addr, data, n), n)
    BY <1>5, <1>8
  <2> HIDE DEF n
  <2>5. addr % Least(n, 32) = 0
    <3> DEFINE p == Least(n, 32)
    <3>1. p \in Po2Lens /\ p <= n /\ count % p = 0
      <4>0. n \in {4, 8, 16, 32, 64} /\ count \in Nat /\ count % n = 0
        <5>1. n \in {4, 8, 16, 32, 64}
          BY <2>1
        <5>2. count % n = 0
          BY <2>4
        <5>3. count \in Nat
          BY <1>2
        <5> QED BY <5>1, <5>2, <5>3
      <4>1. CASE n = 64
        <5>1. p = 32 /\ count % 64 = 0
          BY <4>0, <4>1 DEF Least
        <5>2. count % 32 = 0
          BY <4>0, <5>1
        <5> QED BY <4>1, <5>1, <5>2 DEF Po2Lens
      <4>2. CASE n \in {4, 8, 16, 32}
        <5>1. p = n
          BY <4>2 DEF Least
        <5>2. n \in Po2Lens /\ n <= n
          BY <4>2 DEF Po2Lens
        <5> HIDE DEF p
        <5> QED BY <4>0, <5>1, <5>2
      <4> QED BY <4>0, <4>1, <4>2
    <3> HIDE DEF p
    <3>2. (addr + count) % p = 0
      BY <1>2, <1>6, <2>1, <3>1 DEF AlignedTo, Po2Lens
    <3>3. addr % p = 0
      BY <1>2, <3>1, <3>2, AlignedBack
    <3> QED BY <3>3 DEF p
  <2>6. /\ trans' \in Seq(Trans) /\ addr' \in Nat /\ data' \in 0 .. BufferSize
        /\ count' \in 0 .. 64 /\ IssuedInv' /\ CallOK'
    BY <1>1, <1>8, <2>1, <2>4, <2>5, HprxmIssue
  <2>7. addr' + count' = addr + count /\ count' <= count
    <3>1. addr \in Int /\ count \in Int /\ n \in Nat
      BY <1>2, <2>1
    <3> QED BY <2>2, <3>1
  <2>8. AlignedTo(addr' + count', count') /\ AlignedFrom(addr' + count', rest')
    <3>1. \A p \in Po2Lens : p <= count' => p <= count
      BY <1>2, <2>6, <2>7 DEF Po2Lens
    <3> QED BY <1>6, <1>8, <2>7, <3>1 DEF AlignedTo, AlignedFrom
  <2>9. Stage'
    <3>1. po2' \in Po2Lens \cup {2, 64, 128, 256} /\ count' % (po2' \div 2) = 0
          /\ count' % 4 = 0 /\ rest' % 4 = 0
      BY <1>5, <1>8, <2>1, <2>2, <2>3 DEF Po2Lens
    <3> QED BY <1>1, <1>4, <1>7, <1>8, <2>8, <3>1 DEF Stage
  <2>10. po2' \in Nat /\ rest' \in Nat
    BY <1>2, <1>8
  <2> QED BY <1>1, <1>8, <2>6, <2>9, <2>10, StepKeeps
<1>9. CASE /\ count > 0 /\ po2' = 2 * po2 /\ pc' = pc /\ rest' = rest
           /\ count % po2 = 0 /\ UNCHANGED <<addr, data, count, trans>>
  <2>1. po2 # 256 /\ po2 # 128
    BY <1>2, <1>9, SMTT(30)
  <2>2. po2' \in Po2Lens \cup {2, 64, 128, 256} /\ count % (po2' \div 2) = 0
    BY <1>5, <1>9, <2>1 DEF Po2Lens
  <2>3. Stage'
    BY <1>1, <1>4, <1>5, <1>6, <1>7, <1>9, <2>2 DEF Stage, AlignedTo, AlignedFrom
  <2>4. /\ count' \in Nat /\ rest' \in Nat /\ count' + rest' = count + rest
        /\ pc' # "copy" /\ pc' # "return"
    BY <1>1, <1>2, <1>9
  <2>5. IssuedInv' /\ CallOK'
    BY <1>1, <1>9, <2>4, IssueNone
  <2> QED BY <1>1, <1>2, <1>9, <2>3, <2>4, <2>5, StepKeeps
<1>10. CASE count = 0 /\ rest > 0 /\ LeftStart(rest) /\ UNCHANGED <<addr, data, trans>>
  <2> DEFINE q == round_up_to_po2(rest)
  <2>1. pc' = "left" /\ po2' = q /\ count' = rest /\ rest' = 0
    BY <1>10 DEF LeftStart
  <2>2. rest \in 1 .. 64
    <3> DEFINE o == op.offset
               c == op.count
    <3>1. o \in Nat /\ c \in Nat /\ c <= 64 /\ addr >= o /\ addr + count + rest = o + c
      BY <1>3, CallTypes DEF CallOK, BarInv
    <3> HIDE DEF o, c
    <3> QED BY <1>2, <1>10, <3>1
  <2>3. AlignedFrom(addr, rest)
    <3>1. addr + count = addr
      BY <1>2, <1>10
    <3> QED BY <1>6, <3>1
  <2>4. /\ q \in Po2Lens \cup {64} /\ rest < 2 * q
        /\ \A p \in Po2Lens : p <= q /\ p <= rest => addr % p = 0
    <3>1. addr \in Nat /\ rest % 4 = 0
      BY <1>2, <1>5
    <3> QED BY <2>2, <2>3, <3>1, LeftBegins
  <2> HIDE DEF q
  <2>5. q \in Nat
    BY <2>4 DEF Po2Lens
  <2>6. Stage'
    BY <1>1, <1>4, <1>5, <1>7, <1>10, <2>1, <2>4 DEF Stage
  <2>7. /\ count' \in 0 .. 64 /\ count' \in Nat /\ rest' \in Nat
        /\ count' + rest' = count + rest
    BY <1>2, <1>10, <2>1, <2>2
  <2>8. IssuedInv' /\ CallOK'
    BY <1>1, <1>10, <2>1, <2>7, IssueNone
  <2> QED BY <1>1, <1>2, <1>10, <2>1, <2>5, <2>6, <2>7, <2>8, StepKeeps
<1>11. CASE /\ count = 0 /\ rest = 0 /\ pc' = "copy"
            /\ UNCHANGED <<addr, data, count, po2, rest, trans>>
  <2>1. /\ count' \in Nat /\ rest' \in Nat /\ count' + rest' = count + rest
        /\ count + rest = 0
    BY <1>2, <1>11
  <2>2. IssuedInv' /\ CallOK' /\ addr' = op.offset + op.count
    BY <1>1, <1>11, <2>1, IssueNone
  <2>3. Stage'
    BY <1>11 DEF Stage
  <2> QED BY <1>1, <1>2, <1>11, <2>1, <2>2, <2>3, StepKeeps
<1>12. \/ /\ count > 0 /\ po2' = 2 * po2 /\ pc' = pc /\ rest' = rest
          /\ IF count % po2 # 0
             THEN Advance(hprxm_access_single(addr, data, po2 \div 2), po2 \div 2)
             ELSE UNCHANGED <<addr, data, count, trans>>
       \/ count = 0 /\ rest > 0 /\ LeftStart(rest) /\ UNCHANGED <<addr, data, trans>>
       \/ /\ count = 0 /\ rest = 0 /\ pc' = "copy"
          /\ UNCHANGED <<addr, data, count, po2, rest, trans>>
  BY DEF hprxm_access_right_justified
<1> QED BY <1>8, <1>9, <1>10, <1>11, <1>12

-----------------------------------------------------------------------------
(* The invariant.                                                           *)

\* Steps that concern no call in progress.
LEMMA OtherKeeps ==
  ASSUME BarAssumption, BarInv, UNCHANGED <<pc, callVars, ret>>, TypeOK'
  PROVE  BarInv'
<1>1. /\ UNCHANGED <<pc, op, addr, data, count, po2, rest, trans, ret>>
      /\ CallInv /\ IssuedInv
  BY DEF callVars, BarInv
<1>2. First' = First /\ (Ahead' <=> Ahead) /\ (Accepted' <=> Accepted)
  BY <1>1, SameCall
<1>3. (Through' <=> Through)
  BY <1>1, <1>2 DEF Through
<1>4. (CallOK' <=> CallOK) /\ (Stage' <=> Stage)
  <2>1. CallOK' <=> CallOK
    BY <1>1, <1>2 DEF CallOK, Granular
  <2>2. Stage' <=> Stage
    BY <1>1, <1>2 DEF Stage
  <2> QED BY <2>1, <2>2
<1>5. CallInv'
  BY <1>1, <1>2, <1>3, <1>4 DEF CallInv
<1>6. IssuedInv'
  BY <1>1, <1>2, <1>3 DEF IssuedInv
<1> QED BY <1>5, <1>6 DEF BarInv

LEMMA AccessKeeps ==
  ASSUME BarAssumption, BarInv, NEW read \in BOOLEAN, NEW n \in Counts,
         chr_access(read, n)
  PROVE  BarInv'
<1>1. n \in Nat /\ CmdOffsets \subseteq Nat /\ cur \in Bars /\ pos \in Nat
  BY DEF BarAssumption, BarInv, TypeOK
<1>2. CASE Enter(read, cur, pos, n)
  BY <1>1, <1>2, EnterKeeps
<1>3. CASE \E b \in Bars, o \in CmdOffsets : Enter(read, b, o, n)
  BY <1>1, <1>3, EnterKeeps
<1>4. CASE pc = "idle" /\ Fail(EFAULT)
  BY <1>4, FailKeeps
<1> QED BY <1>2, <1>3, <1>4, Zenon DEF chr_access

LEMMA BarNext ==
  ASSUME BarAssumption, BarInv, [Next]_vars
  PROVE  BarInv'
<1>1. TypeOK
  BY DEF BarInv
<1>2. CASE \E read \in BOOLEAN, n \in Counts : chr_access(read, n)
  BY <1>2, AccessKeeps
<1>3. CASE \E off \in SeekTo, whence \in 0 .. 2 : ~use_cmd /\ chr_llseek(off, whence)
  <2>1. /\ UNCHANGED <<use_cmd, cur, pc, callVars, ret>>
        /\ pos' \in Nat
    <3>1. PICK off \in SeekTo, whence \in 0 .. 2 : chr_llseek(off, whence)
      BY <1>3
    <3>2. off \in Int /\ pos \in Int /\ Bar[cur].len \in Int
      BY <1>1 DEF TypeOK, BarAssumption
    <3>3. whence = 0 \/ whence = 1 \/ whence = 2
      OBVIOUS
    <3>4. PICK x \in Int : pos' = x /\ x >= 0
      BY <3>1, <3>2, <3>3 DEF chr_llseek
    <3> QED BY <3>1, <3>4 DEF chr_llseek
  <2>2. TypeOK'
    BY <1>1, <2>1 DEF TypeOK, callVars
  <2> QED BY <2>1, <2>2, OtherKeeps
<1>4. CASE \E b \in Bars : sel_bar(b)
  <2>1. UNCHANGED <<use_cmd, pos, pc, callVars, ret>> /\ cur' \in Bars
    BY <1>4 DEF sel_bar
  <2>2. TypeOK'
    BY <1>1, <2>1 DEF TypeOK, callVars
  <2> QED BY <2>1, <2>2, OtherKeeps
<1>5. CASE Step
  BY <1>5, PrefetchKeeps, HprxmKeeps, LeftKeeps, RightKeeps, RxmFirstKeeps, RxmRestKeeps,
     FinishKeeps, ReturnKeeps DEF Step
<1>6. CASE UNCHANGED vars
  <2>1. UNCHANGED <<use_cmd, cur, pos, pc, callVars, ret>>
    BY <1>6 DEF vars
  <2>2. TypeOK'
    BY <1>1, <2>1 DEF TypeOK, callVars
  <2> QED BY <2>1, <2>2, OtherKeeps
<1> QED BY <1>2, <1>3, <1>4, <1>5, <1>6 DEF Next

\* The invariant holds in every reachable state.
THEOREM BarInvariant == Spec => []BarInv
<1>1. Init => BarInv
  BY BarAssumption, BarInit
<1>2. BarInv /\ [Next]_vars => BarInv'
  BY BarAssumption, BarNext
<1> QED BY <1>1, <1>2, PTL DEF Spec

\* Every variable of the model has its type; in particular the index into the bounce
\* buffer never leaves it.
THEOREM TypeCorrect == Spec => []TypeOK
<1>1. BarInv => TypeOK
  BY DEF BarInv
<1> QED BY <1>1, BarInvariant, PTL

\* hprxm_access_single and rxm_access_single: whatever the offset and the size of a call,
\* every bus transaction is a power of two, aligned to it, a DWORD at least for an
\* HPRXM, and ends inside the BAR.
THEOREM AlwaysLegal == Spec => []TransactionsLegal
<1>1. BarInv => TransactionsLegal
  <2> SUFFICES ASSUME BarInv, NEW t \in Sent
               PROVE  /\ t.at % t.len = 0
                      /\ Bar[op.bar].is_hprxm => t.len >= 4
                      /\ t.at + t.len <= Bar[op.bar].len
    BY DEF TransactionsLegal
  <2>1. trans \in Seq(Trans)
    BY DEF BarInv, TypeOK
  <2>2. PICK i \in 1 .. Len(trans) : t = trans[i]
    BY <2>1, LenProperties DEF Sent
  <2>3. Fits(op.bar, t)
    BY <2>2 DEF BarInv, IssuedInv, AllFit
  <2> QED BY <2>3 DEF Fits
<1> QED BY <1>1, BarInvariant, PTL

\* chr_access: the bounce buffer on the stack holds whatever a call moves, the whole
\* frames of a read in advance included.
THEOREM BufferSuffices == Spec => []BufferBounded
<1>1. BarInv => BufferBounded
  <2> SUFFICES ASSUME BarInv, NEW t \in Sent PROVE t.data + t.n <= BufferSize
    BY DEF BufferBounded
  <2>1. trans \in Seq(Trans)
    BY DEF BarInv, TypeOK
  <2>2. PICK i \in 1 .. Len(trans) : t = trans[i]
    BY <2>1, LenProperties DEF Sent
  <2>3. Fits(op.bar, t)
    BY <2>2 DEF BarInv, IssuedInv, AllFit
  <2> QED BY <2>3 DEF Fits
<1> QED BY <1>1, BarInvariant, PTL

\* chr_access: when a call returns n, each of the n bytes has been moved between its
\* place in the buffer and its address.
THEOREM NoByteMissed == Spec => []BytesMoved
<1>1. BarInv => BytesMoved
  <2> SUFFICES ASSUME BarInv, Served PROVE
        LET first == op.offset % (IF Bar[op.bar].is_hprxm THEN 32 ELSE 4)
        IN  \A i \in 0 .. ret - 1 :
              \E t \in Sent : /\ first + i \in t.data .. t.data + t.n - 1
                              /\ t.from + (first + i - t.data) = op.offset + i
                              /\ op.offset + i \in Bytes(t)
    BY DEF BytesMoved
  <2>1. TypeOK /\ trans \in Seq(Trans) /\ Accepted /\ ret = op.count /\ pc = "return"
    BY DEF BarInv, CallInv, TypeOK, Served
  <2>2. Covers(trans, op.offset, First, op.count)
    BY <2>1 DEF BarInv, IssuedInv, Through
  <2>3. First \in Nat /\ op.offset \in Nat /\ op.count \in Nat
    <3>1. First \in 0 .. 31 /\ op.offset \in Nat /\ op.count \in Nat
      BY <2>1, CallTypes, BarAssumption
    <3> QED BY <3>1
  <2>4. ASSUME NEW k \in 0 .. ret - 1
        PROVE  \E t \in Sent : /\ First + k \in t.data .. t.data + t.n - 1
                               /\ t.from + (First + k - t.data) = op.offset + k
                               /\ op.offset + k \in Bytes(t)
    <3>1. PICK i \in 1 .. Len(trans) : Carries(trans[i], op.offset + k, First + k)
      BY <2>1, <2>2 DEF Covers
    <3> DEFINE t == trans[i]
    <3>2. t \in Trans /\ t \in Sent
      BY <2>1, <3>1, LenProperties, ElementOfSeq DEF Sent
    <3>3. t.data \in Nat /\ t.n \in Nat /\ t.at \in Nat /\ t.len \in Nat
      BY <3>2 DEF Trans
    <3>4. Carries(t, op.offset + k, First + k)
      BY <3>1
    <3> HIDE DEF t
    <3> DEFINE x == First + k
               y == op.offset + k
    <3>5. x \in Int /\ y \in Int
      BY <2>3
    <3>6. Carries(t, y, x)
      BY <3>4
    <3> HIDE DEF x, y
    <3>7. /\ t.data <= x /\ x < t.data + t.n /\ t.from + (x - t.data) = y
          /\ t.at <= y /\ y < t.at + t.len
      BY <3>6 DEF Carries
    <3>8. x \in t.data .. t.data + t.n - 1 /\ y \in t.at .. t.at + t.len - 1
      <4>1. \A u, v \in Nat, z \in Int : u <= z /\ z < u + v => z \in u .. u + v - 1
        OBVIOUS
      <4> QED BY <3>3, <3>5, <3>7, <4>1
    <3>9. /\ x \in t.data .. t.data + t.n - 1 /\ t.from + (x - t.data) = y
          /\ y \in Bytes(t)
      BY <3>7, <3>8 DEF Bytes
    <3>10. /\ First + k \in t.data .. t.data + t.n - 1
           /\ t.from + (First + k - t.data) = op.offset + k
           /\ op.offset + k \in Bytes(t)
      <4>1. x = First + k /\ y = op.offset + k /\ k \in Int
        BY DEF x, y
      <4>2. First + k - t.data = x - t.data
        BY <2>3, <3>3, <4>1
      <4> QED BY <3>9, <4>1, <4>2, Zenon
    <3> QED BY <3>2, <3>10, Zenon
  <2> QED BY <2>4 DEF First
<1> QED BY <1>1, BarInvariant, PTL

\* chr_access: on a write, and where reading has effects, the transactions of a call
\* are exactly its bytes, in order, none twice.
THEOREM NeverTwice == Spec => []TouchedOnce
<1>1. BarInv => TouchedOnce
  <2> SUFFICES ASSUME BarInv, Served, ~Ahead
               PROVE  /\ trans[1].at = op.offset
                      /\ \A i \in 1 .. Len(trans) - 1 :
                           trans[i + 1].at = trans[i].at + trans[i].len
                      /\ trans[Len(trans)].at + trans[Len(trans)].len
                           = op.offset + op.count
    BY DEF TouchedOnce, Ahead
  <2>1. TypeOK /\ Accepted /\ pc = "return"
    BY DEF BarInv, CallInv, Served
  <2>2. Chain(trans, op.offset, addr) /\ addr = op.offset + op.count
    BY <2>1 DEF BarInv, CallInv, IssuedInv, Through
  <2>3. op.offset \in Nat /\ op.count \in Nat /\ op.count > 0
    BY <2>1, CallTypes, BarAssumption DEF Accepted
  <2>4. trans # <<>>
    BY <2>2, <2>3 DEF Chain
  <2> QED BY <2>2, <2>4 DEF Chain
<1> QED BY <1>1, BarInvariant, PTL
=============================================================================
