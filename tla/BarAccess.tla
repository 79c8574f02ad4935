----------------------------- MODULE BarAccess ------------------------------
(***************************************************************************)
(* read, write and lseek on the kernel module's character device           *)
(* (intel_fpga_pcie_chr.c): bytes move between a user buffer and a BAR     *)
(* through a bounce buffer, as a series of bus transactions the IP behind  *)
(* the BAR can take.  The file is used by one thread.  BARs are aligned to *)
(* their size, so that an offset stands for its address.                   *)
(***************************************************************************)
EXTENDS Integers, Sequences, FiniteSets, FiniteSetsExt

CONSTANTS
  Bars,         \* bar numbers
  Bar,          \* per bar: [base, len, is_hprxm, is_prefetchable]
  MAX_TRANSFER_SIZE,
  Width,        \* widest transaction of the build: 32 with AVX, 16 with SSE2,
                \* 8 on 64-bit, else 4
  Counts,       \* sizes a program asks for
  CmdOffsets,   \* offsets a program gives in a command
  SeekTo,       \* offsets a program seeks to
  MaxPos        \* bound: programs do not seek further

\* A BAR is a whole number of pairs of 32-byte frames.
ASSUME BarAssumption ==
  /\ Bars \subseteq 0 .. 5 /\ 0 \in Bars
  /\ Bar \in [Bars -> [base : BOOLEAN, len : Nat, is_hprxm : BOOLEAN,
                       is_prefetchable : BOOLEAN]]
  /\ \A b \in Bars : Bar[b].len % 64 = 0
  /\ MAX_TRANSFER_SIZE = 64 /\ Width \in {4, 8, 16, 32}
  /\ Counts \subseteq Nat /\ CmdOffsets \subseteq Nat /\ SeekTo \subseteq Int
  /\ MaxPos \in Nat

VARIABLES
  use_cmd,      \* commands, or the file offset, say where to access
  cur,          \* cur_bar_num
  pos,          \* file offset
  pc,
  op,           \* the call: direction, bar, offset and size after truncation
  addr, data, count,   \* loop variables: device address, buffer index, rest
  po2,
  rest,         \* bytes of the left-justified part still to come
  trans,        \* transactions of this call, in order
  ret           \* what the call returns, errors are negative

callVars == <<op, addr, data, count, po2, rest, trans>>
vars == <<use_cmd, cur, pos, pc, callVars, ret>>

EFAULT == -14
EINVAL == -22
BufferSize == MAX_TRANSFER_SIZE + 32
NoOp == [read |-> FALSE, bar |-> 0, offset |-> 0, count |-> 0]

\* A transaction of len bytes at an address.  n bytes of it, those from address
\* "from" on, move from or to the buffer index "data".
Trans == [at : Nat, len : {1, 2, 4, 8, 16, 32}, data : Nat, from : Nat, n : Nat]

TypeOK ==
  /\ use_cmd \in BOOLEAN /\ cur \in Bars /\ pos \in Nat
  /\ pc \in {"idle", "prefetch", "hprxm", "left", "right", "rxm", "rxm_mid",
             "copy", "return"}
  /\ op \in [read : BOOLEAN, bar : Bars, offset : Nat, count : Nat]
  /\ addr \in Nat /\ data \in 0 .. BufferSize /\ count \in 0 .. 64
  /\ po2 \in Nat /\ rest \in Nat
  /\ trans \in Seq(Trans) /\ ret \in Int

\* chr_open.  IntelFpgaPcieDev::Create goes on to ask for commands and keeps to
\* them until it closes the file; other programs use the file offset.
Init ==
  /\ use_cmd \in BOOLEAN /\ cur = 0 /\ pos = 0 /\ pc = "idle"
  /\ op = NoOp /\ addr = 0 /\ data = 0 /\ count = 0 /\ po2 = 0 /\ rest = 0
  /\ trans = <<>> /\ ret = 0

-----------------------------------------------------------------------------
(* Powers of two.                                                           *)

Po2s == {1, 2, 4, 8, 16, 32, 64, 128}

\* In 16 bits, 0 - 1 has all bits set, and adding one gives 0 again.
round_up_to_po2(n) == IF n = 0 THEN 0 ELSE Min({p \in Po2s : p >= n})
round_down_to_po2_mask(n) == Max({p \in Po2s : p <= n}) - 1

\* x & mask = 0, for a mask of low bits
Clear(x, mask) == x % (mask + 1) = 0

-----------------------------------------------------------------------------
(* The entry of chr_access.                                                 *)

Least(x, y) == IF x < y THEN x ELSE y

\* get_address: the size, cut at the end of the BAR, or 0 if there is none.
get_address(b, offset, n) ==
  IF ~Bar[b].base \/ offset >= Bar[b].len THEN 0
  ELSE Least(n, Bar[b].len - offset)

\* An HPRXM takes DWORDs, unless the extra bytes of a read do no harm.
Granular(b, read, offset, n) ==
  Bar[b].is_hprxm /\ ~(read /\ Bar[b].is_prefetchable) =>
    offset % 4 = 0 /\ n % 4 = 0

\* Mutant: every read from an HPRXM may read more than asked.
RouteReads(b, read) ==
  IF ~Bar[b].is_hprxm THEN "rxm" ELSE IF read THEN "prefetch" ELSE "hprxm"

Route(b, read) ==
  IF ~Bar[b].is_hprxm THEN "rxm"
  ELSE IF read /\ Bar[b].is_prefetchable THEN "prefetch" ELSE "hprxm"

Fail(e) == pc' = "return" /\ ret' = e /\ UNCHANGED <<callVars, use_cmd, cur, pos>>

\* chr_access up to the access proper; copying the data of a write from the
\* user may fail too.
Enter(read, b, offset, asked) ==
  LET n == get_address(b, offset, Least(asked, MAX_TRANSFER_SIZE))
  IN  /\ pc = "idle" /\ asked > 0
      /\ \/ n = 0 /\ Fail(EFAULT)
         \/ n > 0 /\ ~Granular(b, read, offset, n) /\ Fail(EINVAL)
         \/ n > 0 /\ Granular(b, read, offset, n) /\ ~read /\ Fail(EFAULT)
         \/ /\ n > 0 /\ Granular(b, read, offset, n)
            /\ op' = [read |-> read, bar |-> b, offset |-> offset, count |-> n]
            /\ addr' = offset /\ count' = n
            /\ data' = offset % (IF Bar[b].is_hprxm THEN 32 ELSE 4)
            /\ pc' = Route(b, read)
            /\ UNCHANGED <<use_cmd, cur, pos, po2, rest, trans, ret>>

\* chr_read and chr_write, in the two modes.  The command may be unreadable.
chr_access(read, asked) ==
  \/ ~use_cmd /\ Enter(read, cur, pos, asked)
  \/ use_cmd /\ \E b \in Bars, o \in CmdOffsets : Enter(read, b, o, asked)
  \/ use_cmd /\ pc = "idle" /\ asked > 0 /\ Fail(EFAULT)

-----------------------------------------------------------------------------
(* Transactions.                                                            *)

\* custom_ioread256_x86 and its kin: n bytes, no more than Width at a time.
Moves(a, d, n) ==
  LET w == Least(n, Width)
  IN  [i \in 1 .. n \div w |->
         [at |-> a + (i - 1) * w, len |-> w, data |-> d + (i - 1) * w,
          from |-> a + (i - 1) * w, n |-> w]]

\* Sizes other than these are silently left out.
hprxm_access_single(a, d, n) == IF n \in {4, 8, 16, 32, 64} THEN Moves(a, d, n)
                                ELSE <<>>

\* A misaligned pair and a triple are split, the even pair as one.
rxm_access_single(a, d, n) ==
  CASE n = 2 /\ a % 2 = 1 -> Moves(a, d, 1) \o Moves(a + 1, d + 1, 1)
    [] n = 3 /\ a % 2 = 1 -> Moves(a, d, 1) \o Moves(a + 1, d + 1, 2)
    [] n = 3 /\ a % 2 = 0 -> Moves(a, d, 2) \o Moves(a + 2, d + 2, 1)
    [] OTHER -> Moves(a, d, n)

\* The DWORD around it, of which n bytes are kept.
rxm_prefetchable_single_read(a, d, n) ==
  <<[at |-> a - (a % 4), len |-> 4, data |-> d, from |-> a, n |-> n]>>

\* Issue what is given and go on m bytes further.
Advance(ts, m) ==
  /\ trans' = trans \o ts
  /\ addr' = addr + m /\ data' = data + m /\ count' = count - m

-----------------------------------------------------------------------------
(* Prefetchable reads from an HPRXM: up to three 32-byte frames.            *)

\* Mutant: only two frames are read.
ThirdNever(a, n) == FALSE

\* Whether the frames after the first are read.
Second(a, n) == (a % 32) + n > 32
Third(a, n) == (a % 64) + n > 64

\* Mutant: the buffer is not aligned down with the address.
FrameIndexAny(d) == d

FrameIndex(d) == d - (d % 32)

Prefetch ==
  /\ pc = "prefetch"
  /\ LET Frame(i) == hprxm_access_single(addr - (addr % 32) + 32 * i,
                                         FrameIndex(data) + 32 * i, 32)
     IN  trans' = Frame(0) \o (IF Second(addr, count) THEN Frame(1) ELSE <<>>)
                           \o (IF Third(addr, count) THEN Frame(2) ELSE <<>>)
  /\ pc' = "copy"
  /\ UNCHANGED <<use_cmd, cur, pos, op, addr, data, count, po2, rest, ret>>

-----------------------------------------------------------------------------
(* Other accesses to an HPRXM: aligned powers of two, growing up to a split *)
(* point (right-justified) and shrinking after it (left-justified).         *)

\* Where to split an access of a frame's bytes start .. end - 1: it is shifted
\* down by powers of two until it would cross address 0.
SplitPoint(start, end) ==
  LET Shift[o \in 0 .. end] ==
        LET p == round_up_to_po2(end - o) \div 2
        IN  IF p < start - o THEN Shift[o + p] ELSE o + p
  IN  Shift[0]

\* Mutant: every access is taken to be left-justified.
RightPartNone(start, n) == 0

\* How many bytes come before the split point.
RightPart(start, n) ==
  LET mask == round_down_to_po2_mask(n)
  IN  IF Clear(start, mask) THEN 0
      ELSE IF Clear(start + n, mask) THEN n
      ELSE SplitPoint(start, start + n) - start

LeftStart(n) == pc' = "left" /\ po2' = round_up_to_po2(n)
                             /\ count' = n /\ rest' = 0

hprxm_access ==
  /\ pc = "hprxm"
  /\ LET diff == RightPart(addr % 32, count)
     IN  IF diff = 0 THEN LeftStart(count)
         ELSE pc' = "right" /\ po2' = 2 /\ count' = diff
                            /\ rest' = count - diff
  /\ UNCHANGED <<use_cmd, cur, pos, op, addr, data, trans, ret>>

Half(p) == p \div 2

hprxm_access_left_justified ==
  /\ pc = "left"
  /\ \/ /\ count > 0 /\ count >= po2
        /\ Advance(hprxm_access_single(addr, data, po2), po2)
        /\ UNCHANGED <<pc, po2>>
     \/ /\ count > 0 /\ count < po2
        /\ po2' = Half(po2)
        /\ UNCHANGED <<pc, addr, data, count, trans>>
     \/ count = 0 /\ pc' = "copy" /\ UNCHANGED <<addr, data, count, po2, trans>>
  /\ UNCHANGED <<use_cmd, cur, pos, op, rest, ret>>

hprxm_access_right_justified ==
  /\ pc = "right"
  /\ \/ /\ count > 0 /\ po2' = 2 * po2
        /\ IF count % po2 # 0
           THEN Advance(hprxm_access_single(addr, data, po2 \div 2), po2 \div 2)
           ELSE UNCHANGED <<addr, data, count, trans>>
        /\ UNCHANGED <<pc, rest>>
     \/ /\ count = 0 /\ rest > 0 /\ LeftStart(rest)
        /\ UNCHANGED <<addr, data, trans>>
     \/ /\ count = 0 /\ rest = 0 /\ pc' = "copy"
        /\ UNCHANGED <<addr, data, count, po2, rest, trans>>
  /\ UNCHANGED <<use_cmd, cur, pos, op, ret>>

-----------------------------------------------------------------------------
(* Accesses to an RXM: up to a DWORD boundary, DWORDs, the rest.            *)

RxmPart(n) ==
  Advance(IF op.read /\ Bar[op.bar].is_prefetchable
          THEN rxm_prefetchable_single_read(addr, data, n)
          ELSE rxm_access_single(addr, data, n), n)

FirstFirst(first, n) == first < n

rxm_access_first ==
  /\ pc = "rxm" /\ pc' = "rxm_mid"
  /\ IF FirstFirst(4 - (addr % 4), count) THEN RxmPart(4 - (addr % 4))
     ELSE UNCHANGED <<addr, data, count, trans>>
  /\ UNCHANGED <<use_cmd, cur, pos, op, po2, rest, ret>>

rxm_access_rest ==
  /\ pc = "rxm_mid"
  /\ \/ /\ count >= 4 /\ Advance(rxm_access_single(addr, data, 4), 4)
        /\ UNCHANGED pc
     \/ /\ count \in 1 .. 3 /\ RxmPart(count)
        /\ pc' = "copy"
     \/ count = 0 /\ pc' = "copy" /\ UNCHANGED <<addr, data, count, trans>>
  /\ UNCHANGED <<use_cmd, cur, pos, op, po2, rest, ret>>

-----------------------------------------------------------------------------
(* The end of chr_access, and the calls that only move the offset.          *)

Wrap(p, len) == IF p = len THEN 0 ELSE p

\* Copying the data of a read to the user may fail, after the access.
Finish ==
  /\ pc = "copy" /\ pc' = "return"
  /\ \/ op.read /\ ret' = EFAULT /\ UNCHANGED pos
     \/ /\ ret' = op.count
        /\ pos' = IF use_cmd THEN pos ELSE Wrap(pos + op.count, Bar[op.bar].len)
  /\ UNCHANGED <<use_cmd, cur, callVars>>

Return ==
  /\ pc = "return" /\ pc' = "idle" /\ ret' = 0
  /\ op' = NoOp /\ addr' = 0 /\ data' = 0 /\ count' = 0 /\ po2' = 0 /\ rest' = 0
  /\ trans' = <<>>
  /\ UNCHANGED <<use_cmd, cur, pos>>

\* SEEK_SET, SEEK_CUR and SEEK_END; a negative result is refused.
chr_llseek(off, whence) ==
  LET newpos == off + (CASE whence = 0 -> 0 [] whence = 1 -> pos
                         [] whence = 2 -> Bar[cur].len)
  IN  /\ pc = "idle" /\ newpos >= 0 /\ newpos <= MaxPos
      /\ pos' = newpos
      /\ UNCHANGED <<use_cmd, cur, pc, callVars, ret>>

\* Not while commands are in use.  The offset stays.
sel_bar(b) ==
  /\ pc = "idle" /\ ~use_cmd /\ Bar[b].base
  /\ cur' = b
  /\ UNCHANGED <<use_cmd, pos, pc, callVars, ret>>

Step ==
  \/ Prefetch \/ hprxm_access \/ hprxm_access_left_justified
  \/ hprxm_access_right_justified \/ rxm_access_first \/ rxm_access_rest
  \/ Finish \/ Return

Next ==
  \/ \E read \in BOOLEAN, n \in Counts : chr_access(read, n)
  \/ \E off \in SeekTo, whence \in 0 .. 2 : ~use_cmd /\ chr_llseek(off, whence)
  \/ \E b \in Bars : sel_bar(b)
  \/ Step

\* A system call runs to its end.
Spec == Init /\ [][Next]_vars /\ WF_vars(Step)

-----------------------------------------------------------------------------
(* Properties.                                                              *)

Sent == {trans[i] : i \in DOMAIN trans}
Served == pc = "return" /\ ret > 0
Bytes(t) == t.at .. t.at + t.len - 1

\* hprxm_access_single and rxm_access_single: a transaction is a power of two,
\* aligned to it, at least a DWORD for an HPRXM, and stays in the BAR, the bytes
\* read in advance and thrown away included.
TransactionsLegal ==
  \A t \in Sent :
    /\ t.at % t.len = 0
    /\ Bar[op.bar].is_hprxm => t.len >= 4
    /\ t.at + t.len <= Bar[op.bar].len

\* The splitting loses no byte: when a call returns n, byte i of the user's
\* buffer went to or came from address offset + i, for every i below n.
BytesMoved ==
  Served =>
    LET first == op.offset % (IF Bar[op.bar].is_hprxm THEN 32 ELSE 4)
    IN  \A i \in 0 .. ret - 1 :
          \E t \in Sent : /\ first + i \in t.data .. t.data + t.n - 1
                          /\ t.from + (first + i - t.data) = op.offset + i
                          /\ op.offset + i \in Bytes(t)

\* Where reading has effects, or on a write, exactly the bytes asked for are
\* touched, each once and in order.
TouchedOnce ==
  Served /\ ~(op.read /\ Bar[op.bar].is_prefetchable) =>
    /\ trans[1].at = op.offset
    /\ \A i \in 1 .. Len(trans) - 1 : trans[i + 1].at = trans[i].at + trans[i].len
    /\ trans[Len(trans)].at + trans[Len(trans)].len = op.offset + op.count

\* The bounce buffer on the kernel's stack is large enough for what is moved,
\* whole frames included.
BufferBounded == \A t \in Sent : t.data + t.n <= BufferSize
=============================================================================
