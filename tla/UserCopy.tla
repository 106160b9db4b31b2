------------------------------- MODULE UserCopy -------------------------------
(***************************************************************************)
(* The copies between kernel and user memory of kernel/vm.c, byte by byte  *)
(* and page by page, and the fetches of kernel/syscall.c built on them.    *)
(* A system call makes one request; mem is the physical memory, pt the     *)
(* caller's page table (the frame and the flags of each page that walk()   *)
(* finds), sz the size of the process, kbuf the kernel's buffer.           *)
(* Addresses may lie beyond MAXVA and are computed modulo TOP, as uint64.  *)
(***************************************************************************)
EXTENDS Integers, SequencesExt

CONSTANTS
  PGSIZE,       \* bytes in a page
  NPAGE,        \* pages below MAXVA
  TOP,          \* 2^64: one past the largest address
  WORD,         \* sizeof(uint64) in fetchaddr()
  Addresses, Lengths,     \* the arguments of the calls
  PageTables, Memories    \* page tables and memory contents to start from:
                          \* pages from 0 up, the trampoline the last one

CopyAssumption ==
  {PGSIZE, NPAGE, TOP, WORD} \subseteq Nat \ {0} /\ NPAGE * PGSIZE < TOP

VARIABLES pt, mem, sz, kbuf, req, ret

vars == <<pt, mem, sz, kbuf, req, ret>>

MAXVA == NPAGE * PGSIZE
NUL == 0

Calls == [fn : {"copyout", "copyin", "copyinstr", "fetchstr", "fetchaddr"},
          va : Addresses, len : Lengths]

(* The kernel's bytes to copy out are told apart by their position.        *)
Source(len) == [i \in 1..len |-> 100 + i]

NoCall == [fn |-> "none", va |-> 0, len |-> 0]

Init ==
  /\ pt = << >> /\ mem = << >> /\ sz = 0 /\ req = NoCall
  /\ kbuf = << >> /\ ret = "none"

(* Some process makes a call.                                              *)
call ==
  /\ req = NoCall
  /\ pt' \in PageTables /\ mem' \in Memories
  /\ sz' \in 0..(MAXVA - PGSIZE)
  /\ \A p \in 0..(NPAGE - 2) : (pt'[p].flags # {}) = (p * PGSIZE < sz')
  /\ req' \in {c \in Calls : c.fn = "fetchaddr" => c.len = WORD}
  /\ UNCHANGED <<kbuf, ret>>

PGROUNDDOWN(va) == va - (va % PGSIZE)

(* walkaddr(), and the tests copyout() makes of the entry: a frame or -1.  *)
Lookup(va0, need) ==
  IF va0 < MAXVA /\ ({"V"} \cup need) \subseteq pt[va0 \div PGSIZE].flags
    THEN pt[va0 \div PGSIZE].frame ELSE -1

Chunk(va, len) == Min({PGSIZE - (va - PGROUNDDOWN(va)), len})

NextPage(va) == (PGROUNDDOWN(va) + PGSIZE) % TOP

(* The physical address of va in frame pa.                                 *)
Phys(pa, va) == pa * PGSIZE + (va - PGROUNDDOWN(va))

RECURSIVE copyout(_, _, _)
MutReadOnly(m, va, src) ==
  LET pa == Lookup(PGROUNDDOWN(va), {"U"})
      n == Chunk(va, Len(src))
      d == Phys(pa, va)
  IN IF src = << >> THEN [ok |-> TRUE, mem |-> m]
     ELSE IF pa = -1 THEN [ok |-> FALSE, mem |-> m]
     ELSE copyout([a \in DOMAIN m |-> IF a \in d..(d + n - 1) THEN src[a - d + 1] ELSE m[a]],
                  NextPage(va), SubSeq(src, n + 1, Len(src)))

copyout(m, va, src) ==
  LET pa == Lookup(PGROUNDDOWN(va), {"U", "W"})
      n == Chunk(va, Len(src))
      d == Phys(pa, va)
  IN IF src = << >> THEN [ok |-> TRUE, mem |-> m]
     ELSE IF pa = -1 THEN [ok |-> FALSE, mem |-> m]
     ELSE copyout([a \in DOMAIN m |-> IF a \in d..(d + n - 1) THEN src[a - d + 1] ELSE m[a]],
                  NextPage(va), SubSeq(src, n + 1, Len(src)))

RECURSIVE copyin(_, _, _)
copyin(dst, va, len) ==
  LET pa == Lookup(PGROUNDDOWN(va), {"U"})
      n == Chunk(va, len)
      s == Phys(pa, va)
  IN IF len = 0 THEN [ok |-> TRUE, buf |-> dst]
     ELSE IF pa = -1 THEN [ok |-> FALSE, buf |-> dst]
     ELSE copyin(dst \o [i \in 1..n |-> mem[s + i - 1]], NextPage(va), len - n)

RECURSIVE copyinstr(_, _, _)
copyinstr(dst, va, max) ==
  LET pa == Lookup(PGROUNDDOWN(va), {"U"})
      n == Chunk(va, max)
      s == Phys(pa, va)
      bytes == [i \in 1..n |-> mem[s + i - 1]]
      nuls == {i \in 1..n : bytes[i] = NUL}
  IN IF max = 0 \/ pa = -1 THEN [ok |-> FALSE, buf |-> dst]
     ELSE IF nuls # {} THEN [ok |-> TRUE, buf |-> dst \o SubSeq(bytes, 1, Min(nuls))]
     ELSE copyinstr(dst \o bytes, NextPage(va), max - n)

strlen(s) == Min({i \in DOMAIN s : s[i] = NUL}) - 1

-----------------------------------------------------------------------------
Is(fn) == req.fn = fn /\ ret = "none"

Answer(r, code) == ret' = IF r.ok THEN code ELSE "-1"

Out ==
  /\ Is("copyout")
  /\ LET r == copyout(mem, req.va, Source(req.len))
     IN mem' = r.mem /\ Answer(r, "0")
  /\ UNCHANGED <<pt, sz, kbuf, req>>

In ==
  /\ Is("copyin")
  /\ LET r == copyin(<< >>, req.va, req.len) IN kbuf' = r.buf /\ Answer(r, "0")
  /\ UNCHANGED <<pt, mem, sz, req>>

InStr ==
  /\ Is("copyinstr")
  /\ LET r == copyinstr(<< >>, req.va, req.len) IN kbuf' = r.buf /\ Answer(r, "0")
  /\ UNCHANGED <<pt, mem, sz, req>>

fetchstr ==
  /\ Is("fetchstr")
  /\ LET r == copyinstr(<< >>, req.va, req.len)
     IN kbuf' = r.buf /\ Answer(r, ToString(strlen(r.buf)))
  /\ UNCHANGED <<pt, mem, sz, req>>

fetchaddr ==
  /\ Is("fetchaddr")
  /\ LET out == req.va >= sz \/ (req.va + WORD) % TOP > sz
         r == copyin(<< >>, req.va, WORD)
     IN IF out THEN kbuf' = kbuf /\ ret' = "-1" ELSE kbuf' = r.buf /\ Answer(r, "0")
  /\ UNCHANGED <<pt, mem, sz, req>>

return ==
  /\ ret # "none"
  /\ pt' = << >> /\ mem' = << >> /\ sz' = 0 /\ req' = NoCall
  /\ kbuf' = << >> /\ ret' = "none"

Next == call \/ Out \/ In \/ InStr \/ fetchstr \/ fetchaddr \/ return

Spec == Init /\ [][Next]_vars

-----------------------------------------------------------------------------
(* The bytes from va on, one by one: how many the process may access.      *)
Accessible(va, need) ==
  va < MAXVA /\ ({"V"} \cup need) \subseteq pt[va \div PGSIZE].flags

Prefix(va, len, need) ==
  Max({k \in 0..len : \A i \in 0..(k - 1) : Accessible(va + i, need)})

Place(va) == pt[va \div PGSIZE].frame * PGSIZE + (va % PGSIZE)
ByteAt(m, va) == m[Place(va)]

(* A copy moves exactly the bytes asked for when every one of them is the  *)
(* process's to access, wherever pages begin and end and whatever frames   *)
(* they are in; otherwise it fails after the bytes before the first that   *)
(* is not, and changes no other byte of memory.  copyinstr() succeeds when *)
(* a NUL is among the first max bytes and stops there.                     *)
CopiesExact ==
  [][ret' # "none" =>
       LET va == req.va
           len == req.len
           k == Prefix(va, len, IF req.fn = "copyout" THEN {"U", "W"} ELSE {"U"})
           user == [i \in 1..k |-> ByteAt(mem, va + i - 1)]
           nuls == {i \in 1..k : user[i] = NUL}
           string == SubSeq(user, 1, IF nuls = {} THEN k ELSE Min(nuls))
       IN CASE req.fn = "copyout" ->
                 /\ (ret' = "0") = (k = len)
                 /\ \A i \in 1..k : ByteAt(mem', va + i - 1) = Source(len)[i]
                 /\ \A a \in DOMAIN mem :
                      mem'[a] = mem[a] \/ \E i \in 1..k : Place(va + i - 1) = a
            [] req.fn = "copyin" -> (ret' = "0") = (k = len) /\ kbuf' = user
            [] req.fn = "fetchaddr" ->
                 (ret' = "0") = (k = len /\ va + len <= sz) /\ (ret' = "0" => kbuf' = user)
            [] OTHER ->
                 /\ (ret' # "-1") = (nuls # {}) /\ kbuf' = string
                 /\ ret' \notin {"-1", "0"} => ret' = ToString(Len(string) - 1)
    ]_vars

=============================================================================
