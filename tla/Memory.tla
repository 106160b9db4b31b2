------------------------------- MODULE Memory -------------------------------
(***************************************************************************)
(* Physical pages and user address spaces: kernel/kalloc.c, the user part  *)
(* of kernel/vm.c, kernel/exec.c and the memory of allocproc(), fork(),    *)
(* growproc() and freeproc() in kernel/proc.c.                             *)
(*                                                                         *)
(* A page table is the three-level tree of the code, with PTES entries per *)
(* table, so TRAPFRAME and TRAMPOLINE are the last two of PTES^3 pages. A  *)
(* system call is one step, because it works on page tables nobody else    *)
(* uses; the only thing calls share is the free list, and kalloc() may     *)
(* find it empty at any point of a call, because of what the other CPUs    *)
(* hold at that moment. What a page holds is one value.                    *)
(*                                                                         *)
(* The operators that model functions take and return the kernel's memory, *)
(* with the function's result in the field ret.                            *)
(***************************************************************************)
EXTENDS Integers, Sequences, FiniteSets, FiniteSetsExt

CONSTANTS NPROC,
          FRAMES,     \* pages of physical memory
          PTES,       \* entries of a page table, 512
          PGSIZE,
          UINT64,     \* 2^64
          USERSTACK,
          MAXARG,
          Programs,   \* what exec() may be called on
          MaxSz,      \* bound: sbrk() grows no process beyond this
          Steps,      \* bound: the arguments of sbrk()
          Stores,     \* bound: the pages a process stores to
          MaxRoom     \* bound: no call needs more pages than this

Proc == 1 .. NPROC
Frame == 1 .. FRAMES
Null == 0
trampoline == FRAMES + 1  \* a page of the kernel's text
MAXVA == PTES * PTES * PTES  \* in pages, as all page addresses here
TRAMPOLINE == MAXVA - 1
TRAPFRAME == MAXVA - 2

ASSUME MemoryConstants ==
  /\ {NPROC, FRAMES, PTES, PGSIZE, USERSTACK, MAXARG, MaxSz, MaxRoom} \subseteq Nat \ {0}
  /\ UINT64 \in Nat /\ 2 * MaxSz < UINT64 /\ Steps \subseteq -MaxSz .. MaxSz
  /\ Stores \subseteq 0 .. TRAPFRAME - 1
  /\ MaxSz < TRAPFRAME * PGSIZE

VARIABLES
  kmem,  \* [freelist, page, panic, room, ret]: the free pages, what every
         \* page holds, whether panic() was called, how many kalloc() calls
         \* of this system call will succeed, the result of a function
  proc   \* [pagetable, trapframe, sz] of every process

vars == <<kmem, proc>>

NoPTE == [pa |-> Null, flags |-> {}]
EmptyTable == [i \in 0 .. PTES - 1 |-> NoPTE]
Unused == [pagetable |-> Null, trapframe |-> Null, sz |-> 0]

Panic(m) == [m EXCEPT !.panic = TRUE, !.ret = Null]
Ret(m, r) == [m EXCEPT !.ret = r]

(* One statement of a function, then the rest of it, on its result. *)
Then(m, Rest(_)) == Rest(m)

PGROUNDUP(sz) == (sz + PGSIZE - 1) \div PGSIZE  \* in pages

-----------------------------------------------------------------------------
(* kalloc.c. The free list is a set: which page kalloc() returns does not  *)
(* matter. A page freed twice is as good as a panic.                       *)

kalloc(m) ==
  IF m.freelist = {} \/ m.room = 0 THEN Ret(m, Null)
  ELSE LET f == Min(m.freelist) IN
       [m EXCEPT !.freelist = @ \ {f}, !.room = @ - 1,
                 !.page[f] = "junk", !.ret = f]

kfree(m, f) ==
  IF f \notin Frame \/ f \in m.freelist THEN Panic(m)
  ELSE [m EXCEPT !.freelist = @ \cup {f}, !.page[f] = "junk"]

-----------------------------------------------------------------------------
(* vm.c *)

PX(level, va) == (va \div PTES ^ level) % PTES

(* One level of walk(): the next table, made if need be. *)
Down(m, t, level, va, alloc) ==
  LET pte == m.page[t][PX(level, va)] IN
  IF pte # NoPTE THEN Ret(m, pte.pa)
  ELSE IF ~alloc THEN Ret(m, Null)
  ELSE Then(kalloc(m), LAMBDA m1 :
         IF m1.ret = Null THEN m1
         ELSE [m1 EXCEPT !.page[m1.ret] = EmptyTable,
                         !.page[t][PX(level, va)] = [pa |-> m1.ret, flags |-> {}]])

(* walk() returns the table and the index of the entry; no table is Null. *)
walk(m, pagetable, va, alloc) ==
  IF va >= MAXVA THEN Ret(Panic(m), <<Null, 0>>)
  ELSE Then(Down(m, pagetable, 2, va, alloc), LAMBDA m1 :
       Then(IF m1.ret = Null THEN m1 ELSE Down(m1, m1.ret, 1, va, alloc), LAMBDA m2 :
         Ret(m2, <<m2.ret, PX(0, va)>>)))

Found(m) == m.ret[1] # Null

PteAt(m, a) == m.page[a[1]][a[2]]
SetPte(m, a, pte) == [m EXCEPT !.page[a[1]][a[2]] = pte]

(* mappages() of one page, which is how every caller here uses it. *)
mappages(m, pagetable, va, pa, perm) ==
  Then(walk(m, pagetable, va, TRUE), LAMBDA m1 :
    IF ~Found(m1) THEN Ret(m1, -1)
    ELSE IF PteAt(m1, m1.ret) # NoPTE THEN Panic(m1)
    ELSE Ret(SetPte(m1, m1.ret, [pa |-> pa, flags |-> perm]), 0))

(* One round of uvmunmap(). *)
Unmap(m, pagetable, va, do_free) ==
  Then(walk(m, pagetable, va, FALSE), LAMBDA m1 :
    IF ~Found(m1) THEN Panic(m1)
    ELSE LET pte == PteAt(m1, m1.ret) IN
         IF pte = NoPTE \/ pte.flags = {} THEN Panic(m1)
         ELSE SetPte(IF do_free THEN kfree(m1, pte.pa) ELSE m1, m1.ret, NoPTE))

RECURSIVE uvmunmap(_, _, _, _, _)
uvmunmap(m, pagetable, va, npages, do_free) ==
  IF npages <= 0 \/ m.panic THEN m
  ELSE uvmunmap(Unmap(m, pagetable, va, do_free), pagetable, va + 1, npages - 1, do_free)

uvmcreate(m) ==
  LET m1 == kalloc(m) IN
  IF m1.ret = Null THEN m1 ELSE [m1 EXCEPT !.page[m1.ret] = EmptyTable]

uvmdealloc(m, pagetable, oldsz, newsz) ==
  IF newsz >= oldsz THEN Ret(m, oldsz)
  ELSE Ret(uvmunmap(m, pagetable, PGROUNDUP(newsz),
                    PGROUNDUP(oldsz) - PGROUNDUP(newsz), TRUE), newsz)

RECURSIVE AllocFrom(_, _, _, _, _, _)
MutNoKfree(m, pagetable, oldsz, a, newsz, xperm) ==
  LET undo(n) == Ret(uvmdealloc(n, pagetable, a * PGSIZE, oldsz * PGSIZE), 0) IN
  IF a * PGSIZE >= newsz \/ m.panic THEN Ret(m, newsz)
  ELSE Then(kalloc(m), LAMBDA m1 :
         LET mem == m1.ret IN
         IF mem = Null THEN undo(m1)
         ELSE Then(mappages([m1 EXCEPT !.page[mem] = "zero"], pagetable, a,
                            mem, {"R", "U"} \cup xperm), LAMBDA m2 :
                IF m2.ret # 0 THEN undo(m2)
                ELSE AllocFrom(m2, pagetable, oldsz, a + 1, newsz, xperm)))

(* The loop of uvmalloc() at page a; oldsz is rounded up. *)
AllocFrom(m, pagetable, oldsz, a, newsz, xperm) ==
  LET undo(n) == Ret(uvmdealloc(n, pagetable, a * PGSIZE, oldsz * PGSIZE), 0) IN
  IF a * PGSIZE >= newsz \/ m.panic THEN Ret(m, newsz)
  ELSE Then(kalloc(m), LAMBDA m1 :
         LET mem == m1.ret IN
         IF mem = Null THEN undo(m1)
         ELSE Then(mappages([m1 EXCEPT !.page[mem] = "zero"], pagetable, a,
                            mem, {"R", "U"} \cup xperm), LAMBDA m2 :
                IF m2.ret # 0 THEN undo(kfree(m2, mem))
                ELSE AllocFrom(m2, pagetable, oldsz, a + 1, newsz, xperm)))

uvmalloc(m, pagetable, oldsz, newsz, xperm) ==
  IF newsz < oldsz THEN Ret(m, oldsz)
  ELSE AllocFrom(m, pagetable, PGROUNDUP(oldsz), PGROUNDUP(oldsz), newsz, xperm)

RECURSIVE freewalk(_, _, _)
freewalk(m, t, i) ==
  IF m.panic THEN m
  ELSE IF i = PTES THEN kfree(m, t)
  ELSE LET pte == m.page[t][i] IN
       IF pte = NoPTE THEN freewalk(m, t, i + 1)
       ELSE IF pte.flags # {} THEN Panic(m)
       ELSE freewalk(SetPte(freewalk(m, pte.pa, 0), <<t, i>>, NoPTE), t, i + 1)

uvmfree(m, pagetable, sz) ==
  freewalk(uvmunmap(m, pagetable, 0, PGROUNDUP(sz), TRUE), pagetable, 0)

MutShares(m, pa) == Ret(m, pa)

(* kalloc() and memmove() of the page at pa. *)
CopyPage(m, pa) ==
  LET m1 == kalloc(m) IN
  IF m1.ret = Null THEN m1 ELSE [m1 EXCEPT !.page[m1.ret] = m.page[pa]]

(* The loop of uvmcopy() at page i. *)
RECURSIVE CopyFrom(_, _, _, _, _)
CopyFrom(m, old, new, i, sz) ==
  LET err(n) == Ret(uvmunmap(n, new, 0, i, TRUE), -1) IN
  IF i * PGSIZE >= sz \/ m.panic THEN Ret(m, 0)
  ELSE Then(walk(m, old, i, FALSE), LAMBDA m0 :
       LET pte == PteAt(m0, m0.ret) IN
       IF ~Found(m0) \/ pte = NoPTE THEN Panic(m0)
       ELSE Then(CopyPage(m0, pte.pa), LAMBDA m1 :
            LET mem == m1.ret IN
            IF mem = Null THEN err(m1)
            ELSE Then(mappages(m1, new, i, mem, pte.flags), LAMBDA m2 :
                 IF m2.ret # 0 THEN err(kfree(m2, mem))
                 ELSE CopyFrom(m2, old, new, i + 1, sz))))

uvmcopy(m, old, new, sz) == CopyFrom(m, old, new, 0, sz)

uvmclear(m, pagetable, va) ==
  Then(walk(m, pagetable, va, FALSE), LAMBDA m1 :
    IF ~Found(m1) THEN Panic(m1)
    ELSE SetPte(m1, m1.ret, [PteAt(m1, m1.ret) EXCEPT !.flags = @ \ {"U"}]))

(* walkaddr(), and the tests of copyout() when need has "W". *)
walkaddr(m, pagetable, va, need) ==
  Then(walk(m, pagetable, va, FALSE), LAMBDA m1 :
    IF va >= MAXVA \/ ~Found(m1) THEN Null
    ELSE LET pte == PteAt(m1, m1.ret) IN
         IF need \subseteq pte.flags THEN pte.pa ELSE Null)

-----------------------------------------------------------------------------
(* The page table of a process: proc.c *)

proc_pagetable(m, trapframe) ==
  Then(uvmcreate(m), LAMBDA m1 :
  LET pt == m1.ret IN
  IF pt = Null THEN m1
  ELSE Then(mappages(m1, pt, TRAMPOLINE, trampoline, {"R", "X"}), LAMBDA m2 :
       IF m2.ret # 0 THEN Ret(uvmfree(m2, pt, 0), Null)
       ELSE Then(mappages(m2, pt, TRAPFRAME, trapframe, {"R", "W"}), LAMBDA m3 :
            IF m3.ret # 0 THEN Ret(uvmfree(Unmap(m3, pt, TRAMPOLINE, FALSE), pt, 0), Null)
            ELSE Ret(m3, pt))))

proc_freepagetable(m, pagetable, sz) ==
  uvmfree(Unmap(Unmap(m, pagetable, TRAMPOLINE, FALSE), pagetable, TRAPFRAME, FALSE),
          pagetable, sz)

freeproc(m, p) ==
  LET m1 == IF p.trapframe # Null THEN kfree(m, p.trapframe) ELSE m
  IN IF p.pagetable # Null THEN proc_freepagetable(m1, p.pagetable, p.sz) ELSE m1

(* The memory of allocproc(); ret is the process, Unused if it failed. *)
allocproc(m) ==
  Then(kalloc(m), LAMBDA m1 :
  IF m1.ret = Null THEN Ret(m1, Unused)
  ELSE Then(proc_pagetable(m1, m1.ret), LAMBDA m2 :
       LET p == [pagetable |-> m2.ret, trapframe |-> m1.ret, sz |-> 0] IN
       IF m2.ret = Null THEN Ret(freeproc(m2, p), Unused) ELSE Ret(m2, p)))

-----------------------------------------------------------------------------
(* exec.c *)

(* A program is a sequence of segments, or "noelf" for a file that is no   *)
(* program. A segment is [vaddr, memsz, filesz, perm, short]: short says   *)
(* that readi() finds the file too short for it.                           *)

flags2perm(perm) == perm \cap {"X", "W"}

(* loadseg() up to the page it cannot read. *)
RECURSIVE loadseg(_, _, _, _)
loadseg(m, pagetable, seg, i) ==
  IF i * PGSIZE >= seg.filesz THEN Ret(m, 0)
  ELSE Then(walkaddr(m, pagetable, seg.vaddr \div PGSIZE + i, {"U"}), LAMBDA pa :
         IF pa = Null THEN Panic(m)
         ELSE IF seg.short THEN Ret(m, -1)
         ELSE loadseg([m EXCEPT !.page[pa] = "text"], pagetable, seg, i + 1))

(* The checks exec() makes of a program header. *)
EndOf(seg) == (seg.vaddr + seg.memsz) % UINT64
BadHeader(seg) ==
  seg.memsz < seg.filesz \/ EndOf(seg) < seg.vaddr \/ seg.vaddr % PGSIZE # 0

(* One segment: the size so far and whether exec() can go on. *)
Segment(m, pagetable, sz, seg) ==
  IF BadHeader(seg) THEN [m |-> m, sz |-> sz, ok |-> FALSE]
  ELSE Then(uvmalloc(m, pagetable, sz, EndOf(seg), flags2perm(seg.perm)),
            LAMBDA m1 :
       IF m1.ret = 0 THEN [m |-> m1, sz |-> sz, ok |-> FALSE]
       ELSE Then(loadseg(m1, pagetable, seg, 0), LAMBDA m2 :
              [m |-> m2, sz |-> m1.ret, ok |-> m2.ret = 0]))

RECURSIVE Load(_, _, _, _)
Load(m, pagetable, sz, segs) ==
  IF segs = << >> THEN [m |-> m, sz |-> sz, ok |-> TRUE]
  ELSE Then(Segment(m, pagetable, sz, Head(segs)), LAMBDA r :
         IF ~r.ok THEN r ELSE Load(r.m, pagetable, r.sz, Tail(segs)))

(* The stack above the program, with its guard page. *)
Stack(r, pagetable) ==
  LET base == PGROUNDUP(r.sz) IN
  Then(uvmalloc(r.m, pagetable, base * PGSIZE, (base + USERSTACK + 1) * PGSIZE, {"W"}),
       LAMBDA m1 :
    IF m1.ret = 0 THEN [m |-> m1, sz |-> base * PGSIZE, ok |-> FALSE]
    ELSE [m |-> uvmclear(m1, pagetable, base), sz |-> m1.ret, ok |-> TRUE])

(* The arguments are copied to the top page, if they fit above stackbase. *)
PushArgs(r, pagetable, fit) ==
  Then(walkaddr(r.m, pagetable, r.sz \div PGSIZE - 1, {"U", "W"}), LAMBDA pa :
    IF ~fit \/ pa = Null THEN [r EXCEPT !.ok = FALSE]
    ELSE [r EXCEPT !.m.page[pa] = "args"])

(* exec() for process p; ret is the new process, or p itself on failure.   *)
exec(m, p, prog, fit) ==
  IF prog = <<"noelf">> THEN Ret(m, p)
  ELSE Then(proc_pagetable(m, p.trapframe), LAMBDA m1 :
  LET pt == m1.ret IN
  IF pt = Null THEN Ret(m1, p)
  ELSE Then(Load(m1, pt, 0, prog), LAMBDA r1 :
       Then(IF r1.ok THEN Stack(r1, pt) ELSE r1, LAMBDA r2 :
       Then(IF r2.ok THEN PushArgs(r2, pt, fit) ELSE r2, LAMBDA r3 :
         IF r3.m.panic THEN Ret(r3.m, p)
         ELSE IF ~r3.ok THEN Ret(proc_freepagetable(r3.m, pt, r3.sz), p)
         ELSE Ret(proc_freepagetable(r3.m, p.pagetable, p.sz),
                  [p EXCEPT !.pagetable = pt, !.sz = r3.sz])))))

(* The argument pages of sys_exec(): ret is the set that was allocated,    *)
(* fewer than argc if kalloc() failed.                                     *)
RECURSIVE ArgPages(_, _, _)
ArgPages(m, argc, got) ==
  Then(kalloc(m), LAMBDA m1 :
    IF argc = 0 \/ m1.ret = Null THEN Ret(m, got)
    ELSE ArgPages(m1, argc - 1, got \cup {m1.ret}))

RECURSIVE FreeAll(_, _)
FreeAll(m, pages) ==
  IF pages = {} THEN m
  ELSE LET f == Min(pages) IN FreeAll(kfree(m, f), pages \ {f})

-----------------------------------------------------------------------------
(* The system calls *)

kinit == [freelist |-> Frame, page |-> [f \in Frame |-> "junk"],
          panic |-> FALSE, room |-> FRAMES, ret |-> Null]

uvmfirst(m, pagetable) ==
  LET m1 == kalloc(m) IN
  mappages([m1 EXCEPT !.page[m1.ret] = "text"], pagetable, 0, m1.ret, {"R", "W", "X", "U"})

(* userinit(): one process with one page. *)
Init ==
  \E m1 \in {allocproc(kinit)} : \E m2 \in {uvmfirst(m1, m1.ret.pagetable)} :
  /\ kmem = [m2 EXCEPT !.room = 0, !.ret = Null]
  /\ proc = [p \in Proc |-> IF p = 1 THEN [m1.ret EXCEPT !.sz = PGSIZE] ELSE Unused]

(* A call starts with kalloc() able to succeed a number of times. *)
Start(n) == [kmem EXCEPT !.room = n]
Rooms == 0 .. MaxRoom
Finish(m) == kmem' = [m EXCEPT !.room = 0, !.ret = Null]

Runs(p) == ~kmem.panic /\ proc[p] # Unused

fork(p, q, room) ==
  /\ Runs(p) /\ proc[q] = Unused
  /\ \E m1 \in {allocproc(Start(room))} :
     LET np == m1.ret IN
     \/ np = Unused /\ Finish(m1) /\ UNCHANGED proc
     \/ /\ np # Unused
        /\ \E m2 \in {uvmcopy(m1, proc[p].pagetable, np.pagetable, proc[p].sz)} :
           \/ m2.ret # 0 /\ Finish(freeproc(m2, np)) /\ UNCHANGED proc
           \/ /\ m2.ret = 0
              /\ Finish(m2)
              /\ proc' = [proc EXCEPT ![q] = [np EXCEPT !.sz = proc[p].sz]]

(* growproc(), called by sbrk(). A size below zero wraps around. *)
growproc(p, n, room) ==
  LET sz == proc[p].sz IN
  /\ Runs(p)
  /\ sz + n <= MaxSz
  /\ \E m1 \in {IF n > 0
                THEN uvmalloc(Start(room), proc[p].pagetable, sz, sz + n, {"W"})
                ELSE uvmdealloc(Start(room), proc[p].pagetable, sz, (sz + n) % UINT64)} :
     /\ Finish(m1)
     /\ proc' = IF n > 0 /\ m1.ret = 0 THEN proc ELSE [proc EXCEPT ![p].sz = m1.ret]

(* sys_exec(); bad is what is wrong with the arguments: one of them cannot *)
(* be fetched, or they do not fit in the stack.                            *)
sys_exec(p, prog, argc, bad, room) ==
  /\ Runs(p)
  /\ \E m1 \in {ArgPages(Start(room), argc, {})} :
     IF Cardinality(m1.ret) < argc \/ argc = MAXARG \/ bad = "fetch"
     THEN Finish(FreeAll(m1, m1.ret)) /\ UNCHANGED proc
     ELSE \E m2 \in {exec(m1, proc[p], prog, bad # "stack")} :
          /\ Finish(FreeAll(m2, m1.ret))
          /\ proc' = [proc EXCEPT ![p] = m2.ret]

(* wait() finds the zombie q and calls freeproc(). *)
reap(p, q) ==
  /\ Runs(p) /\ Runs(q) /\ p # q
  /\ Finish(freeproc(kmem, proc[q]))
  /\ proc' = [proc EXCEPT ![q] = Unused]

(* The process stores to page va, or copyout() does for it. *)
store(p, va) ==
  /\ Runs(p)
  /\ \E pa \in {walkaddr(kmem, proc[p].pagetable, va, {"U", "W"})} \ {Null} :
       Finish([kmem EXCEPT !.page[pa] = "data"])
  /\ UNCHANGED proc

Next ==
  \E p \in Proc :
    \/ \E room \in Rooms :
         \/ \E q \in Proc : fork(p, q, room)
         \/ \E n \in Steps : growproc(p, n, room)
         \/ \E prog \in Programs, argc \in 0 .. MAXARG,
              bad \in {"nothing", "fetch", "stack"} : sys_exec(p, prog, argc, bad, room)
    \/ \E q \in Proc : reap(p, q)
    \/ \E va \in Stores : store(p, va)

Spec == Init /\ [][Next]_vars

-----------------------------------------------------------------------------
(* Properties *)

(* The tables of the tree under t, with their entries. *)
Entries(t) == {kmem.page[t][i] : i \in 0 .. PTES - 1} \ {NoPTE}
SubTables(t) == {e.pa : e \in {x \in Entries(t) : x.flags = {}}}
Tables(t) == LET l1 == SubTables(t) IN {t} \cup l1 \cup UNION {SubTables(x) : x \in l1}
Leaves(t) == {e \in UNION {Entries(x) : x \in Tables(t)} : e.flags # {}}

Live == {p \in Proc : proc[p] # Unused}
PagesOf(p) == {e.pa : e \in Leaves(proc[p].pagetable)} \ {trampoline, proc[p].trapframe}

(* The pages of process p, each counted once for every use. *)
Held(p) == Tables(proc[p].pagetable) \cup {proc[p].trapframe} \cup PagesOf(p)

(* Every page of physical memory is free or has exactly one use: as a table *)
(* or a page of one process or as its trapframe. So no failure half way     *)
(* through fork(), exec() or sbrk() leaks a page or frees one that is in    *)
(* use, and no two mappings share one. Nor is a panic() of vm.c or exec.c   *)
(* reached: a page that is unmapped was mapped, one that is mapped was not, *)
(* a table that is freed holds no leaves, whichever kalloc() failed before. *)
PagesExact ==
  /\ ~kmem.panic
  /\ \A p \in Live :
       /\ Cardinality(Held(p)) = Cardinality(Tables(proc[p].pagetable)) + 1
                                  + PGROUNDUP(proc[p].sz)
       /\ \A q \in Live : q # p => Held(p) \cap Held(q) = {}
  /\ UNION {Held(p) : p \in Live} = Frame \ kmem.freelist

(* Page tables implement separate address spaces: fork() copies, exec()     *)
(* replaces all or nothing, sbrk() adds zeroed pages, a store changes one   *)
(* page of one process, and a call that fails changes nothing.              *)
Entry(t, level, va) == kmem.page[t][PX(level, va)]
Content(p, va) ==
  kmem.page[Entry(Entry(Entry(proc[p].pagetable, 2, va).pa, 1, va).pa, 0, va).pa]
Whole(s) == << >> \o s  \* s itself, which TLC now computes only once
Image(p) == IF proc[p] = Unused THEN <<"none">>
            ELSE Whole([k \in 1 .. PGROUNDUP(proc[p].sz) |-> Content(p, k - 1)])

(* What a program looks like when it starts. *)
StartImage(prog) ==
  LET Of(k) == {s \in DOMAIN prog : k * PGSIZE < prog[s].vaddr + prog[s].filesz
                                     /\ k * PGSIZE >= prog[s].vaddr}
      top == Max({0} \cup {PGROUNDUP(prog[s].vaddr + prog[s].memsz) : s \in DOMAIN prog})
  IN [k \in 1 .. top + USERSTACK + 1 |->
        IF k <= top THEN IF Of(k - 1) # {} THEN "text" ELSE "zero"
        ELSE IF k = top + USERSTACK + 1 THEN "args" ELSE "zero"]

Spaces == INSTANCE AddressSpaces WITH
  img <- Whole([p \in Proc |-> Image(p)]),
  Val <- {"text", "data"},
  Images <- {StartImage(prog) : prog \in Programs \ {<<"noelf">>}},
  Zero <- "zero", None <- <<"none">>
IsAddressSpaces == Spaces!Spec
=============================================================================
