------------------------------ MODULE MCMemory ------------------------------
EXTENDS Memory, TLC

Seg(vaddr, memsz, filesz, perm) ==
  [vaddr |-> vaddr, memsz |-> memsz, filesz |-> filesz, perm |-> perm, short |-> FALSE]

(* Text and data; a program that is refused at its second header, because  *)
(* it is short or ends beyond 2^64, or whose second segment cannot be      *)
(* read; a file that is no program.                                        *)
MCPrograms ==
  { <<Seg(0, 2, 2, {"X"}), Seg(2, 2, 1, {"W"})>>,
    <<Seg(0, 2, 1, {"X"}), Seg(2, 1, 2, {"W"})>>,
    <<Seg(0, 2, 1, {"X"}), Seg(UINT64 - 2, 6, 1, {"W"})>>,
    <<Seg(0, 2, 1, {"X"}), [Seg(2, 3, 3, {"W"}) EXCEPT !.short = TRUE]>>,
    <<"noelf">> }

MCSteps == {-5, -3, 3}

(* Frames are interchangeable: states are alike when the processes have    *)
(* the same tables and see the same pages with the same permissions, as    *)
(* many pages are free, and the invariants are as true.                    *)
Seen(p, va) ==
  LET m == walk(kmem, proc[p].pagetable, va, FALSE)
      pte == PteAt(m, m.ret)
  IN IF ~Found(m) THEN <<"no table">>
     ELSE IF pte = NoPTE THEN <<"no page">>
     ELSE IF pte.pa \in {trampoline, proc[p].trapframe} THEN <<"kernel">>
     ELSE <<kmem.page[pte.pa], pte.flags>>
View == << Cardinality(kmem.freelist), PagesExact,
           [p \in Live |-> <<proc[p].sz, [va \in 0 .. MAXVA - 1 |-> Seen(p, va)]>>] >>
=============================================================================
