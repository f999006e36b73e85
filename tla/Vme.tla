--------------------------------- MODULE Vme ---------------------------------
(***************************************************************************)
(* Address spaces of the x86_64-qemu machine (vme.c): page tables of       *)
(* ptlevels levels below CR3, a virtual address being the sequence of its  *)
(* indices.  A call that the code answers with a panic is not enabled.     *)
(***************************************************************************)
EXTENDS Integers

CONSTANTS
  ptlevels, Fan,        \* levels and entries of a table (4 and 512)
  AddrSpaces, Frames,   \* Frames: integers, the pages pgalloc can give
  kpt, Pdpt,            \* the kernel's tables, made by start64.S
  Physical,             \* addresses that map is asked to map
  None

ASSUME VmeAssumption ==
  /\ ptlevels \in Nat \ {0, 1} /\ Fan \in Nat \ {0, 1}
  /\ Frames \subseteq Nat /\ {kpt, Pdpt, None} \cap Frames = {}

Prots == {"MMAP_NONE", "MMAP_READ", "MMAP_WRITE"}
Indices == 0 .. Fan - 1
Addresses == [1 .. ptlevels -> Indices]
Kernel(index) == index = 0              \* vm_areas, by the level-1 index
uvm_area == {va \in Addresses : va[1] = 1}

Entry(page, flags) == [page |-> page, flags |-> flags]
Absent == Entry(None, {})
Garbage == [i \in Indices |-> Entry(kpt, {"P", "U", "W"})]     \* a free page holds anything

VARIABLES
  ptr,         \* as->ptr of a space, without its flags
  entry,       \* frame -> its entries
  free,        \* frames that pgalloc has
  protected,   \* history: the spaces between protect and unprotect
  mapped       \* history: space -> address -> what map was asked for

vmeVars == <<ptr, entry, free, protected, mapped>>

NoPages == [va \in {} |-> Absent]

(* start64.S: one level-1 entry, to a table of 1 GiB pages; no PTE_U. *)
VmeInit ==
  /\ ptr = [as \in AddrSpaces |-> None]
  /\ entry = [f \in Frames \cup {kpt, Pdpt} |->
                IF f \in Frames THEN Garbage
                ELSE [i \in Indices |-> IF f = kpt /\ Kernel(i) THEN Entry(Pdpt, {"P", "W"})
                                        ELSE Absent]]      \* 1 GiB pages are not tables
  /\ free = Frames
  /\ protected = {}
  /\ mapped = [as \in AddrSpaces |-> NoPages]

pgalloc(pages) == CHOOSE f \in pages : \A g \in pages : f <= g

MutZeroed(f) == entry[f]

(* pgallocz clears what it got. *)
Zeroed(f) == [i \in Indices |-> Absent]

(* One turn of ptwalk, with the index of level i in the table s.pt.        *)
Descend(s, va, i, flags) ==
  LET e == s.entry[s.pt][va[i]]  new == pgalloc(s.free) IN
  IF s.pt = None \/ ("P" \notin e.flags /\ s.free = {}) THEN [s EXCEPT !.pt = None]
  ELSE IF "P" \in e.flags THEN [s EXCEPT !.pt = e.page]
  ELSE [pt |-> new, free |-> s.free \ {new},
        entry |-> [s.entry EXCEPT ![s.pt][va[i]] = Entry(new, {"P"} \cup flags),
                                  ![new] = Zeroed(new)]]

(* The table of the last level for va, and what the walk added on its way; *)
(* pt is None when a table is missing and there is no page for it.         *)
ptwalk(as, va, flags) ==
  LET walk[i \in 0 .. ptlevels - 1] ==
        IF i = 0 THEN [pt |-> ptr[as], free |-> free, entry |-> entry]
        ELSE Descend(walk[i - 1], va, i, flags)
  IN walk[ptlevels - 1]

protect(as) ==
  /\ as \notin protected /\ free # {}
  /\ LET upt == pgalloc(free) IN
     /\ ptr' = [ptr EXCEPT ![as] = upt]
     /\ free' = free \ {upt}
     /\ entry' = [entry EXCEPT ![upt] =
                    [i \in Indices |-> IF Kernel(i) THEN entry[kpt][i] ELSE Zeroed(upt)[i]]]
  /\ protected' = protected \cup {as}
  /\ UNCHANGED mapped

(* The last ptwalk of map finds every table and changes nothing. *)
map(as, va, pa, prot) ==
  /\ as \in protected /\ va \in uvm_area
  /\ LET w == ptwalk(as, va, {"W", "U"})
         e == w.entry[w.pt][va[ptlevels]]
         new == IF prot = "MMAP_NONE" THEN Absent
                ELSE Entry(pa, {"P", "U"} \cup IF prot = "MMAP_WRITE" THEN {"W"} ELSE {})
     IN /\ w.pt # None
        /\ ("P" \in e.flags) = (prot = "MMAP_NONE")
        /\ free' = w.free
        /\ entry' = [w.entry EXCEPT ![w.pt][va[ptlevels]] = new]
        /\ mapped' = [mapped EXCEPT ![as] =
             [a \in IF prot = "MMAP_NONE" THEN DOMAIN @ \ {va} ELSE DOMAIN @ \cup {va} |->
                IF a = va THEN new ELSE @[a]]]
  /\ UNCHANGED <<ptr, protected>>

MutTorn(e) == "P" \in e.flags

(* The entries that teardown follows: kernel entries have no PTE_U. *)
Torn(e) == "P" \in e.flags /\ "U" \in e.flags

TornBelow(pts) == UNION {{entry[p][i].page : i \in {j \in Indices : Torn(entry[p][j])}} : p \in pts}

(* What teardown frees from a table of this level on; the pages that the   *)
(* last level maps stay with the caller.                                   *)
teardown(level, pt) ==
  LET tables[d \in 0 .. ptlevels - level] ==
        IF d = 0 THEN {pt} ELSE TornBelow(tables[d - 1])
  IN UNION {tables[d] : d \in 0 .. ptlevels - level}

(* as->ptr is left as it was; callers do not use it before protect. *)
unprotect(as) ==
  /\ as \in protected
  /\ LET freed == teardown(1, ptr[as]) IN
     /\ free' = free \cup freed
     /\ entry' = [f \in DOMAIN entry |-> IF f \in freed THEN Garbage ELSE entry[f]]
  /\ protected' = protected \ {as}
  /\ mapped' = [mapped EXCEPT ![as] = NoPages]
  /\ UNCHANGED ptr

VmeNext ==
  \E as \in AddrSpaces :
    \/ protect(as)
    \/ \E va \in uvm_area, pa \in Physical, prot \in Prots : map(as, va, pa, prot)
    \/ unprotect(as)

VmeSpec == VmeInit /\ [][VmeNext]_vmeVars

-----------------------------------------------------------------------------
(* What the processor makes of va: the page, and the flags every level has. *)
Through(e, i) ==
  LET n == entry[e.page][i] IN
  IF "P" \notin e.flags \/ e.page = Pdpt THEN e
  ELSE IF "P" \in n.flags THEN Entry(n.page, n.flags \cap e.flags) ELSE Absent
Translate(as, va) ==
  LET found[i \in 0 .. ptlevels] ==
        IF i = 0 THEN Entry(ptr[as], {"P", "U", "W"}) ELSE Through(found[i - 1], va[i])
  IN found[ptlevels]

(* In every address space the processor finds exactly the pages that were  *)
(* mapped and not unmapped since protect, with write access where it was   *)
(* asked for, and the kernel's memory, which user code cannot reach.       *)
MapRight ==
  \A as \in protected, va \in Addresses :
    Translate(as, va) =
      IF Kernel(va[1]) THEN Entry(Pdpt, {"P", "W"})
      ELSE IF va \in DOMAIN mapped[as] THEN mapped[as][va] ELSE Absent

(* The table pages of the spaces in use: no page is in two of them, none   *)
(* is free, and none that pgalloc gave out is lost; the kernel's tables    *)
(* are never freed.                                                        *)
LinkedFrom(pts) == {entry[f][j].page : f \in pts \cap Frames, j \in Indices}
TablesOf(as) ==
  LET tables[i \in 0 .. ptlevels - 1] ==
        IF i = 0 THEN {ptr[as]} ELSE tables[i - 1] \cup LinkedFrom(tables[i - 1])
  IN tables[ptlevels - 1] \cap Frames
TablesOwned ==
  /\ \A a, b \in protected : a # b => TablesOf(a) \cap TablesOf(b) = {}
  /\ free \subseteq Frames
  /\ Frames \ free = UNION {TablesOf(as) : as \in protected}
=============================================================================
