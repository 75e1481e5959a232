--------------------------- MODULE BumpAllocator ---------------------------
(***************************************************************************)
(* The matcher's global allocator (siros-dc-matcher-wasm:                  *)
(* simple_allocator.rs): a pointer that only moves up, in a linear memory  *)
(* it grows page by page and a host that may refuse. Nothing is freed, so  *)
(* dealloc is no step.                                                     *)
(***************************************************************************)
EXTENDS Integers

CONSTANTS
  PAGE_SIZE,
  AddressPages,  \* pages an address can name: 65536
  HeapBase,      \* the linker's __heap_base
  InitialPages,  \* the memory's size when the module starts
  LayoutSize, LayoutAlign,  \* of the layouts the program asks for
  Null

MaxAddress == AddressPages * PAGE_SIZE - 1

ASSUME MemoryAssumption ==
  /\ PAGE_SIZE \in Nat \ {0} /\ AddressPages \in Nat \ {0}
  /\ InitialPages \in 0..AddressPages
  /\ HeapBase \in Nat \ {0} /\ HeapBase <= InitialPages * PAGE_SIZE /\ HeapBase <= MaxAddress
  /\ LayoutSize \subseteq Nat \ {0} /\ LayoutAlign \subseteq Nat \ {0}
  /\ Null \notin Nat

VARIABLES
  NEXT_ADDR, CURRENT_PAGES,
  memory,        \* the size of the linear memory in pages, the host's
  used,          \* the addresses handed out so far
  address        \* the answer of the last call

allocator == <<NEXT_ADDR, CURRENT_PAGES, memory, used, address>>

AllocInit ==
  /\ NEXT_ADDR = 0 /\ CURRENT_PAGES = 0
  /\ memory = InitialPages
  /\ used = {} /\ address = Null

-----------------------------------------------------------------------------
(* The first call reads where the heap starts and how large the memory is.   *)
NextAddr == IF NEXT_ADDR = 0 THEN HeapBase ELSE NEXT_ADDR
Pages == IF NEXT_ADDR = 0 THEN memory ELSE CURRENT_PAGES

(* Mutant: rounded down. *)
AlignDown(addr, align) == addr - (addr % align)

(* Up to the next multiple of a power of two; the sum is checked in Alloc.   *)
AlignUp(addr, align) == (addr + (align - 1)) - ((addr + (align - 1)) % align)

(* Mutant: 65536 pages of 64 KiB wrap to no byte at all. *)
LimitWrapped(pages) == (pages * PAGE_SIZE) % (MaxAddress + 1)

(* Saturating. *)
Limit(pages) == IF pages * PAGE_SIZE <= MaxAddress THEN pages * PAGE_SIZE ELSE MaxAddress

PagesFor(bytes) == (bytes + (PAGE_SIZE - 1)) \div PAGE_SIZE

(* Overflow of the address space is an allocation failure like any other. *)
Overflows(size, align) ==
  \/ NextAddr + (align - 1) > MaxAddress
  \/ AlignUp(NextAddr, align) + size > MaxAddress

Grant(at, end, pages) ==
  /\ address' = at /\ NEXT_ADDR' = end /\ CURRENT_PAGES' = pages
  /\ used' = used \cup (at..(end - 1))

Refuse ==
  /\ address' = Null /\ CURRENT_PAGES' = Pages
  /\ UNCHANGED <<NEXT_ADDR, memory, used>>

Alloc(size, align) ==
  LET at == AlignUp(NextAddr, align)
      end == at + size
      needed == PagesFor(end - Limit(Pages))
  IN \/ Overflows(size, align) /\ Refuse
     \/ /\ ~Overflows(size, align) /\ end <= Limit(Pages)
        /\ Grant(at, end, Pages) /\ UNCHANGED memory
     \* memory.grow may fail, and does past the address space.
     \/ /\ ~Overflows(size, align) /\ end > Limit(Pages)
        /\ \/ Refuse
           \/ /\ memory + needed <= AddressPages
              /\ memory' = memory + needed
              /\ Grant(at, end, Pages + needed)

AllocNext == \E size \in LayoutSize, align \in LayoutAlign : Alloc(size, align)

AllocSpec == AllocInit /\ [][AllocNext]_allocator

-----------------------------------------------------------------------------
AllocTypeOK ==
  /\ NEXT_ADDR \in 0..MaxAddress
  /\ CURRENT_PAGES \in 0..AddressPages /\ memory \in 0..AddressPages
  /\ used \subseteq 0..MaxAddress
  /\ address \in Nat \cup {Null}

(* Every byte handed out lies on the heap and in the memory there is: a page *)
(* too few, and the program writes where the host traps it.                  *)
InsideMemory == \A a \in used : HeapBase <= a /\ a < memory * PAGE_SIZE

(* Memory grows for what was asked and no further: a matcher runs in a       *)
(* picker with little to spare, and CURRENT_PAGES out of step with the       *)
(* memory would go unnoticed until the host refuses.                         *)
MemoryIsTight ==
  /\ NEXT_ADDR # 0 => CURRENT_PAGES = memory
  /\ memory > InitialPages => (memory - 1) * PAGE_SIZE < NEXT_ADDR

(* No block overlaps one handed out before ("undefined behaviour rather than *)
(* a mere bad pointer"), and each has its layout's size and alignment.       *)
Block(size, align) ==
  address' # Null =>
    /\ address' % align = 0
    /\ (address'..(address' + size - 1)) \cap used = {}
    /\ (address'..(address' + size - 1)) \subseteq used'

BlocksAreSeparate ==
  [][\A size \in LayoutSize, align \in LayoutAlign : Alloc(size, align) => Block(size, align)]_allocator

(* A request that fits into the memory there is, and whose end an address    *)
(* can name, is never refused: at 65536 pages too, where the product no      *)
(* longer fits a usize.                                                      *)
RoomIsUsed ==
  [][\A size \in LayoutSize, align \in LayoutAlign :
       /\ Alloc(size, align)
       /\ NextAddr + (align - 1) <= MaxAddress
       /\ AlignUp(NextAddr, align) + size <= MaxAddress
       /\ AlignUp(NextAddr, align) + size <= memory * PAGE_SIZE
       => address' # Null]_allocator
=============================================================================
