------------------------------- MODULE Loader -------------------------------
(***************************************************************************)
(* How a program gets into a new address space (exe.c: new_stack,          *)
(* add_entrance_args, execute; elf.c): the stack with the arguments below  *)
(* the kernel, then the segments of the file.  A program starts after it,  *)
(* so what the loader got wrong is met far from here.                      *)
(***************************************************************************)
EXTENDS Integers, Sequences

CONSTANTS
  PAGE,          \* 0x1000: bytes of a page
  WORD,          \* 4: bytes of an int and of a pointer
  STACK_TOP,     \* 0xC0000000
  STACK_PAGES,   \* 64
  Programs,      \* files: [valid, type, entry, segments], see Segment
  Arguments      \* argv: sequences of the lengths of the strings

ASSUME LoaderAssumption ==
  /\ {PAGE, WORD, STACK_TOP, STACK_PAGES} \subseteq Nat \ {0}
  /\ STACK_TOP % PAGE = 0 /\ STACK_PAGES * PAGE <= STACK_TOP
  /\ \A a \in Arguments : a \in Seq(Nat)
  /\ \A f \in Programs : f.valid \in BOOLEAN /\ f.type \in {"rel", "exec"}

VARIABLES
  step,          \* the function of execute that runs next
  program,       \* the file in the caller's buffer
  argv,          \* the strings the caller passes
  memory,        \* the mapped bytes of the new address space
  user_pages,    \* the pages that a program in ring 3 can access
  stack_base,    \* the parameter add_entrance_args moves down
  temp_argv,     \* its copy of the pointers
  nth,           \* the argument or segment in turn
  eip            \* what elf_load returned

loaderVars == <<step, program, argv, memory, user_pages, stack_base, temp_argv, nth, eip>>

\* What a byte holds: part k of a word, a character of an argument, the byte
\* at an offset of the file, zero, or what a fresh frame happens to hold.
WordByte(v, k) == [is |-> "word", of |-> v, at |-> k]
Char(n, k)     == [is |-> "char", of |-> n, at |-> k]
FileByte(off)  == [is |-> "file", of |-> 0, at |-> off]
Zero           == [is |-> "zero", of |-> 0, at |-> 0]
Junk           == [is |-> "junk", of |-> 0, at |-> 0]

PageOf(a) == a - (a % PAGE)
Page(a)   == a .. a + PAGE - 1

Mapped(pages) == UNION { Page(p) : p \in pages }

\* A copy of bytes into a memory; the kernel stops on a page that is missing.
Copies(mem, bytes, then) ==
  IF DOMAIN bytes \subseteq DOMAIN mem
  THEN /\ memory' = [a \in DOMAIN mem |-> IF a \in DOMAIN bytes THEN bytes[a] ELSE mem[a]]
       /\ step' = then
  ELSE step' = "fault" /\ UNCHANGED memory

-----------------------------------------------------------------------------
(* The stack                                                               *)

\* valloc_page maps each page at once, and not for ring 3.
new_stack ==
  /\ step = "new_stack" /\ step' = "arguments"
  /\ LET pages == { STACK_TOP - n * PAGE : n \in 1 .. STACK_PAGES }
     IN  memory' = [a \in Mapped(pages) |-> Junk]
  /\ stack_base' = STACK_TOP
  /\ UNCHANGED <<program, argv, user_pages, temp_argv, nth, eip>>

\* One round of the loop: the string and its end below what is there.
copy_argument ==
  /\ step = "arguments" /\ nth <= Len(argv)
  /\ UNCHANGED user_pages
  /\ LET base == stack_base - (argv[nth] + 1)
     IN  /\ Copies(memory, [a \in base .. base + argv[nth] |->
                      IF a = base + argv[nth] THEN Zero ELSE Char(nth, a - base)], "arguments")
         /\ stack_base' = base
         /\ temp_argv' = Append(temp_argv, base)
  /\ nth' = nth + 1
  /\ UNCHANGED <<program, argv, eip>>

\* Wrong on purpose: no room for the pointer that ends the list.
add_entrance_args_short ==
  /\ step = "arguments" /\ nth > Len(argv)
  /\ UNCHANGED user_pages
  /\ LET words == <<Len(argv)>> \o temp_argv \o <<0>>
         base  == stack_base - WORD * (Len(words) - 1)
     IN  /\ Copies(memory, [a \in base .. base + WORD * Len(words) - 1 |->
                      WordByte(words[(a - base) \div WORD + 1], (a - base) % WORD)], "elf_load")
         /\ stack_base' = base
  /\ nth' = 1
  /\ UNCHANGED <<program, argv, temp_argv, eip>>

\* The pointers, NULL and argc, from low to high: argc first.
add_entrance_args ==
  /\ step = "arguments" /\ nth > Len(argv)
  /\ UNCHANGED user_pages
  /\ LET words == <<Len(argv)>> \o temp_argv \o <<0>>
         base  == stack_base - WORD * Len(words)
     IN  /\ Copies(memory, [a \in base .. stack_base - 1 |->
                      WordByte(words[(a - base) \div WORD + 1], (a - base) % WORD)], "elf_load")
         /\ stack_base' = base
  /\ nth' = 1
  /\ UNCHANGED <<program, argv, temp_argv, eip>>

-----------------------------------------------------------------------------
(* The file                                                                *)

\* elf_validate_magic and elf_validate_supported; execute takes NULL for the
\* entry when they refuse.
elf_load ==
  /\ step = "elf_load"
  /\ IF program.valid THEN step' = "segments" /\ UNCHANGED eip
                      ELSE step' = "user" /\ eip' = 0
  /\ UNCHANGED <<program, argv, memory, user_pages, stack_base, temp_argv, nth>>

Segment == program.segments[nth]

\* Wrong on purpose: the end of the last page is rounded down.
bss_end_down(mem_end) == (mem_end \div PAGE) * PAGE

bss_end(mem_end) == ((mem_end + PAGE - 1) \div PAGE) * PAGE

\* umap_pages: every page gets a fresh frame, one that is mapped already too.
MapFresh(begin, end) ==
  [a \in DOMAIN memory \cup begin .. end - 1 |-> IF a \in begin .. end - 1 THEN Junk ELSE memory[a]]

\* One round of elf_load_segments: umap_pages, memcpy, memset.  When the last
\* page ends before the file's bytes the length of the memset wraps around.
load_segment ==
  /\ step = "segments" /\ program.type = "exec" /\ nth <= Len(program.segments)
  /\ LET begin    == PageOf(Segment.vaddr)
         end      == bss_end(begin + Segment.mem_size)
         file_end == Segment.vaddr + Segment.file_size
         bytes    == [a \in Segment.vaddr .. end - 1 |->
                        IF a < file_end THEN FileByte(Segment.offset + a - Segment.vaddr)
                                        ELSE Zero]
     IN  \/ /\ ~Segment.loadable
            /\ UNCHANGED <<step, memory, user_pages>>
         \/ /\ Segment.loadable /\ file_end <= end
            /\ user_pages' = user_pages \cup { p \in begin .. end - 1 : p % PAGE = 0 }
            /\ Copies(MapFresh(begin, end), bytes, "segments")
         \/ /\ Segment.loadable /\ file_end > end
            /\ step' = "fault" /\ UNCHANGED <<memory, user_pages>>
  /\ nth' = nth + 1
  /\ UNCHANGED <<program, argv, stack_base, temp_argv, eip>>

segments_loaded ==
  /\ step = "segments" /\ (program.type # "exec" \/ nth > Len(program.segments))
  /\ step' = "user" /\ eip' = program.entry
  /\ UNCHANGED <<program, argv, memory, user_pages, stack_base, temp_argv, nth>>

LoaderInit ==
  /\ step = "new_stack"
  /\ program \in Programs /\ argv \in Arguments
  /\ memory = [a \in {} |-> Junk] /\ user_pages = {} /\ stack_base = 0
  /\ temp_argv = <<>> /\ nth = 1 /\ eip = 0

LoaderNext ==
  new_stack \/ copy_argument \/ add_entrance_args \/ elf_load \/ load_segment \/ segments_loaded

LoaderSpec == LoaderInit /\ [][LoaderNext]_loaderVars

\* What the loader takes on trust.  The segments of a program are as a linker
\* lays them out: one behind the other, below the stack, and none has more
\* bytes in the file than in memory.
Headers == [loadable : BOOLEAN, vaddr : Nat, file_size : Nat, mem_size : Nat, offset : Nat]

Linked(segments) ==
  /\ segments \in Seq(Headers)
  /\ \A n \in DOMAIN segments : segments[n].loadable =>
       LET s == segments[n]
       IN  /\ s.file_size <= s.mem_size /\ s.mem_size > 0
           /\ bss_end(PageOf(s.vaddr) + s.mem_size) <= STACK_TOP - STACK_PAGES * PAGE
           /\ \A m \in 1 .. n - 1 :
                segments[m].loadable => segments[m].vaddr + segments[m].mem_size <= s.vaddr

\* The arguments and the pointers to them fit in the stack.
Used(a) ==
  LET used[n \in 0 .. Len(a)] == IF n = 0 THEN 0 ELSE used[n - 1] + (a[n] + 1)
  IN  used

FitsTheStack(a) == Used(a)[Len(a)] + WORD * (Len(a) + 2) <= STACK_PAGES * PAGE

ASSUME InputAssumption ==
  /\ \A f \in Programs : Linked(f.segments)
  /\ \A a \in Arguments : FitsTheStack(a)

-----------------------------------------------------------------------------
(* Properties                                                              *)

Bytes(a, v) == \A k \in 0 .. WORD - 1 : a + k \in DOMAIN memory /\ memory[a + k] = WordByte(v, k)

\* When the program starts, its stack pointer leads to what was passed: argc,
\* as many pointers, NULL, and behind each pointer the string and its end.
\* All of it is in memory; that ring 3 may read it is not so (StackIsUsers).
ArgumentsArrive ==
  step = "user" =>
    /\ Bytes(stack_base, Len(argv))
    /\ Bytes(stack_base + WORD * (Len(argv) + 1), 0)
    /\ \A n \in DOMAIN argv : \E p \in DOMAIN memory :
         /\ Bytes(stack_base + WORD * n, p)
         /\ \A k \in 0 .. argv[n] - 1 :
              p + k \in DOMAIN memory /\ memory[p + k] = Char(n, k)
         /\ p + argv[n] \in DOMAIN memory /\ memory[p + argv[n]] = Zero

\* The last page of a segment is computed from the page it starts in, which is
\* right when it starts at a page, or ends in the page that is found like that.
EndsInPage(s) ==
  \A a \in s.vaddr .. s.vaddr + s.mem_size - 1 : PageOf(a) < PageOf(s.vaddr) + s.mem_size

\* A segment behind another one starts in a page of its own.
OwnPages(segments) ==
  \A n \in DOMAIN segments : \A m \in 1 .. n - 1 :
    segments[m].loadable /\ segments[n].loadable =>
      segments[m].vaddr + segments[m].mem_size <= PageOf(segments[n].vaddr)

WellPlaced == OwnPages(program.segments) /\ \A n \in DOMAIN program.segments : EndsInPage(program.segments[n])

\* Each byte of a segment is where the program can access it, and holds the
\* file's byte or, beyond those (`zero trailing bss'), zero.
ImageIsThere ==
  step = "user" /\ eip # 0 /\ program.type = "exec" =>
    \A n \in DOMAIN program.segments :
      LET s == program.segments[n]
      IN  s.loadable => \A k \in 0 .. s.mem_size - 1 :
            /\ s.vaddr + k \in DOMAIN memory /\ PageOf(s.vaddr + k) \in user_pages
            /\ memory[s.vaddr + k] = IF k < s.file_size THEN FileByte(s.offset + k) ELSE Zero

\* A program that is placed like that is there when it starts, and neither it
\* nor its arguments stopped the kernel.
ImageArrives == WellPlaced => step # "fault" /\ ImageIsThere

\* Together: a program starts with what the file and its caller gave it.
ProgramArrives == ArgumentsArrive /\ ImageArrives

\* Not so: that the program may read its arguments and use its stack; and that
\* its image is complete when two segments share a page (umap_pages puts a
\* fresh frame behind it), or when one ends in a page that elf_load_segments
\* does not find.
StackIsUsers == step = "user" => \A a \in stack_base .. STACK_TOP - 1 : PageOf(a) \in user_pages
SharedPageKept ==
  (\A n \in DOMAIN program.segments : EndsInPage(program.segments[n])) => ImageIsThere
LastPageFound == OwnPages(program.segments) => step # "fault"
=============================================================================
