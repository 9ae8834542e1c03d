----------------------------- MODULE MCFormats -----------------------------
(***************************************************************************)
(* What the kernel makes of bytes: the table, the boot sector and the      *)
(* directories of a volume, the headers of a program, the text for the     *)
(* screen.  The five share no state; a run is about one of them.           *)
(***************************************************************************)
EXTENDS FATLayout, Loader, Terminal, FATTree

VARIABLE format

formatsVars == <<format, entryVars, layoutVars, loaderVars, ttyVars, treeVars>>

-----------------------------------------------------------------------------
(* Volumes of which the root directory ends within a sector or with it     *)

Volume == [bytes_per_sector : {4, 8}, sectors_per_cluster : {1, 2}, reserved_sectors : {1, 2},
           num_fat : {1, 2}, sectors_per_fat : {1, 2, 4}, num_root_entries : {1, 3, 4},
           num_sectors : {0, 9, 12, 16, 20}, long_sectors : {14}, signed : BOOLEAN]

MCBootSectors == { v \in Volume : Formatted(v) }

-----------------------------------------------------------------------------
(* Programs: segments of less than a page and of more, with and without    *)
(* bytes beyond the file's, some that do not start at a page, one that     *)
(* is not loaded; and files that are none, or are of the other type.       *)

Seg(vaddr, file_size, mem_size, offset) ==
  [loadable |-> TRUE, vaddr |-> vaddr, file_size |-> file_size, mem_size |-> mem_size,
   offset |-> offset]

Segs == { Seg(8, f, m, o) : f \in 0 .. 5, m \in 1 .. 6, o \in {4, 7} }

MCPrograms ==
  { [valid |-> v, type |-> t, entry |-> 8, segments |-> ss] :
      v \in BOOLEAN, t \in {"rel", "exec"},
      ss \in { <<s>> : s \in { x \in Segs : x.file_size <= x.mem_size } }
          \cup { <<Seg(8, 3, 4, 4), Seg(12, f, 5, 8)>> : f \in {0, 4} }
          \cup { <<Seg(9, 1, 2, 4), [Seg(4, 1, 1, 9) EXCEPT !.loadable = FALSE],
                   Seg(16, 2, 2, 5)>>, <<Seg(8, 2, 2, 4), Seg(10, 1, 2, 7)>>, <<Seg(10, 4, 4, 4)>>, <<Seg(10, 1, 4, 4)>> } }

MCArguments == { <<>>, <<0>>, <<3>>, <<1, 2>>, <<0, 1, 1>> }

-----------------------------------------------------------------------------
\* Characters that fill a row and more, and new lines.
MCStrings == { <<"a">>, <<"b">>, <<"\n">>, <<"a", "b", "a">>, <<"b", "\n", "a">> }

\* A name without an extension, and one with a base of full length.
MCFileNames == { <<"a">>, <<"a", "b", ".", "c">> }

-----------------------------------------------------------------------------
OneVolume    == CHOOSE v \in BootSectors : TRUE
OneProgram   == CHOOSE p \in Programs : TRUE

\* The parts a run is not about stay as they start, with one value each.
FormatsInit ==
  /\ EntryInit /\ LayoutInit /\ LoaderInit /\ TerminalInit /\ TreeInit
  /\ format \in {"table", "volume", "program", "text", "tree"}
  /\ format # "table"   => type = "FAT_12"
  /\ format # "volume"  => boot_sector = OneVolume
  /\ format # "program" => program = OneProgram /\ argv = <<>>

Only(f, A, rest) == format = f /\ A /\ UNCHANGED <<format, rest>>

FormatsNext ==
  \/ Only("table", EntryNext, <<layoutVars, loaderVars, ttyVars, treeVars>>)
  \/ Only("volume", FAT_mount, <<loaderVars, ttyVars, treeVars>>)
  \/ Only("program", LoaderNext, <<entryVars, layoutVars, ttyVars, treeVars>>)
  \/ Only("text", TerminalNext, <<entryVars, layoutVars, loaderVars, treeVars>>)
  \/ Only("tree", TreeNext, <<entryVars, layoutVars, loaderVars, ttyVars>>)

FormatsSpec == FormatsInit /\ [][FormatsNext]_formatsVars
=============================================================================
