------------------------------- MODULE MCDump -------------------------------
(***************************************************************************)
(* Small instances of Dump: a program, one library, private memory with    *)
(* and without a PE, and limits that one or two allocations exceed.        *)
(***************************************************************************)
EXTENDS Dump

MCFiles == {"app.exe", "other/app.exe", "lib.dll"}

At(page, edge) == [page |-> page, edge |-> edge]

\* Images of one page and of too many, private memory with a PE at its start,
\* at the start of a later region, or between two, and without one; a page that
\* can be executed and not read.
MCAllocations ==
  {Free, Image("app.exe", 1), Image("lib.dll", 1),
   Private(TRUE, At(0, TRUE), 1, 1), Private(TRUE, At(1, FALSE), 2, 2),
   Private(TRUE, None, 2, 1)}

\* Choices that exceed a limit: large libraries, and large buffers; and a buffer of
\* which nothing can be read.
LimitAllocations ==
  {Free, Image("app.exe", 2), Image("other/app.exe", 1), Image("lib.dll", 3),
   Private(TRUE, At(1, TRUE), 2, 2), Private(TRUE, At(0, TRUE), 2, 1),
   Private(TRUE, At(0, TRUE), 1, 0), Private(FALSE, None, 2, 2)}

AllOnly == {All}
AnyRequest == {All, Named("lib.dll"), Address(1, 0)}
NoEntryPoint == {FALSE}
=============================================================================
