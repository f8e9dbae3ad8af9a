------------------------------- MODULE MCPmap -------------------------------
(* Small instances of Pmap for TLC.                                        *)
EXTENDS Pmap

\* Page 0 is reserved, the other pages are free in the order of page_init:
\* the highest page is handed out first.
AscendingOrder == [i \in 1 .. npages - 1 |-> i]
ReadOnlyAndWritable == {{}, {"W"}}
WritableOnly == {{"W"}}
=============================================================================
