--------------------------- MODULE MCShmAllocator ---------------------------
EXTENDS ShmAllocator, TLC

\* A byte, a type with padding before it, one that fills a page, and two that
\* the checks refuse: larger, and more strictly aligned, than a page.
MCTypes == {"byte", "word", "page", "large", "strict"}
MCSize  == [byte |-> 1, word |-> 4, page |-> 8, large |-> 9, strict |-> 4]
MCAlign == [byte |-> 1, word |-> 4, page |-> 8, large |-> 1, strict |-> 16]

\* Names are only compared.
Symmetry == Permutations(Names)
=============================================================================
