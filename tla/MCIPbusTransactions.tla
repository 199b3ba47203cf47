------------------------ MODULE MCIPbusTransactions ------------------------
(***************************************************************************)
(* IPbusTransactions for TLC: four registers, and transactions of one word *)
(* and halves of blocks within them, across their end and beyond it.       *)
(***************************************************************************)
EXTENDS IPbusTransactions

T(type, words, addr) == [type |-> type, words |-> words, addr |-> addr]

\* What SwtLink asks for.  A packet takes up to three single transactions; a
\* half of a block is three words and the rest of its packet up to four.
SwtTransactions ==
    {T("Read", 1, 0), T("Read", 1, 3), T("Write", 1, 0), T("Write", 1, 4),
     T("RMWbits", 1, 0), T("RMWbits", 1, 4), T("RMWsum", 1, 3),
     T("Read", 3, 0), T("Read", 3, 1), T("Read", 4, 3), T("Read", 2, 3),
     T("NonIncrementingRead", 3, 3), T("NonIncrementingRead", 4, 3),
     T("NonIncrementingRead", 2, 4)}

=============================================================================
