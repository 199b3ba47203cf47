--------------------------- MODULE MCSwtTranslator ---------------------------
(***************************************************************************)
(* SwtTranslator for TLC: the sequences clients send.  In a packet of ten  *)
(* words two or three transactions fill it, as 180 do in the program.      *)
(***************************************************************************)
EXTENDS SwtPromise

C(type, n) == [type |-> type, mode |-> "none", n |-> n, addr |-> 0]
W(mode, n, addr) == [type |-> "write", mode |-> mode, n |-> n, addr |-> addr]

Read == C("read", 0)
Reset == C("reset", 0)

\* What a client does with one operation: it reads the answer at once.
Single == {<<W("read", 0, 0), Read>>, <<W("sum", 0, 0), Read>>, <<W("write", 0, 0)>>,
           <<W("and", 0, 0), W("or", 0, 0), Read>>, <<W("read", 0, 0), C("readcnt", 1)>>,
           <<C("wait", 0)>>}
Block == {<<W("block", 2, 0), Read>>, <<W("block", 8, 0), C("readcnt", 8)>>}

UpTo(n, S) == UNION {[1 .. k -> S] : k \in 0 .. n}
AfterReset(U) == {<<Reset>> \o FlattenSeq(u) : u \in U}

\* A reset and operations that are each read at once; a block read comes
\* before the packet is full.
PairedOperations ==
    AfterReset(UpTo(3, Single))
      \cup AfterReset({a \o b \o c : a \in UpTo(1, {<<W("read", 0, 0), Read>>}), b \in UpTo(2, Block),
                                     c \in UpTo(1, Single)})
PairedScript == [n \in 1 .. 2 |-> PairedOperations]
ASSUME PairedIsDisciplined == \A s \in PairedOperations : AndsArePaired(s) /\ ReadsAtOnce(s)

\* The same with the block read anywhere.
BlockAnywhere ==
    <<AfterReset({a \o b : a \in [1 .. 2 -> {<<W("write", 0, 0)>>, <<W("read", 0, 0), Read>>}],
                           b \in [1 .. 1 -> Block]})>>

\* Several operations before one read.
BatchScript ==
    <<{<<Reset>> \o w \o <<Read>> : w \in UNION {[1 .. n -> {W("read", 0, 0)}] : n \in 1 .. 5}}>>

\* Every command, in any order.
Commands == {Reset, Read, C("readcnt", 1), C("readcnt", 2), C("wait", 0), C("invalid", 0),
             W("read", 0, 0), W("sum", 0, 0), W("write", 0, 0), W("and", 0, 0),
             W("or", 0, 0), W("or", 0, 1), W("block", 8, 0), W("block", 9, 0),
             W("unknown", 0, 0)}

\* One command more than the buffer holds.
TooMany == {<<c>> \o [i \in 1 .. 3 |-> C("wait", 0)] \o <<d>> : c, d \in Commands}

\* After any sequence, one that meets what it left behind, with no reset first.
AnyScript ==
    <<UpTo(4, Commands) \cup TooMany,
      {<<W(mode, 0, 0), Read>> : mode \in {"read", "sum", "and"}}
         \cup {<<Read>>, <<W("or", 0, 0), W("block", 8, 0), C("readcnt", 2)>>}>>

=============================================================================
