----------------------------- MODULE MCStdout -----------------------------
EXTENDS Stdout, SequencesExt

\* Minutes and seconds whose number is 0, is about to gain a digit, or is the
\* last.
MCStarts == {0, 9, 59} \X {0, 9, 59}

\* The ends of an int, and numbers of one, two and three digits.
MCDecimals == {-128, -10, 0, 127}
MCHexadecimals == {-11, 0, 10, 127}
MCStrings == {<<>>, <<72, 105>>}
MCTens == <<1, 10, 100, 1000, 10000, 100000>>
MCSixteens == <<1, 16, 256>>

MCPieces ==
    [kind : {"char"}, arg : {65, NewLine}]
      \cup [kind : {"d"}, arg : MCDecimals]
      \cup [kind : {"x"}, arg : MCHexadecimals]
      \cup [kind : {"s"}, arg : MCStrings]
      \cup [kind : {"c"}, arg : {4}]
      \cup [kind : {"stray"}, arg : {0}]

\* The format made of some pieces.
MCFormat(p) ==
    LET Before(k) == SubSeq(p, 1, k - 1)
        TextOf(q) == FlattenSeq([k \in DOMAIN q |-> Source(q[k])])
        ArgsOf(q) == FlattenSeq([k \in DOMAIN q |->
                       IF Taken(q[k]) = 1 THEN <<q[k].arg>> ELSE <<>>])
    IN  [text |-> TextOf(p), args |-> ArgsOf(p),
         pieces |-> <<>> \o [k \in DOMAIN p |->
                       [kind |-> p[k].kind, arg |-> p[k].arg,
                        from |-> Len(TextOf(Before(k))),
                        nth |-> Len(ArgsOf(Before(k)))]]]

\* The last of these makes kpanic take an int that nobody passed.
MCFormats ==
    {MCFormat(<<[kind |-> "char", arg |-> c]>>) : c \in KernelCharacters}
      \cup {MCFormat(f) : f \in
            {f \in UNION {[1..l -> MCPieces] : l \in 0..3} :
               \A k \in DOMAIN f : f[k].kind = "stray" =>
                                     k < Len(f) /\ f[k + 1].kind = "char"}}
      \cup {MCFormat(<<[kind |-> "x", arg |-> -11],
                      [kind |-> "char", arg |-> Letter.d]>>)}
=============================================================================
