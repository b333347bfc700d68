---------------------------- MODULE MCProjection ----------------------------
EXTENDS Projection

Column(name)         == [name |-> name, leaves |-> <<name>>]
Nested(name, leaves) == [name |-> name, leaves |-> leaves]

\* Flat files, one with two columns of a name, and files with a nested column
\* that has a leaf of another column's name, or of its own.
MCTables ==
  { <<>>, <<Column("a")>>, <<Column("a"), Column("b")>>,
    <<Column("a"), Column("b"), Column("a")>>,
    <<Nested("s", <<"a", "x">>), Column("a")>>,
    <<Column("a"), Nested("s", <<"s", "x">>)>> }

\* Up to three names, repeated ones and unknown ones included.
MCRequests == UNION {[1 .. n -> {"a", "b", "s", "x"}] : n \in 1 .. 3}
=============================================================================
