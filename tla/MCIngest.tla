------------------------------ MODULE MCIngest ------------------------------
EXTENDS Ingest

MCLower == [CSV |-> "csv"]

\* Names whose targets cannot meet in more than one way.
MCCandidates == << <<"a", "CSV">>, <<"a", "csv">>, <<"b", "csv">>, <<"b", "parquet">> >>

\* Names whose targets meet twice.
MCColliding == << <<"a", "csv">>, <<"a", "csv", "parquet">>, <<"a", "parquet">> >>
=============================================================================
