------------------------------ MODULE MCSerial ------------------------------
EXTENDS Serial

\* A data packet that ends the data, one of half a line and one of a line of
\* two tiles: two lines are a row.
const_Fills == {<< >>, <<9, 7>>, <<165, 2, 64, 255>>}
=============================================================================
