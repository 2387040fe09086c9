-------------------------------- MODULE MCWire --------------------------------
EXTENDS Wire

MCLineEnds == {<<LF>>, <<CR>>, <<CR, LF>>}
=============================================================================
