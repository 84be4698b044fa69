--------------------------- MODULE MCCatalogCache ----------------------------
\* Two listings, two readers and two writers.
EXTENDS CatalogCache

CONSTANTS master, school, r1, r2, w1, w2
=============================================================================
