--------------------------- MODULE MCCatalogueFile ---------------------------
\* Instance of CatalogueFile for TLC: the values are model values of the cfg.
EXTENDS CatalogueFile
=============================================================================
