--------------------------- MODULE MCCatalogPricing ---------------------------
(* Small instances of CatalogPricing.                                       *)
EXTENDS CatalogPricing, TLC

(* Products are only compared.                                              *)
CatalogSymmetry == Permutations(Products)
===============================================================================
