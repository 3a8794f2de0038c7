---------------------------- MODULE MCCatalogPages ----------------------------
(* Three certificates, two of them created within a millisecond.           *)
EXTENDS CatalogPages, TLC

MCCreatedAt == (1 :> 1200) @@ (2 :> 5300) @@ (3 :> 5700)
===============================================================================
