----------------------------- MODULE MCListPages -----------------------------
(* A small instance of ListPages.                                           *)
EXTENDS ListPages
===============================================================================
