---------------------------- MODULE MCSchemaRollout ----------------------------
(* Three payments, a design and a template, through all revisions.          *)
EXTENDS SchemaRollout

CONSTANTS c1, c2, p1, p2, k1
===============================================================================
