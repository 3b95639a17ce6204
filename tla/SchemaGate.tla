----------------------------- MODULE SchemaGate -----------------------------
(***************************************************************************)
(* What the schema-state row promises the processes that read it (the API  *)
(* and preflight, through Database.Check): the schema only changes while   *)
(* no version is advertised, it only grows upwards, and the version that   *)
(* is advertised is the one the schema has.                                *)
(***************************************************************************)
EXTENDS Naturals

VARIABLES
  schema,      \* the versions whose migrations the database has
  advertised   \* the version readers may rely on, 0 for none

vars == <<schema, advertised>>

Highest(v) == v \in schema /\ \A w \in schema : w <= v

Init == schema = {} /\ advertised = 0

\* Readers are turned away,
Close == advertised # 0 /\ advertised' = 0 /\ UNCHANGED schema

\* ... then the schema is extended,
Extend ==
  /\ advertised = 0
  /\ \E v \in schema' : (\A w \in schema : w < v) /\ schema' = schema \cup {v}
  /\ UNCHANGED advertised

\* ... and then the version it has reached is advertised.
Advertise == advertised = 0 /\ Highest(advertised') /\ UNCHANGED schema

Next == Close \/ Extend \/ Advertise
Spec == Init /\ [][Next]_vars
=============================================================================
