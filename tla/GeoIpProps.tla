------------------------------ MODULE GeoIpProps ------------------------------
(***************************************************************************)
(* What the country cache must guarantee.                                  *)
(***************************************************************************)
EXTENDS GeoIpCache

\* A process that took long to ask, lost its lease meanwhile or still uses the key that is
\* rotated out never replaces evidence by older evidence, but for evidence a rotation
\* moved in under its lease.
EvidenceMovesForward ==
  [][\A k \in Keys :
       entry[k].asked = k /\ entry'[k] # NoEntry => entry'[k].observed >= entry[k].observed]_geoVars
=============================================================================
