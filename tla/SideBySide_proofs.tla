--------------------------- MODULE SideBySide_proofs ---------------------------
(***************************************************************************)
(* MCSideBySide puts parts that share nothing into one state space: its    *)
(* behaviours are behaviours of every part, so that what is proved of a    *)
(* part holds of the run that checks them together.                        *)
(***************************************************************************)
EXTENDS MCSideBySide, Parts_proofs, Runbooks_proofs, Investigation_proofs

\* Side by side every part begins as it does alone.
LEMMA PartsBegin ==
  Init => /\ IdentityInit /\ RunbooksInit /\ IngestInit /\ GeoInit /\ RetentionInit
          /\ AnalyticsInit /\ InvestigationInit
BY DEF Init

\* A step is one of a part, or leaves it alone.
LEMMA PartsStep ==
  [Next]_vars => /\ [IdentityNext]_identityVars
                 /\ [RunbooksNext]_runbookVars
                 /\ [IngestNext]_ingestVars
                 /\ [GeoNext]_geoVars
                 /\ [RetentionNext]_retentionVars
                 /\ [AnalyticsNext]_analyticsVars
                 /\ [InvestigationNext]_investigationVars
BY DEF Next, vars, IdentityPart, RunbooksPart, IngestPart, GeoIpPart, RetentionPart,
       AnalyticsPart, TriagePart

\* Side by side every part behaves as it does alone.
THEOREM PartsAreKept ==
  Spec => /\ IdentitySpec /\ RunbooksSpec /\ IngestSpec /\ GeoSpec /\ RetentionSpec
          /\ AnalyticsSpec /\ InvestigationSpec
BY PartsBegin, PartsStep, PTL
DEF Spec, IdentitySpec, RunbooksSpec, IngestSpec, GeoSpec, RetentionSpec, AnalyticsSpec,
    InvestigationSpec

\* The variables of all seven parts stay in their declared sets.
THEOREM TypeCorrect == Spec => []TypeOK
<1>1. /\ IdentityTypeOK /\ RunbooksTypeOK /\ IngestTypeOK /\ GeoTypeOK /\ RetentionTypeOK
      /\ AnalyticsTypeOK /\ InvestigationTypeOK
      => TypeOK
  BY DEF TypeOK
<1> QED
  BY <1>1, PartsAreKept, IdentityTypes, RunbookTypes, IngestTypes, GeoTypes, RetentionTypes,
     AnalyticsTypes, InvestigationTypes, PTL
=============================================================================
