------------------------ MODULE MCAnalyticsConsumer ------------------------
(***************************************************************************)
(* The instances of AnalyticsConsumer that TLC checks.  CONSTANTS get      *)
(* their values in the .cfg files; only symmetry needs a definition.       *)
(***************************************************************************)
EXTENDS AnalyticsConsumer, TLC

\* Sound where Restarting is the whole of Consumers and nothing temporal is
\* checked: no action tells two consumers apart.
ConsumerSymmetry == Permutations(Consumers)

=============================================================================
