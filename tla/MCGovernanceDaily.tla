-------------------------- MODULE MCGovernanceDaily --------------------------
EXTENDS GovernanceDaily

\* One breaching sample with its candidate run.
MCBatches == {[vals |-> Validation, context |-> Validation]}
=============================================================================
