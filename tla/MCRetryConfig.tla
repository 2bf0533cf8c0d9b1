---------------------------- MODULE MCRetryConfig ----------------------------
(***************************************************************************)
(* Instances of RetryConfig for TLC.                                       *)
(***************************************************************************)
EXTENDS RetryConfig

\* With a bigint of 16 bits the default backoff overflows after its 11th
\* attempt.
MixedEnvironments ==
    [MaxAttempts : {Unset, -1, 0, 1, 2, 4, 14},
     RetryBackoffInitialSec : {Unset, -1, 1, 7, 4000},
     RetryBackoffMaxSec : {Unset, -1, 0, 5, 8, 100}]

=============================================================================
