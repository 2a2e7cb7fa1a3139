---------------------------- MODULE MCCronTrigger ----------------------------
(***************************************************************************)
(* Two workflows on which TLC checks CronTrigger.                          *)
(***************************************************************************)
EXTENDS CronTrigger, TLC

CONSTANTS a, b  \* workflow ids

\* Neither id has a colon.
PlainIds == a :> a @@ b :> b

\* b is a followed by a colon and more.
ColonId == a :> a @@ b :> a

=============================================================================
