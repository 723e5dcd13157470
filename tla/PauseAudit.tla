----------------------------- MODULE PauseAudit -----------------------------
(***************************************************************************)
(* MetaAmm with a history variable that remembers the quote sequence at    *)
(* the time of the last pause.  It reads the program's accounts and        *)
(* constrains nothing.                                                     *)
(***************************************************************************)
EXTENDS MetaAmm

VARIABLE pausedAt   \* quote sequence when the pool was last paused, or -1

auditVars == <<slot, poolConfig, quoteState, vaultState,
               baseTokens, quoteTokens, pausedAt>>

Pausing ==
  /\ poolConfig # NoAccount
  /\ ~poolConfig.paused /\ poolConfig'.paused

SequenceNow == IF quoteState = NoAccount THEN 0 ELSE quoteState.sequence

AuditInit == Init /\ pausedAt = -1

AuditNext == Next /\ pausedAt' = IF Pausing THEN SequenceNow ELSE pausedAt

AuditSpec == AuditInit /\ [][AuditNext]_auditVars

(* A pool that was paused trades again only on a quote published after the *)
(* pause, as the architecture says of the paused state.  The program does  *)
(* not hold this: pause_pool(false) puts the quote of before the pause     *)
(* back into use until it expires by age.                                  *)
PauseEndsWithFreshQuote ==
  [][\/ baseTokens'[Vault] < baseTokens[Vault]
     \/ quoteTokens'[Vault] < quoteTokens[Vault]
       => quoteState.sequence > pausedAt]_auditVars

=============================================================================
