---------------------------- MODULE ShareLedger ----------------------------
(***************************************************************************)
(* What the owner is promised about invitations: there is one durable      *)
(* ledger, and it only ever changes by one complete owner operation at a   *)
(* time.  Nothing else (a failed write, a crash, a restart, a second RPC   *)
(* racing the first, an unreadable record) changes it.  ShareState.tla     *)
(* implements this specification with the encrypted record as the ledger.  *)
(***************************************************************************)
EXTENDS Invitations

VARIABLE ledger

LedgerInit == ledger = EmptyStore

LedgerNext == OneOperation(ledger, ledger')

LedgerSpec == LedgerInit /\ [][LedgerNext]_ledger
=============================================================================
