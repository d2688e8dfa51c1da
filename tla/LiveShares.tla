----------------------------- MODULE LiveShares ----------------------------
(***************************************************************************)
(* The invitations as the guest gateway meets them: a live store that it   *)
(* reads at any moment, whose changes are visible before they are durable  *)
(* and may be taken back.  ShareState.tla implements this specification;   *)
(* the guest modules are composed with it, so that what they rely on is    *)
(* written down and nothing more.                                          *)
(***************************************************************************)
EXTENDS Invitations

VARIABLES
    store,     \* the live invitations
    disk,      \* the durable invitations
    recovery,  \* the durable record could not be read: the store began empty
    change,    \* the change in progress: "none", "saving" or "saved"
    minting,   \* it mints an invitation: its announcement comes later
    drawn      \* ids ever minted: 9 random bytes are not drawn twice

liveVars == <<store, disk, recovery, change, minting, drawn>>

LiveInit ==
    /\ store = EmptyStore
    /\ disk = EmptyStore
    /\ recovery = FALSE
    /\ change = "none"
    /\ minting = FALSE
    /\ drawn = {}

\* One operation changes the live store; its save is under way.
Change(isMint) ==
    /\ change = "none"
    /\ change' = "saving"
    /\ minting' = isMint
    /\ IF isMint
         THEN Mints(store, store') /\ DOMAIN store' \cap drawn = DOMAIN store
         ELSE \/ Renames(store, store')   \/ Deletes(store, store')
              \/ AddsShare(store, store') \/ RemovesShare(store, store')
              \/ UpdatesShare(store, store')
    /\ drawn' = drawn \cup DOMAIN store'
    /\ UNCHANGED <<disk, recovery>>

Written ==
    /\ change = "saving"
    /\ ~recovery
    /\ disk' = store
    /\ change' = "saved"
    /\ UNCHANGED <<store, recovery, minting, drawn>>

Acknowledged ==
    /\ change = "saved"
    /\ change' = "none"
    /\ minting' = FALSE
    /\ UNCHANGED <<store, disk, recovery, drawn>>

\* The change is taken back.
TakenBack ==
    /\ change = "saving"
    /\ store' = IF recovery THEN EmptyStore ELSE disk
    /\ change' = "none"
    /\ minting' = FALSE
    /\ UNCHANGED <<disk, recovery, drawn>>

Reload(readable) ==
    /\ readable \/ disk # EmptyStore
    /\ store' = IF readable THEN disk ELSE EmptyStore
    /\ recovery' = ~readable
    /\ change' = "none"
    /\ minting' = FALSE
    /\ UNCHANGED <<disk, drawn>>

LiveNext ==
    \/ \E isMint \in BOOLEAN : Change(isMint)
    \/ Written
    \/ Acknowledged
    \/ TakenBack
    \/ \E readable \in BOOLEAN : Reload(readable)

LiveSpec == LiveInit /\ [][LiveNext]_liveVars
=============================================================================
