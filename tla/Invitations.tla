---------------------------- MODULE Invitations ----------------------------
(***************************************************************************)
(* Invitations as data: what a store of invitations is, and the relation   *)
(* each of the owner's operations puts between the store before and the    *)
(* store after it (plugin/lib/token-store.ts).                             *)
(***************************************************************************)
EXTENDS Functions

CONSTANTS
    Token,   \* ids of invitations (generateTokenId)
    Thread,  \* ids of BB threads
    Perm     \* what an invitation may allow on a thread: "read", "write"

ASSUME PermAssumption == Perm \subseteq {"read", "write"}

\* What one invitation says about each thread; "none" is the absence of an
\* entry in Token.shares, which holds at most one entry per thread.
Access   == Perm \cup {"none"}
Sharing  == [Thread -> Access]
NoShares == [h \in Thread |-> "none"]

\* The invitations that exist, and the threads each of them shares.
Store      == UNION {[S -> Sharing] : S \in SUBSET Token}
EmptyStore == [t \in {} |-> NoShares]

\* The new invitation of `mintToken` is stored empty or with its first thread.
FirstShares == {NoShares} \cup
    {[NoShares EXCEPT ![h] = p] : h \in Thread, p \in Perm}

-----------------------------------------------------------------------------
\* The effect of each operation on a store.

WithToken(s, t, shares) ==
    [u \in DOMAIN s \cup {t} |-> IF u = t THEN shares ELSE s[u]]

WithoutToken(s, t) == Restrict(s, DOMAIN s \ {t})

WithAccess(s, t, h, a) ==
    [u \in DOMAIN s |-> IF u = t THEN [s[u] EXCEPT ![h] = a] ELSE s[u]]

-----------------------------------------------------------------------------
\* Each owner operation as a relation between the store before and after it.

Mints(s, s2) == \E t \in Token \ DOMAIN s, shares \in FirstShares :
    s2 = WithToken(s, t, shares)

\* renameToken changes a label, which a store does not record.
Renames(s, s2) == DOMAIN s # {} /\ s2 = s

Deletes(s, s2) == \E t \in DOMAIN s : s2 = WithoutToken(s, t)

AddsShare(s, s2) == \E t \in DOMAIN s, h \in Thread, p \in Perm :
    s[t][h] = "none" /\ s2 = WithAccess(s, t, h, p)

RemovesShare(s, s2) == \E t \in DOMAIN s, h \in Thread :
    s[t][h] # "none" /\ s2 = WithAccess(s, t, h, "none")

UpdatesShare(s, s2) == \E t \in DOMAIN s, h \in Thread, p \in Perm :
    s[t][h] # "none" /\ s2 = WithAccess(s, t, h, p)

OneOperation(s, s2) ==
    \/ Mints(s, s2)     \/ Renames(s, s2)      \/ Deletes(s, s2)
    \/ AddsShare(s, s2) \/ RemovesShare(s, s2) \/ UpdatesShare(s, s2)

=============================================================================
