---------------------------- MODULE MCGuestView ----------------------------
(***************************************************************************)
(* TLC instance of GuestView: two threads in one section, a project and    *)
(* the personal one, one page's frames.                                   *)
(***************************************************************************)
EXTENDS GuestView

CONSTANTS t1, t2, p1, s1

OneSection == [t \in Thread |-> s1]

\* t1 is shared from p1, for reading or writing; t2 from the personal
\* project, for reading.
TwoShares ==
    {g \in Grants : /\ t1 \in DOMAIN g => g[t1].project = p1
                    /\ t2 \in DOMAIN g => g[t2] = [project |-> Personal, perm |-> "read"]}

\* Its page watches t1 and p1, and asks for something it may not have.
OnePage ==
    [type : {"subscribe", "unsubscribe"}, target : {<<"thread", t1>>}]
    \cup [type : {"subscribe"}, target : {<<"project", p1>>, <<"other", None>>}]
    \cup [type : {"ping", "malformed"}]
=============================================================================
