---------------------------- MODULE MCMembers ----------------------------
(***************************************************************************)
(* One sponsor, two accounts, two addresses, one user with three devices,  *)
(* one applicant, one subscriber and one payee, with two requests of each  *)
(* kind in flight.                                                         *)
(***************************************************************************)
EXTENDS Members, TLC

CONSTANTS u1, q1, q2, q3, i1, i2, gift, vote, o1, o2, o3, o4, o5, a1, p1

\* All requests are of one applicant.
MCAppliedBy == q1 :> u1 @@ q2 :> u1 @@ q3 :> u1
\* Admins give and take the role of an artist.
MCDirect == {<<u1, "artist">>}

\* A payment sent three times under one key and once more with another body, and a
\* second key next to it.
MCKeyOf  == o1 :> i1 @@ o2 :> i1 @@ o3 :> i1 @@ o4 :> i1 @@ o5 :> i2
MCBodyOf == o1 :> gift @@ o2 :> gift @@ o3 :> gift @@ o4 :> vote @@ o5 :> gift

\* The provider's account has the first address.
MCAddressOf == p1 :> a1
=============================================================================
