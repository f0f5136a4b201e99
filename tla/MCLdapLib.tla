------------------------------- MODULE MCLdapLib -------------------------------
(***************************************************************************)
(* Small instances of LdapLib.                                             *)
(***************************************************************************)
EXTENDS LdapLib, TLC

TwoResults == <<"a", "b">>
InitialMembers == ("a" :> 1) @@ ("b" :> 2)

Lists == {<<>>, <<Requested("member"), Requested("name")>>,
          <<[type |-> "member", option |-> TRUE]>>}
=============================================================================
