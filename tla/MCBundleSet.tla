---------------------------- MODULE MCBundleSet ----------------------------
(***************************************************************************)
(* The bundles that circulate in the instances of Importer, of two         *)
(* signers.  Bundles 1 to 3 of signer 1 have rising sequence numbers:      *)
(* 2 revokes "a" and adds "b" on its endpoint, which 3 brings again, and   *)
(* both set a template.  Of signer 2, bundle 5 revokes the profile of      *)
(* bundle 4 and conflicts with those of signer 1, bundle 6 conflicts with  *)
(* itself and bundle 7 holds an invalid profile.                           *)
(***************************************************************************)
MCProfile(i, e) == [id |-> i, endpoint |-> e]

MCBundle(i, s, q, ps, rs, ts, v) ==
    [id |-> i, signer |-> s, seq |-> q, nonce |-> i, profiles |-> ps,
     revocations |-> rs, templates |-> ts, valid |-> v]

MCBundles == {
    MCBundle(1, 1, 1, <<MCProfile("a", 1)>>, {}, {}, TRUE),
    MCBundle(2, 1, 2, <<MCProfile("b", 1)>>, {"a"}, {"t"}, TRUE),
    MCBundle(3, 1, 3, <<MCProfile("b", 1), MCProfile("g", 4)>>, {}, {"t"}, TRUE),
    MCBundle(4, 2, 1, <<MCProfile("c", 2)>>, {}, {}, TRUE),
    MCBundle(5, 2, 2, <<MCProfile("d", 1)>>, {"c"}, {}, TRUE),
    MCBundle(6, 2, 3, <<MCProfile("e", 3), MCProfile("f", 3)>>, {}, {}, TRUE),
    MCBundle(7, 2, 4, <<MCProfile("e", 3)>>, {}, {}, FALSE)}
=============================================================================
