------------------------------ MODULE MCHermes ------------------------------
(* Instances of Hermes for TLC: two sessions whose names are file names and *)
(* one, `odd', whose name is sanitised into that of another key, `bare'.    *)
EXTENDS Hermes

CONSTANTS k1, k2, odd, bare, f1, f2, f3, t1, t2, t3, t4

MCKey == {k1, k2, odd, bare}
MCFile == {f1, f2, f3}
MCFileOf == (k1 :> f1 @@ k2 :> f2 @@ odd :> f3 @@ bare :> f3)
MCNamedBy == (f1 :> k1 @@ f2 :> k2 @@ f3 :> bare)
MCTrace == {t1, t2, t3, t4}
MCKeyOf == (t1 :> k1 @@ t2 :> k1 @@ t3 :> k2 @@ t4 :> odd)
MCFeeds == {<<t1>>, <<t2>>, <<t2, t1>>, <<t1, t3, t4>>, <<t3, Invalid>>, <<t3, t2>>, <<t4>>}
=============================================================================
